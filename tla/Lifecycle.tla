------------------------------ MODULE Lifecycle ------------------------------
(***************************************************************************)
(* The life of cert-proxy-server: parseFlags, the listener, the goroutine  *)
(* that serves, and the shutdown on a signal, with connections at every    *)
(* stage.  What a request does is in module Server.  http.Server and the   *)
(* context of the signals are modelled from how main uses them.            *)
(***************************************************************************)
EXTENDS Manual, Shared, Naturals

CONSTANTS
    Conn,           \* connections
    MaxSignals,     \* bound on the signals sent
    None            \* no value

ASSUME MaxSignalsAssumption == MaxSignals \in Nat

VARIABLES
    inp,        \* the command and what the server finds when it starts
    main,       \* where the main goroutine is
    ctx,        \* the signals: not caught, caught, ctx.Done()
    signals,    \* SIGTERM and SIGINT sent so far
    listening,  \* is the listener open?
    serve,      \* where the goroutine in srv.Serve is
    served,     \* what is in the channel of that name
    shutting,   \* is srv in shutdown?
    conn,       \* conn[c]: the state of a connection
    timedOut    \* did shutdownCtx expire?

mainVars == <<inp, main>>
sigVars == <<ctx, signals>>
srvVars == <<listening, serve, served, shutting>>
vars == <<mainVars, sigVars, srvVars, conn, timedOut>>

Dir == {"readable", "missing", "dangling", "denied", "file", "unlistable"}

\* page: the arguments of "man"; free: is the address of -serve free?
Input == [cmd : {"bad", "help", "version", "man", "serve"},
          page : {<<>>, << <<"5">> >>, << <<"6">> >>},
          tlsMin : {"1.1", "1.2", "1.3"}, certbase : Dir, ccd : Dir,
          ssl : SSLFile, free : BOOLEAN]

Exits == {"exit0", "exit1", "exit2", "killed"}

TypeOK ==
    /\ inp \in Input
    /\ main \in {"flags", "tls", "listen", "notify", "go", "select", "stop",
                 "shutdown", "poll", "pause", "await"} \cup Exits
    /\ ctx \in {"off", "armed", "done"}
    /\ signals \in 0..MaxSignals
    /\ listening \in BOOLEAN
    /\ main \in {"notify", "go", "select"} /\ serve # "done" => listening
    /\ serve \in {"off", "start", "accept", "track", "done"}
    /\ served \in {None, "closed", "error"}
    /\ shutting \in BOOLEAN
    /\ conn \in [Conn -> {"none", "backlog", "accepted", "new", "active", "idle", "closed"}]
    /\ timedOut \in BOOLEAN

Init ==
    /\ inp \in Input
    /\ main = "flags"
    /\ ctx = "off"
    /\ signals = 0
    /\ listening = FALSE
    /\ serve = "off"
    /\ served = None
    /\ shutting = FALSE
    /\ conn = [c \in Conn |-> "none"]
    /\ timedOut = FALSE

Alive == main \notin Exits

-----------------------------------------------------------------------------
\* The start.

parseTLSVersion(s) == s \in {"1.2", "1.3"}

\* A directory, or a link to one, that can be opened and listed.
checkDir(dir) == dir = "readable"

\* flag.Parse exits, -help, -version and the manual answer; with "serve" the
\* checks decide.
FlagsExits ==
    CASE inp.cmd = "bad" -> {"exit2"}
      [] inp.cmd \in {"help", "version"} -> {"exit0"}
      [] inp.cmd = "man" -> Display(Resolve(ServerRegistry, inp.page))
      [] OTHER -> IF /\ parseTLSVersion(inp.tlsMin)
                     /\ checkDir(inp.certbase) /\ checkDir(inp.ccd)
                    THEN {"tls"} ELSE {"exit1"}

parseFlags ==
    /\ main = "flags"
    /\ main' \in FlagsExits
    /\ UNCHANGED <<inp, sigVars, srvVars, conn, timedOut>>

SetupTLS ==
    /\ main = "tls"
    /\ main' = IF TLSConfig(inp.ssl) = "ok" THEN "listen" ELSE TLSFailure(inp.ssl)
    /\ UNCHANGED <<inp, sigVars, srvVars, conn, timedOut>>

\* Mutant of Listen: the error is not looked at.
ListenErrorDropped ==
    /\ main = "listen"
    /\ listening' = inp.free
    /\ main' = "notify"
    /\ UNCHANGED <<inp, sigVars, serve, served, shutting, conn, timedOut>>

Listen ==
    /\ main = "listen"
    /\ listening' = inp.free
    /\ main' = IF inp.free THEN "notify" ELSE "exit1"
    /\ UNCHANGED <<inp, sigVars, serve, served, shutting, conn, timedOut>>

Notify ==
    /\ main = "notify"
    /\ ctx' = "armed"
    /\ main' = "go"
    /\ UNCHANGED <<inp, signals, srvVars, conn, timedOut>>

GoServe ==
    /\ main = "go"
    /\ serve' = "start"
    /\ main' = "select"
    /\ UNCHANGED <<inp, sigVars, listening, served, shutting, conn, timedOut>>

-----------------------------------------------------------------------------
\* The end.

\* Mutant of SelectServed: the error is logged and main returns.
SelectServedReturns ==
    /\ main = "select"
    /\ served # None
    /\ served' = None
    /\ main' = "exit0"
    /\ UNCHANGED <<inp, sigVars, listening, serve, shutting, conn, timedOut>>

\* The first case of the select: log.Fatal.
SelectServed ==
    /\ main = "select"
    /\ served # None
    /\ served' = None
    /\ main' = "exit1"
    /\ UNCHANGED <<inp, sigVars, listening, serve, shutting, conn, timedOut>>

\* The second case; when both are ready either one may be taken.
SelectSignal ==
    /\ main = "select"
    /\ ctx = "done"
    /\ main' = "stop"
    /\ UNCHANGED <<inp, sigVars, srvVars, conn, timedOut>>

\* stop(): the next signal has its default effect again.
Stop ==
    /\ main = "stop"
    /\ ctx' = "off"
    /\ main' = "shutdown"
    /\ UNCHANGED <<inp, signals, srvVars, conn, timedOut>>

\* Mutant of Shutdown: srv.Close, which drops the connections.
CloseServer ==
    /\ main = "shutdown"
    /\ shutting' = TRUE
    /\ listening' = (listening /\ serve \notin {"accept", "track"})
    /\ main' = "await"
    /\ UNCHANGED <<inp, sigVars, serve, served, conn, timedOut>>

\* srv.Shutdown begins: a listener that Serve has taken over is closed.
Shutdown ==
    /\ main = "shutdown"
    /\ shutting' = TRUE
    /\ listening' = (listening /\ serve \notin {"accept", "track"})
    /\ main' = "poll"
    /\ UNCHANGED <<inp, sigVars, serve, served, conn, timedOut>>

In(states) == {c \in Conn : conn[c] \in states}

\* closeIdleConns, once Serve has let go of the listener: idle connections are
\* closed, and new ones that have not sent a request for 5 seconds.
Poll ==
    /\ main = "poll"
    /\ serve \notin {"accept", "track"}
    /\ \E silent \in SUBSET In({"new"}) :
          LET gone == In({"idle"}) \cup silent IN
            /\ conn' = [c \in Conn |-> IF c \in gone THEN "closed" ELSE conn[c]]
            /\ main' = IF In({"new", "active"}) \subseteq gone THEN "await" ELSE "pause"
    /\ UNCHANGED <<inp, sigVars, srvVars, timedOut>>

PollAgain ==
    /\ main = "pause"
    /\ main' = "poll"
    /\ UNCHANGED <<inp, sigVars, srvVars, conn, timedOut>>

\* Mutant of ShutdownTimeout: the context of Shutdown has no deadline.
NoDeadline ==
    /\ main = "pause"
    /\ FALSE
    /\ UNCHANGED vars

\* shutdownCtx expires: Shutdown returns with requests running.
ShutdownTimeout ==
    /\ main = "pause"
    /\ timedOut' = TRUE
    /\ main' = "await"
    /\ UNCHANGED <<inp, sigVars, srvVars, conn>>

\* <-served, and main returns.
Await ==
    /\ main = "await"
    /\ served # None
    /\ served' = None
    /\ main' = "exit0"
    /\ UNCHANGED <<inp, sigVars, listening, serve, shutting, conn, timedOut>>

-----------------------------------------------------------------------------
\* srv.Serve(listener) and its connections.

\* Serve begins: in shutdown it only closes the listener.
ServeStart ==
    /\ Alive
    /\ serve = "start"
    /\ serve' = IF shutting THEN "done" ELSE "accept"
    /\ listening' = ~shutting
    /\ served' = IF shutting THEN "closed" ELSE served
    /\ UNCHANGED <<mainVars, sigVars, shutting, conn, timedOut>>

Accept(c) ==
    /\ Alive
    /\ serve = "accept" /\ listening
    /\ conn[c] = "backlog"
    /\ conn' = [conn EXCEPT ![c] = "accepted"]
    /\ serve' = "track"
    /\ UNCHANGED <<mainVars, sigVars, listening, served, shutting, timedOut>>

Track(c) ==
    /\ Alive
    /\ serve = "track"
    /\ conn[c] = "accepted"
    /\ conn' = [conn EXCEPT ![c] = "new"]
    /\ serve' = "accept"
    /\ UNCHANGED <<mainVars, sigVars, listening, served, shutting, timedOut>>

\* Accept returns an error: ErrServerClosed in shutdown, else the error itself.
ServeReturns ==
    /\ Alive
    /\ serve = "accept"
    /\ served' = IF shutting THEN "closed" ELSE "error"
    /\ listening' = FALSE
    /\ serve' = "done"
    /\ UNCHANGED <<mainVars, sigVars, shutting, conn, timedOut>>

\* A connection goes from one state to another.
Becomes(c, from, to) ==
    /\ Alive
    /\ conn[c] \in from
    /\ conn' = [conn EXCEPT ![c] = to]
    /\ UNCHANGED <<mainVars, sigVars, srvVars, timedOut>>

Connect(c) == listening /\ Becomes(c, {"none"}, "backlog")

\* The headers of a request are complete.
Request(c) == Becomes(c, {"new", "idle"}, "active")

\* The response is sent; in shutdown the connection is closed after it.
Respond(c) == Becomes(c, {"active"}, IF shutting THEN "closed" ELSE "idle")

\* One of the four timeouts, or the client hangs up.
ConnEnds(c) == Becomes(c, {"new", "active", "idle"}, "closed")

-----------------------------------------------------------------------------
\* SIGTERM or SIGINT.
Signal ==
    /\ Alive
    /\ signals < MaxSignals
    /\ signals' = signals + 1
    /\ ctx' = IF ctx = "armed" THEN "done" ELSE ctx
    /\ main' = IF ctx = "off" THEN "killed" ELSE main
    /\ UNCHANGED <<inp, srvVars, conn, timedOut>>

Main == \/ parseFlags \/ SetupTLS \/ Listen \/ Notify \/ GoServe \/ SelectServed
        \/ SelectSignal \/ Stop \/ Shutdown \/ Poll \/ PollAgain \/ ShutdownTimeout \/ Await
Serve == ServeStart \/ (\E c \in Conn : Accept(c) \/ Track(c)) \/ ServeReturns

Next == \/ Main \/ Serve \/ Signal
        \/ \E c \in Conn : Connect(c) \/ Request(c) \/ Respond(c) \/ ConnEnds(c)

\* Main and Serve go on when they can, and the deadline comes; Accept fails for
\* certain only when the listener is closed.  Nothing is assumed of clients,
\* requests and signals.
Fairness ==
    /\ WF_vars(Main) /\ SF_vars(ShutdownTimeout)
    /\ WF_vars(ServeStart) /\ WF_vars(\E c \in Conn : Track(c))
    /\ WF_vars(shutting /\ ServeReturns)

Spec == Init /\ [][Next]_vars /\ Fairness

-----------------------------------------------------------------------------
\* Properties.

\* "waits up to 10 seconds for running requests to finish before it exits"
\* (man/cert-proxy-server.8.md:31): a server that ends on a signal before the
\* deadline has no request running and no connection it accepted and forgot, at
\* whatever stage of its start and of its connections the signal came.
GracefulExit ==
    main = "exit0" /\ shutting /\ ~timedOut => In({"accepted", "new", "active"}) = {}

\* The server ends with status 0 only when it was asked to end: for -help,
\* -version and the manual, or by a signal it caught; never because it could not
\* start or stopped serving, also when an error and a signal race
\* (man/cert-proxy-server.8.md:155, main.go:110-126).
Exit0OnlyIfAsked ==
    main = "exit0" => inp.cmd \in {"help", "version", "man"} \/ (shutting /\ signals > 0)

\* Once a signal is caught or Serve has returned the server ends, even if no
\* client ever finishes its request and the signal came before Serve began: main
\* never waits forever for Serve, nor Shutdown for its listeners (main.go:122-126).
EndsWhenDone == (ctx = "done" \/ served # None) ~> ~Alive

=============================================================================
