--------------------------- MODULE Lifecycle_proofs ---------------------------
(***************************************************************************)
(* Proofs about the life of cert-proxy-server, for any set of connections  *)
(* and any number of signals.                                              *)
(***************************************************************************)
EXTENDS Lifecycle, TLAPS

\* Where main is from the call of Shutdown to the end.
Stopping == {"poll", "pause", "await"}

\* srv is in shutdown from the call of Shutdown to the end of the process.
ShuttingMeansStopping ==
    /\ main \in Stopping => shutting
    /\ shutting => main \in Stopping \cup Exits

\* Only a signal makes the context done, and only that leads to the shutdown.
SignalCameFirst ==
    ctx = "done" \/ main \in {"stop", "shutdown"} \cup Stopping => signals > 0

\* The goroutine that serves is started only when the signals are caught.
ServeNotBegun ==
    main \in {"flags", "tls", "listen", "notify", "go"} => serve = "off"

\* A connection is between Accept and trackConn only while Serve holds it, and
\* Serve holds one at a time.
AcceptedIsHeld ==
    \A c \in Conn : conn[c] = "accepted" =>
       serve = "track" /\ \A d \in Conn : conn[d] = "accepted" => c = d

\* When Shutdown has returned nil, Serve accepts no more and every connection
\* it accepted is closed.
Drained ==
    main \in {"await", "exit0"} /\ shutting /\ ~timedOut =>
       /\ serve \notin {"accept", "track"}
       /\ \A c \in Conn : conn[c] \in {"none", "backlog", "closed"}

\* The inductive invariant.
IInv ==
    /\ TypeOK
    /\ ShuttingMeansStopping
    /\ SignalCameFirst
    /\ ServeNotBegun
    /\ AcceptedIsHeld
    /\ Drained
    /\ Exit0OnlyIfAsked

-----------------------------------------------------------------------------
\* parseFlags ends the process or goes on, and ends it with status 0 only for
\* -help, -version and the manual.
LEMMA FlagsOutcome ==
    /\ FlagsExits \subseteq {"exit0", "exit1", "exit2", "tls"}
    /\ "exit0" \in FlagsExits => inp.cmd \in {"help", "version", "man"}
<1>1. \A found : Display(found) \subseteq {"exit0", "exit1"}
  BY DEF Display
<1>2. QED
  BY <1>1 DEF FlagsExits

\* What the initial states are.
LEMMA InitIInv == Init => IInv
<1> SUFFICES ASSUME Init PROVE IInv
  OBVIOUS
<1>1. TypeOK
  <2>1. signals \in 0..MaxSignals
    BY MaxSignalsAssumption DEF Init
  <2>2. QED
    BY <2>1 DEF Init, TypeOK
<1>2. AcceptedIsHeld
  BY DEF Init, AcceptedIsHeld
<1>3. QED
  BY <1>1, <1>2 DEF Init, IInv, ShuttingMeansStopping, SignalCameFirst, Drained,
                    ServeNotBegun, Exit0OnlyIfAsked, Exits, Stopping

\* What a step of a single connection keeps: all that is not about connections.
LEMMA ConnStep ==
    ASSUME IInv, NEW c \in Conn, NEW from, NEW to, Becomes(c, from, to),
           to \in {"backlog", "active", "idle", "closed"},
           from \subseteq {"none", "new", "active", "idle"},
           "none" \in from => to = "backlog"
    PROVE  IInv'
<1> USE DEF IInv
<1>1. TypeOK'
  BY DEF TypeOK, Becomes, mainVars, sigVars, srvVars
<1>2. (ShuttingMeansStopping /\ SignalCameFirst /\ ServeNotBegun /\ Exit0OnlyIfAsked)'
  BY DEF Becomes, mainVars, sigVars, srvVars, ShuttingMeansStopping,
         SignalCameFirst, ServeNotBegun, Exit0OnlyIfAsked
<1>3. AcceptedIsHeld'
  BY DEF TypeOK, Becomes, srvVars, AcceptedIsHeld
<1>4. Drained'
  BY DEF TypeOK, Becomes, mainVars, srvVars, Drained
<1>5. QED
  BY <1>1, <1>2, <1>3, <1>4

\* A step of main: the start, the select, and the shutdown.
LEMMA MainStep == IInv /\ Main => IInv'
<1> SUFFICES ASSUME IInv, Main PROVE IInv'
  OBVIOUS
<1> USE DEF IInv, TypeOK, mainVars, sigVars, srvVars, ShuttingMeansStopping,
            SignalCameFirst, AcceptedIsHeld, Drained, ServeNotBegun, Exit0OnlyIfAsked, Exits, Stopping
<1>1. CASE parseFlags
  BY <1>1, FlagsOutcome DEF parseFlags
<1>2. CASE SetupTLS
  BY <1>2 DEF SetupTLS, TLSFailure
<1>3. CASE Listen
  <2>1. inp.free \in BOOLEAN
    BY DEF Input
  <2>2. QED
    BY <1>3, <2>1 DEF Listen
<1>4. CASE Notify
  BY <1>4 DEF Notify
<1>5. CASE GoServe
  BY <1>5 DEF GoServe
<1>6. CASE SelectServed
  BY <1>6 DEF SelectServed
<1>7. CASE SelectSignal
  BY <1>7 DEF SelectSignal
<1>8. CASE Stop
  BY <1>8 DEF Stop
<1>9. CASE Shutdown
  BY <1>9 DEF Shutdown
<1>10. CASE Poll
  <2>1. PICK silent \in SUBSET In({"new"}) :
          LET gone == In({"idle"}) \cup silent IN
            /\ conn' = [c \in Conn |-> IF c \in gone THEN "closed" ELSE conn[c]]
            /\ main' = IF In({"new", "active"}) \subseteq gone THEN "await" ELSE "pause"
    BY <1>10 DEF Poll
  <2>2. \A c \in Conn : conn'[c] \in {conn[c], "closed"} /\ conn'[c] # "idle"
    BY <2>1 DEF In
  <2>3. conn' \in [Conn -> {"none", "backlog", "accepted", "new", "active", "idle", "closed"}]
    BY <2>1
  <2>4. main' = "await" => \A c \in Conn : conn'[c] \notin {"new", "active"}
    BY <2>1 DEF In
  <2>5. QED
    BY <1>10, <2>1, <2>2, <2>3, <2>4 DEF Poll
<1>11. CASE PollAgain
  BY <1>11 DEF PollAgain
<1>12. CASE ShutdownTimeout
  BY <1>12 DEF ShutdownTimeout
<1>13. CASE Await
  BY <1>13 DEF Await
<1>14. QED
  BY <1>1, <1>2, <1>3, <1>4, <1>5, <1>6, <1>7, <1>8, <1>9, <1>10, <1>11, <1>12, <1>13 DEF Main

\* A step of the goroutine in Serve.
LEMMA ServeStep == IInv /\ Serve => IInv'
<1> SUFFICES ASSUME IInv, Serve PROVE IInv'
  OBVIOUS
<1> USE DEF IInv, TypeOK, mainVars, sigVars, srvVars, ShuttingMeansStopping,
            SignalCameFirst, AcceptedIsHeld, Drained, ServeNotBegun, Exit0OnlyIfAsked, Exits, Stopping, Alive
<1>1. CASE ServeStart
  BY <1>1 DEF ServeStart
<1>2. ASSUME NEW c \in Conn, Accept(c) PROVE IInv'
  BY <1>2 DEF Accept
<1>3. ASSUME NEW c \in Conn, Track(c) PROVE IInv'
  BY <1>3 DEF Track
<1>4. CASE ServeReturns
  BY <1>4 DEF ServeReturns
<1>5. QED
  BY <1>1, <1>2, <1>3, <1>4 DEF Serve

\* A step of a connection, which only its client and its handler take.
LEMMA ConnectionStep ==
    ASSUME IInv, NEW c \in Conn, Connect(c) \/ Request(c) \/ Respond(c) \/ ConnEnds(c)
    PROVE  IInv'
<1>1. CASE Connect(c)
  BY <1>1, ConnStep DEF Connect
<1>2. CASE Request(c)
  BY <1>2, ConnStep DEF Request
<1>3. CASE Respond(c)
  BY <1>3, ConnStep DEF Respond
<1>4. CASE ConnEnds(c)
  BY <1>4, ConnStep DEF ConnEnds
<1>5. QED
  BY <1>1, <1>2, <1>3, <1>4

\* A signal, caught or not.
LEMMA SignalStep == IInv /\ Signal => IInv'
  BY MaxSignalsAssumption
  DEF Signal, IInv, TypeOK, srvVars, ShuttingMeansStopping, SignalCameFirst,
      AcceptedIsHeld, Drained, ServeNotBegun, Exit0OnlyIfAsked, Exits, Stopping, Alive

\* Every step keeps the inductive invariant.
LEMMA NextIInv == IInv /\ [Next]_vars => IInv'
<1>1. ASSUME IInv, UNCHANGED vars PROVE IInv'
  BY <1>1 DEF vars, IInv, TypeOK, mainVars, sigVars, srvVars, ShuttingMeansStopping,
      SignalCameFirst, AcceptedIsHeld, Drained, ServeNotBegun, Exit0OnlyIfAsked
<1>2. QED
  BY <1>1, MainStep, ServeStep, SignalStep, ConnectionStep DEF Next

-----------------------------------------------------------------------------
\* Type correctness: in particular main waits in its select with the listener
\* open as long as Serve has not returned (main.go:104-111).
THEOREM TypeCorrect == Spec => []TypeOK
<1>1. IInv => TypeOK
  BY DEF IInv
<1>2. QED
  BY <1>1, InitIInv, NextIInv, PTL DEF Spec

\* A server that ends on a signal before the deadline of Shutdown has no request
\* running and no connection it accepted and forgot (main.go:115-126), however
\* many connections there are and whenever the signal comes.
THEOREM GracefulExitHolds == Spec => []GracefulExit
<1>1. IInv => GracefulExit
  BY DEF IInv, Drained, GracefulExit, In
<1>2. QED
  BY <1>1, InitIInv, NextIInv, PTL DEF Spec

\* The server ends with status 0 only when it was asked to end (main.go:110-126).
THEOREM Exit0OnlyIfAskedHolds == Spec => []Exit0OnlyIfAsked
<1>1. IInv => Exit0OnlyIfAsked
  BY DEF IInv
<1>2. QED
  BY <1>1, InitIInv, NextIInv, PTL DEF Spec

=============================================================================
