----------------------------- MODULE ClientStart -----------------------------
(***************************************************************************)
(* The start of cert-proxy-client: parseFlags, and main up to the point    *)
(* where the domains are known.  The command line is the sequence of its   *)
(* words; "-option" is any option that is accepted, "-bad" one that is     *)
(* not.  The values of the options are fields of their own.                *)
(***************************************************************************)
EXTENDS Names, Manual, Shared

CONSTANTS
    Inputs,     \* what the client may be started with
    None        \* no value

VARIABLES
    inp,        \* the command line and what the client finds
    main,       \* where the main goroutine is
    cns,        \* CNs, the domains to fetch
    base,       \* opt.Connect
    shown       \* the manual page that was looked up

startVars == <<inp, main, cns, base, shown>>

\* An address as url.Parse takes it apart.  "slashes" and "bare" are the forms
\* //host and host:port, which have no scheme; the host is a name with or without a
\* port, or a port alone; an empty query or fragment is a lone ? or #.
Address ==
    {a \in [form : {"url", "slashes", "bare", "empty", "malformed"},
            scheme : {"https", "http", "other", "none"},
            host : {"none", "port", "name"}, user : BOOLEAN, path : Seq({"/", "x"}),
            query : {"none", "empty", "some"}, fragment : {"none", "empty", "some"}] :
       a.form # "url" => a.scheme = "none"}

Text == Seq(STRING)

\* cnfile and list are the lines of the file on the client and of the client's
\* authorization file on the server.
Input == [argv : Seq(Text), auto : BOOLEAN,
          cnfile : Seq(Text) \cup {None}, readable : BOOLEAN,
          list : Seq(Text),
          passout : {"none", "pass", "file", "nofile", "env", "unknown", "nocolon"},
          connect : Address,
          certbase : {"dir", "missing", "dangling", "file", "denied"},
          ssl : SSLFile,
          jobs : Nat, hook : BOOLEAN, shared : BOOLEAN]

Exits == {"exit0", "exit1", "exit2"}
StartLocations == {"flags", "secret", "connect", "certbase", "cnfile", "tls", "fetch", "new"}

StartOK ==
    /\ inp \in Input
    /\ cns \subseteq Text
    /\ base \in Address \cup {None}

StartInit ==
    /\ inp \in Inputs
    /\ main = "flags"
    /\ cns = {}
    /\ base = None
    /\ shown = NoPage

-----------------------------------------------------------------------------
\* The command line.

Flags == {<<"-help">>, <<"-version">>, <<"-option">>, <<"-bad">>}

\* The number of words flag.Parse takes for flags: it stops at the first other one.
Parsed(argv) ==
    LET Stops(word) == word \notin Flags
    IN  IF SelectInSeq(argv, Stops) = 0 THEN Len(argv) ELSE SelectInSeq(argv, Stops) - 1

Given(flag) == <<flag>> \in ToSet(SubSeq(inp.argv, 1, Parsed(inp.argv)))

\* flag.Args(): what follows the flags and the terminator.
Args(argv) ==
    LET rest == SubSeq(argv, Parsed(argv) + 1, Len(argv))
    IN  IF rest # <<>> /\ Head(rest) = <<"--">> THEN Tail(rest) ELSE rest

Command == <<"man">>

\* Mutant of IsCommand: any first argument counts, also after a terminator.
IsFirstArg(argv) == Args(argv) # <<>> /\ Args(argv)[1] = Command

IsCommand(argv) == argv # <<>> /\ argv[1] = Command

Exit(code) == main' = code /\ UNCHANGED <<inp, cns, base>>

\* flag.Parse, -help and -version, in this order.
FlagsRejected ==
    /\ main = "flags"
    /\ Given("-bad")
    /\ Exit("exit2")
    /\ UNCHANGED shown

Inform ==
    /\ main = "flags"
    /\ ~Given("-bad")
    /\ Given("-help") \/ Given("-version")
    /\ Exit("exit0")
    /\ UNCHANGED shown

Proceeds == \A f \in {"-bad", "-help", "-version"} : ~Given(f)

ShowManual ==
    /\ main = "flags"
    /\ Proceeds /\ IsCommand(inp.argv)
    /\ shown' = Resolve(ClientRegistry, Tail(Args(inp.argv)))
    /\ \E code \in Display(shown') : Exit(code)

\* Nothing to fetch.
Usage ==
    /\ main = "flags"
    /\ Proceeds /\ ~IsCommand(inp.argv)
    /\ ~inp.auto /\ inp.cnfile = None /\ Args(inp.argv) = <<>>
    /\ Exit("exit1")
    /\ UNCHANGED shown

\* The arguments are domains.
AddArgs ==
    /\ main = "flags"
    /\ Proceeds /\ ~IsCommand(inp.argv)
    /\ inp.auto \/ inp.cnfile # None \/ Args(inp.argv) # <<>>
    /\ LET names == ToSet(Args(inp.argv)) IN
         IF \A n \in names : ValidateDomain(n)
           THEN main' = "secret" /\ cns' = names
           ELSE main' = "exit1" /\ UNCHANGED cns
    /\ UNCHANGED <<inp, base, shown>>

-----------------------------------------------------------------------------
\* The other checks of parseFlags.

\* A check that lets main go on, or ends the client.
Check(at, ok, next) ==
    /\ main = at
    /\ main' = IF ok THEN next ELSE "exit1"
    /\ UNCHANGED <<inp, cns, shown>>

\* secret.Read: the value after the colon, of the file or of the variable.
ReadSecret ==
    /\ Check("secret", inp.passout \notin {"nofile", "unknown", "nocolon"}, "connect")
    /\ UNCHANGED base

withScheme(a) ==
    IF a.form \in {"slashes", "bare"} THEN [a EXCEPT !.form = "url", !.scheme = "https"]
                                      ELSE a

\* Mutant of checkConnectURL: a lone ? is overlooked.
checkNonemptyQuery(u) ==
    u.scheme = "https" /\ u.host # "none" /\ ~u.user /\ u.query # "some" /\ u.fragment # "some"

checkConnectURL(u) ==
    u.scheme = "https" /\ u.host # "none" /\ ~u.user /\ u.query = "none" /\ u.fragment # "some"

\* strings.TrimRight(path, "/"), and String, which drops an empty fragment.
Sanitized(u) ==
    LET Stays(c) == c # "/"
    IN  [u EXCEPT !.path = SubSeq(@, 1, SelectLastInSeq(@, Stays)), !.fragment = "none"]

Connect ==
    LET u == withScheme(inp.connect)
        ok == u.form # "malformed" /\ checkConnectURL(u)
    IN  /\ Check("connect", ok, "certbase")
        /\ base' = IF ok THEN Sanitized(u) ELSE base

CheckCertbase ==
    /\ Check("certbase", inp.certbase = "dir", "cnfile")
    /\ UNCHANGED base

-----------------------------------------------------------------------------
\* main, up to the list of domains.

\* The items of -cnfile; without the option there are none.
AddItemsFromFile == IF inp.cnfile = None THEN {} ELSE Items(inp.cnfile)

\* The file is read, then all names are checked.
ReadCNs ==
    /\ main = "cnfile"
    /\ LET names == cns \cup AddItemsFromFile IN
         IF /\ inp.cnfile # None => inp.readable
            /\ \A n \in names : ValidateDomain(n)
           THEN main' = "tls" /\ cns' = names
           ELSE main' = "exit1" /\ UNCHANGED cns
    /\ UNCHANGED <<inp, base, shown>>

\* TLSClientConfig; an error and a panic both end the client.
SetupTLS ==
    /\ main = "tls"
    /\ main' = IF TLSConfig(inp.ssl) # "ok" THEN TLSFailure(inp.ssl)
               ELSE IF inp.auto THEN "fetch" ELSE "new"
    /\ UNCHANGED <<inp, cns, base, shown>>

\* Mutant of FetchCNs: invalid names are skipped.
FetchValidCNs ==
    /\ main = "fetch"
    /\ main' = "new"
    /\ cns' = cns \cup {n \in Items(inp.list) : ValidateDomain(n)}
    /\ UNCHANGED <<inp, base, shown>>

\* fetchCNs: the server sends the items of its file, one per line.  A single
\* invalid one ends the client.
FetchCNs ==
    /\ main = "fetch"
    /\ LET names == {Trim(n) : n \in Items(inp.list)} IN
         IF \A n \in names : ValidateDomain(n)
           THEN main' = "new" /\ cns' = cns \cup names
           ELSE main' = "exit1" /\ UNCHANGED cns
    /\ UNCHANGED <<inp, base, shown>>

\* The list cannot be fetched, or not to its end.
FetchFails ==
    /\ main = "fetch"
    /\ Exit("exit1")
    /\ UNCHANGED shown

ParseFlags == FlagsRejected \/ Inform \/ ShowManual \/ Usage \/ AddArgs
StartNext == \/ ParseFlags \/ ReadSecret \/ Connect \/ CheckCertbase \/ ReadCNs
             \/ SetupTLS \/ FetchCNs \/ FetchFails

-----------------------------------------------------------------------------
\* Properties.

\* The domains the user asks for: the arguments, the items of the file and, in
\* auto mode, those of the server's list.
Wanted == ToSet(Args(inp.argv))
          \cup AddItemsFromFile
          \cup (IF inp.auto THEN Items(inp.list) ELSE {})

\* Every domain the client works on has a directory of its own, directly below
\* -certbase, wherever its name came from; and any text that is accepted as a
\* client's name is a file directly below -ccd.  About ValidateDomain and
\* ValidateClientName against filepath.Join.
NamesStayBelow ==
    LET root == << <<"base">> >> IN
      /\ main \in {"connect", "tls", "fetch", "new"} =>
            \A n \in cns : Join(root, n) = Append(root, n)
      /\ main = "cnfile" /\ inp.cnfile # None =>
            \A n \in ToSet(inp.cnfile) :
               ValidateClientName(n) => Join(root, n) = Append(root, n)

\* The part of a URL in which something lands that is appended to its text.
LandsIn(u) == IF u.fragment # "none" THEN "fragment"
              ELSE IF u.query # "none" THEN "query" ELSE "path"

\* When the first request can be sent, the store is there and the endpoints, which
\* are appended to the address as text, are https URLs that have a host, or at least
\* a port (Go then connects to the local host), with the endpoint in the path, after
\* exactly one slash.  About withScheme, checkConnectURL and the trimming of the
\* address (init.go:201-205).
RequestsAreSound ==
    main \in {"fetch", "new"} =>
       /\ inp.certbase = "dir"
       /\ base.form = "url" /\ base.scheme = "https" /\ base.host # "none"
       /\ LandsIn(base) = "path"
       /\ base.path # <<>> => Last(base.path) # "/"

\* The pages the arguments of the manual subcommand describe
\* (man/cert-proxy-client.8.md:42): all of a section, of a name, or of both.
Described(args, pages) ==
    IF args = <<>> THEN {p \in pages : p.Name = <<"cert-proxy-client">>}
    ELSE IF Len(args) = 1
      THEN {p \in pages : args[1] \in {p.Name, p.Section}}
    ELSE IF Len(args) = 2
      THEN {p \in pages : p.Section = args[1] /\ args[2] \in {p.Name, <<>>}}
    ELSE {}

\* "man" right after the program's name, and only there, looks up a page; it finds
\* one exactly if some page is described, and then the client's own page if that
\* is among them.  After the terminator "man" is a domain like any other.
ManualAsDescribed ==
    LET pages == {clientPage, serverPage, clientsPage, protocolPage}
        asked == inp.argv # <<>> /\ inp.argv[1] = <<"man">>
        wanted == IF asked THEN Described(Tail(inp.argv), pages) ELSE {}
    IN  IF main = "flags" THEN shown = NoPage
        ELSE /\ wanted = {} <=> shown = NoPage
             /\ shown # NoPage => shown \in wanted
             /\ clientPage \in wanted => shown = clientPage

=============================================================================
