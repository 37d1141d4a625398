------------------------------- MODULE MCPool -------------------------------
(***************************************************************************)
(* What the client is started with, for model checking Pool.  Each family  *)
(* of inputs varies one part and leaves the rest plain; the families about *)
(* names and arguments end before the pool starts.  No symmetry: the run   *)
(* checks liveness.                                                        *)
(***************************************************************************)
EXTENDS Pool

Texts(symbols, n) == UNION {[1..k -> symbols] : k \in 0..n}

PlainAddress == [form |-> "url", scheme |-> "https", host |-> "name", user |-> FALSE,
                 path |-> <<>>, query |-> "none", fragment |-> "none"]

PlainInput == [argv |-> <<>>, auto |-> TRUE, cnfile |-> None, readable |-> TRUE,
               list |-> <<>>, passout |-> "none", connect |-> PlainAddress,
               certbase |-> "dir", ssl |-> "complete",
               jobs |-> 1, hook |-> FALSE, shared |-> FALSE]

\* Every file of one short line, and a file that cannot be read.
AnyLine == {[PlainInput EXCEPT !.cnfile = <<l>>, !.readable = l # <<"#">>, !.ssl = "nopool"] :
              l \in Texts({"a", "nul", "*", ".", "/", "#", " "}, 4)}

\* Every short command line, with and without another source of domains.
AnyArgs == {[PlainInput EXCEPT !.argv = v, !.auto = Len(v) > 1, !.certbase = "missing"] :
              v \in Texts({<<w>> : w \in {"-help", "-version", "-option", "-bad", "--",
                                         "man", "5", "6", "8", "cert-proxy",
                                         "cert-proxy-server", "a", "/"}} \cup {<<>>}, 3)}

\* Every address: one without "://" has no scheme of its own.
Addresses == [form : {"url"}, scheme : {"https", "http", "other"},
              host : {"none", "port", "name"},
              user : BOOLEAN, path : Texts({"/", "x"}, 2),
              query : {"none", "empty", "some"}, fragment : {"none", "empty", "some"}]
AnyAddress ==
    LET Shortened(a, f) == [a EXCEPT !.form = f, !.scheme = "none"]
        short == {Shortened(a, f) : a \in {x \in Addresses : x.scheme = "https"},
                                    f \in {"slashes", "bare"}}
        broken == {Shortened([PlainAddress EXCEPT !.host = "none"], f) :
                      f \in {"empty", "malformed"}}
    IN  {[PlainInput EXCEPT !.connect = a] : a \in Addresses \cup short \cup broken}

\* Every combination of a secret, a store and credentials.
AnySetup == {[PlainInput EXCEPT !.passout = p, !.certbase = c, !.ssl = s] :
               p \in {"none", "pass", "file", "nofile", "env", "unknown", "nocolon"},
               c \in {"dir", "missing", "dangling", "file", "denied"}, s \in SSLFile}

\* Up to three domains, from the arguments, the file and the server's list.
AnyWork(J) ==
    {[PlainInput EXCEPT !.argv = v, !.auto = a, !.cnfile = f, !.list = l,
                        !.jobs = j, !.hook = h, !.shared = s] :
       v \in {<<>>, << <<"a">> >>}, a \in BOOLEAN,
       f \in {None, <<>>, << <<"b", " ", "#", "a">>, <<"c">> >>},
       l \in {<<>>, << <<"a">>, <<"b">> >>, << <<"a">>, <<" ">>, <<"c", " ", "d">> >>},
       j \in J, h \in BOOLEAN, s \in BOOLEAN}

AllInputs == AnyLine \cup AnyArgs \cup AnyAddress \cup AnySetup \cup AnyWork({1, 2})
NoJobs == AnyWork({0})

=============================================================================
