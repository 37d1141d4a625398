------------------------------- MODULE Server -------------------------------
(***************************************************************************)
(* cert-proxy-server: the handlers of the v1 API at work while an          *)
(* administrator edits the authorization files and the ACME client         *)
(* replaces certificate files.  A handler goroutine takes one step per     *)
(* access to the file system; the goroutines share nothing else.           *)
(*                                                                         *)
(* A URL path is the sequence of its segments after /v1/.  A file is the   *)
(* generation it belongs to and its modification time.                     *)
(***************************************************************************)
EXTENDS Naturals, Sequences

CONSTANTS
    Handler,        \* the handler goroutines
    Client,         \* common names that can name an authorization file
    BadName,        \* common names that ValidateClientName rejects
    Domain,         \* the domains of the certificate store
    Unknown,        \* path segments that are no domain of the store
    Queries,        \* the kinds of query parameters the requests have
    Optional,       \* the files that may come to a domain and go again
    MaxVer,         \* bound on the renewals of a file
    MaxTime,        \* bound on the clock
    None            \* no value

ASSUME NamesAssumption == Client \cap BadName = {} /\ Domain \cap Unknown = {}
ASSUME QueriesAssumption ==
    Queries \subseteq {"PEM", "PKCS12", "badformat", "badcompat"}
ASSUME BoundsAssumption == MaxVer \in Nat \ {0} /\ MaxTime \in Nat
ASSUME NoneAssumption ==
    None \notin Nat /\ None \notin Client \cup BadName \cup Domain \cup Unknown

VARIABLES
    now,        \* the clock, in seconds
    store,      \* store[d][f]: file f of domain d below -certbase
    ccd,        \* ccd[c]: the authorization file of client c below -ccd
    pc,         \* pc[h]: where handler h is
    rq,         \* rq[h]: the request it works on
    mtime,      \* mtime[h]: modification time of the content to be served
    content,    \* content[h]: the files the content was made of
    status,     \* status[h]: the status of the response
    granted,    \* granted[h]: was the client listed at an instant of the request?
    calm        \* calm[h]: has no file been replaced since the request arrived?

ghosts == <<granted, calm>>
vars == <<now, store, ccd, pc, rq, mtime, content, status, ghosts>>

PublicRoles == {"cert", "chain", "fullchain"}
FileRoles == PublicRoles \cup {"privkey"}
Files == FileRoles \cup {"bundle"}
Parts == {"cert", "privkey", "chain"}   \* what a generated bundle is made of

ASSUME OptionalAssumption == Optional \subseteq Files

Time == 0..MaxTime
File == [ver : 1..MaxVer, mtime : Time]

\* Every path the router can be given, up to one segment too many.
Path == {<<r>> : r \in Files \cup {"list", "other"}}
        \cup {<<r, d>> : r \in Files \cup {"list", "other"}, d \in Domain \cup Unknown}
        \cup {<<r, d, "more">> : r \in Files, d \in Domain}

\* "badcompat" is a PKCS12 request with an invalid pkcs12-compat.
Request == [path : Path, query : Queries,
            cn : Client \cup BadName \cup {None}, ims : Time \cup {None}]

ASSUME NoRequestAssumption == None \notin Request

\* The contents of an authorization file: the listed names, or it is missing,
\* or it cannot be read.
Missing == [kind |-> "missing", names |-> {}]
Unreadable == [kind |-> "unreadable", names |-> {}]
Lists == {[kind |-> "list", names |-> s] : s \in SUBSET Domain}
AuthFile == Lists \cup {Missing, Unreadable}

Statuses == {200, 301, 304, 400, 401, 404, 500}

TypeOK ==
    /\ now \in Time
    /\ store \in [Domain -> [Files -> File \cup {None}]]
    /\ ccd \in [Client -> AuthFile]
    /\ pc \in [Handler -> {"idle", "authn", "authz", "serve", "list", "open", "p12stat",
                           "p12key", "p12cert", "p12chain", "p12encode",
                           "send", "sent"}]
    /\ rq \in [Handler -> Request \cup {None}]
    /\ mtime \in [Handler -> Time \cup {None}]
    /\ content \in [Handler -> [Files -> File \cup {None}]]
    /\ status \in [Handler -> Statuses \cup {None}]
    /\ granted \in [Handler -> BOOLEAN]
    /\ calm \in [Handler -> BOOLEAN]

Nothing == [f \in Files |-> None]

\* A domain is absent, or has its files with or without an operator's bundle.
Init ==
    /\ now = 0
    /\ store \in [Domain -> {Nothing,
          [f \in Files |-> IF f = "bundle" THEN None ELSE [ver |-> 1, mtime |-> 0]],
          [f \in Files |-> [ver |-> 1, mtime |-> 0]]}]
    /\ ccd \in [Client -> AuthFile]
    /\ pc = [h \in Handler |-> "idle"]
    /\ rq = [h \in Handler |-> None]
    /\ mtime = [h \in Handler |-> None]
    /\ content = [h \in Handler |-> Nothing]
    /\ status = [h \in Handler |-> None]
    /\ granted = [h \in Handler |-> FALSE]
    /\ calm = [h \in Handler |-> FALSE]

-----------------------------------------------------------------------------
\* Names, files and answers.

Role(h) == rq[h].path[1]
PathDomain(h) == rq[h].path[2]

\* Does the authorization file of common name c list d?
Listed(c, d) == c \in Client /\ d \in ccd[c].names

\* ROLE.pem or ROLE.p12 in the directory of d: there are only the PEM files of
\* the roles and bundle.p12.
Lookup(d, role, query) ==
    IF d \in Domain /\ (role = "bundle") = (query # "PEM")
      THEN store[d][role] ELSE None

Goto(h, label) == pc' = [pc EXCEPT ![h] = label]

\* A handler answers and the chain of handlers ends.
Answer(h, code) ==
    /\ Goto(h, "sent")
    /\ status' = [status EXCEPT ![h] = code]
    /\ UNCHANGED <<now, store, ccd, rq, mtime, content, ghosts>>

\* The next step of h, which changed nothing.
Continue(h, label) ==
    /\ Goto(h, label)
    /\ UNCHANGED <<now, store, ccd, rq, mtime, content, status, ghosts>>

-----------------------------------------------------------------------------
\* Routing: newMux and use.

\* Mutant of Route: bundles are served without authorization.
RouteBundlePublic(path) ==
    IF path = <<"list">> THEN "authn"
    ELSE IF Len(path) < 2 THEN None
    ELSE IF path[1] \in PublicRoles \cup {"bundle"} THEN "serve"
    ELSE IF path[1] = "privkey" THEN "authz"
    ELSE None

\* The first handler of the chain the router picks for a path.  The router
\* knows /v1/list itself and everything below /v1/ROLE/.
Route(path) ==
    IF path = <<"list">> THEN "authn"
    ELSE IF Len(path) < 2 THEN None
    ELSE IF path[1] \in PublicRoles THEN "serve"
    ELSE IF path[1] \in {"privkey", "bundle"} THEN "authz"
    ELSE None

\* Without a handler the router redirects /v1/ROLE to /v1/ROLE/, or there is
\* no such page.
Arrive(h) ==
    /\ pc[h] = "idle"
    /\ \E r \in Request :
          /\ r.ims # None => r.ims <= now
          /\ rq' = [rq EXCEPT ![h] = r]
          /\ granted' = [granted EXCEPT ![h] =
                Len(r.path) >= 2 /\ Listed(r.cn, r.path[2])]
          /\ calm' = [calm EXCEPT ![h] = TRUE]
          /\ IF Route(r.path) # None
               THEN Goto(h, Route(r.path)) /\ UNCHANGED status
               ELSE /\ Goto(h, "sent")
                    /\ status' = [status EXCEPT ![h] =
                          IF Len(r.path) = 1 /\ r.path[1] \in Files THEN 301 ELSE 404]
    /\ UNCHANGED <<now, store, ccd, mtime, content>>

-----------------------------------------------------------------------------
\* Authentication and authorization.

Authn(h) ==
    /\ pc[h] = "authn"
    /\ IF rq[h].cn = None THEN Answer(h, 401) ELSE Continue(h, "serve")

\* ValidateClientName: may the common name be used as a file name?
ValidClientName(c) == c \notin BadName

\* Mutant of CnListError: an undocumented status.
CnListForbidden(h) ==
    IF rq[h].cn \in BadName \/ ccd[rq[h].cn].kind # "list" THEN 403 ELSE None

\* cnList for the client of h: the error answer, or None if it was read.
CnListError(h) ==
    IF ~ValidClientName(rq[h].cn) THEN 401
    ELSE IF ccd[rq[h].cn].kind = "missing" THEN 401
    ELSE IF ccd[rq[h].cn].kind = "unreadable" THEN 500
    ELSE None

Authz(h) ==
    /\ pc[h] = "authz"
    /\ IF rq[h].cn = None THEN Answer(h, 401)
       ELSE IF CnListError(h) # None THEN Answer(h, CnListError(h))
       ELSE IF PathDomain(h) \notin ccd[rq[h].cn].names THEN Answer(h, 401)
       ELSE Continue(h, "serve")

-----------------------------------------------------------------------------
\* serve.

\* The format and the number of segments are checked, the role is told apart.
Serve(h) ==
    /\ pc[h] = "serve"
    /\ IF rq[h].query = "badformat" \/ Len(rq[h].path) > 2 THEN Answer(h, 400)
       ELSE IF Role(h) = "list" THEN Continue(h, "list")
       ELSE Continue(h, "open")

ServeList(h) ==
    /\ pc[h] = "list"
    /\ Answer(h, IF CnListError(h) # None THEN CnListError(h) ELSE 200)

\* Open the file and stat the open file: later replacements do not matter.
OpenFile(h) ==
    /\ pc[h] = "open"
    /\ LET f == Lookup(PathDomain(h), Role(h), rq[h].query) IN
         /\ f # None
         /\ mtime' = [mtime EXCEPT ![h] = f.mtime]
         /\ content' = [content EXCEPT ![h][Role(h)] = f]
    /\ Goto(h, "send")
    /\ UNCHANGED <<now, store, ccd, rq, status, ghosts>>

\* There is no such file: a bundle is made, anything else is not found.
NoFile(h) ==
    /\ pc[h] = "open"
    /\ Lookup(PathDomain(h), Role(h), rq[h].query) = None
    /\ IF Role(h) = "bundle"
         THEN IF rq[h].query = "badcompat" THEN Answer(h, 400) ELSE Continue(h, "p12stat")
         ELSE Answer(h, 404)

\* A file cannot be read, for another reason than its absence; or the parsing or
\* encoding of createPKCS12 fails.
ReadFails(h) ==
    /\ pc[h] \in {"open", "p12stat", "p12key", "p12cert", "p12chain", "p12encode"}
    /\ Answer(h, 500)

\* http.ServeContent.
ServeContent(h) ==
    /\ pc[h] = "send"
    /\ Answer(h, IF rq[h].ims # None /\ mtime[h] <= rq[h].ims THEN 304 ELSE 200)

-----------------------------------------------------------------------------
\* createPKCS12: one step per file.

\* Read part f of the bundle and go on.
ReadPart(h, at, f, label) ==
    /\ pc[h] = at
    /\ LET part == Lookup(PathDomain(h), f, "PEM") IN
         IF part = None THEN Answer(h, 404)
         ELSE /\ content' = [content EXCEPT ![h][f] = part]
              /\ Goto(h, label)
              /\ UNCHANGED <<now, store, ccd, rq, mtime, status, ghosts>>

P12Stat(h) ==
    /\ pc[h] = "p12stat"
    /\ LET f == Lookup(PathDomain(h), "cert", "PEM") IN
         IF f = None THEN Answer(h, 404)
         ELSE /\ mtime' = [mtime EXCEPT ![h] = f.mtime]
              /\ Goto(h, "p12key")
              /\ UNCHANGED <<now, store, ccd, rq, content, status, ghosts>>

\* Mutant of P12Chain: the certificate's time is taken after the files are read.
P12ChainStatLate(h) ==
    /\ pc[h] = "p12chain"
    /\ LET d == PathDomain(h) IN
         /\ content' = [content EXCEPT ![h]["chain"] = Lookup(d, "chain", "PEM")]
         /\ mtime' = [mtime EXCEPT ![h] = Lookup(d, "cert", "PEM").mtime]
    /\ Goto(h, "p12encode")
    /\ UNCHANGED <<now, store, ccd, rq, status, ghosts>>

\* Mutant of P12Chain: the chain is read together with the certificate.
P12ChainFull(h) == ReadPart(h, "p12chain", "fullchain", "p12encode")

P12Key(h) == ReadPart(h, "p12key", "privkey", "p12cert")
P12Cert(h) == ReadPart(h, "p12cert", "cert", "p12chain")
P12Chain(h) == ReadPart(h, "p12chain", "chain", "p12encode")
P12Encode(h) == pc[h] = "p12encode" /\ Continue(h, "send")

-----------------------------------------------------------------------------
\* The environment.

\* The response is out, the goroutine is free for the next request.
Finish(h) ==
    /\ pc[h] = "sent"
    /\ Goto(h, "idle")
    /\ rq' = [rq EXCEPT ![h] = None]
    /\ mtime' = [mtime EXCEPT ![h] = None]
    /\ content' = [content EXCEPT ![h] = Nothing]
    /\ status' = [status EXCEPT ![h] = None]
    /\ granted' = [granted EXCEPT ![h] = FALSE]
    /\ calm' = [calm EXCEPT ![h] = FALSE]
    /\ UNCHANGED <<now, store, ccd>>

\* The administrator replaces an authorization file.
EditList(c) ==
    /\ \E a \in AuthFile :
          /\ a # ccd[c]
          /\ ccd' = [ccd EXCEPT ![c] = a]
          /\ granted' = [h \in Handler |->
                \/ granted[h]
                \/ /\ rq[h] # None
                   /\ rq[h].cn = c
                   /\ Len(rq[h].path) >= 2
                   /\ rq[h].path[2] \in a.names]
    /\ UNCHANGED <<now, store, pc, rq, mtime, content, status, calm>>

\* The dates of a new file: that of its writing, or an older one that was kept when
\* it was copied.  The certificate, whose date stands for a bundle, is written anew.
NewDates(f) == IF f = "cert" THEN {now} ELSE 0..now

\* File f of domain d becomes x.
Put(d, f, x) ==
    /\ store' = [store EXCEPT ![d][f] = x]
    /\ calm' = [h \in Handler |-> FALSE]
    /\ UNCHANGED <<now, ccd, pc, rq, mtime, content, status, granted>>

\* The ACME client replaces the files of a domain one by one, in any order.
Renew(d, f) ==
    /\ store[d][f] # None
    /\ store[d][f].ver < MaxVer
    /\ \A g \in Files : store[d][g] # None => store[d][g].ver >= store[d][f].ver
    /\ \E m \in NewDates(f) : Put(d, f, [ver |-> store[d][f].ver + 1, mtime |-> m])

\* The operator adds a file of any generation, bundle.p12 above all, or removes it.
AddFile(d, f) ==
    /\ f \in Optional
    /\ store[d][f] = None
    /\ \E v \in 1..MaxVer, m \in NewDates(f) : Put(d, f, [ver |-> v, mtime |-> m])

RemoveFile(d, f) ==
    /\ f \in Optional
    /\ store[d][f] # None
    /\ Put(d, f, None)

Tick ==
    /\ now < MaxTime
    /\ now' = now + 1
    /\ UNCHANGED <<store, ccd, pc, rq, mtime, content, status, ghosts>>

Handle(h) == \/ Arrive(h) \/ Authn(h) \/ Authz(h) \/ Serve(h) \/ ServeList(h)
             \/ OpenFile(h) \/ NoFile(h) \/ ReadFails(h) \/ ServeContent(h)
             \/ P12Stat(h) \/ P12Key(h) \/ P12Cert(h) \/ P12Chain(h)
             \/ P12Encode(h) \/ Finish(h)

Next ==
    \/ \E h \in Handler : Handle(h)
    \/ \E c \in Client : EditList(c)
    \/ \E d \in Domain, f \in Files : Renew(d, f) \/ AddFile(d, f) \/ RemoveFile(d, f)
    \/ Tick

Spec == Init /\ [][Next]_vars

-----------------------------------------------------------------------------
\* Properties.

Sent(h, codes) == pc[h] = "sent" /\ status[h] \in codes
Private(h) == Role(h) \in {"privkey", "bundle"}
Made(h) == Role(h) = "bundle" /\ content[h]["bundle"] = None

\* A private key or a bundle leaves the server (or is confirmed with a 304) only
\* for a client whose file listed the domain at some instant of the request:
\* a client that was struck off before it asked gets nothing.  About the route
\* table, authz and the use both handlers make of the path.
PrivateOnlyIfListed ==
    \A h \in Handler :
       Sent(h, {200, 304}) /\ Private(h) => rq[h].cn # None /\ granted[h]

\* The Last-Modified of a response is never later than the certificate it carries
\* (or, without one, than the file), though the certificate may be replaced between
\* the stat and the read.  So no response makes a client believe that it has a
\* certificate it does not have.  For the key and the chain of a bundle that is not
\* so: see BundleNotModified.  About the order of createPKCS12 (pkcs12.go:49-69).
StampNotAheadOfContent ==
    \A h \in Handler : Sent(h, {200}) /\ Role(h) # "list" =>
       LET c == content[h][IF Made(h) THEN "cert" ELSE Role(h)]
       IN  c # None /\ mtime[h] <= c.mtime

\* The files an answer of h is made of, and the one it takes its time from.
Sources(h) == IF Made(h) THEN Parts ELSE {Role(h)}
Dated(h) == IF Made(h) THEN "cert" ELSE Role(h)

\* If no file was replaced, added or removed while a request was handled, the answer
\* (or what a 304 confirms) is the store's: the file of the domain and role that was
\* asked for, or a bundle of that domain's key, certificate and chain as they are
\* now, which never takes the place of an operator's bundle.p12.  The store itself
\* need not be of one generation: a bundle that is made after the certificate was
\* replaced and before the key was is a mixed one, however calm the request.  About
\* serve and the stat and the three reads of createPKCS12.
CalmMeansCurrent ==
    \A h \in Handler :
       Sent(h, {200, 304}) /\ Role(h) # "list" /\ calm[h] =>
          /\ PathDomain(h) \in Domain
          /\ \A f \in Sources(h) :
                content[h][f] # None /\ content[h][f] = store[PathDomain(h)][f]
          /\ mtime[h] = store[PathDomain(h)][Dated(h)].mtime
          /\ Made(h) /\ rq[h].query # "PEM" => store[PathDomain(h)]["bundle"] = None

\* "a client that already holds a current copy receives 304 Not Modified"
\* (man/cert-proxy.7.md:89), and so only such a client: when a bundle that is
\* made of files of one generation, none replaced during the request, is
\* confirmed with a 304, then none of them is newer than the client's copy.
BundleNotModified ==
    \A h \in Handler :
       /\ Sent(h, {304}) /\ Made(h) /\ calm[h]
       /\ \A f, g \in Parts : content[h][f].ver = content[h][g].ver
       => \A f \in Parts : content[h][f].mtime <= rq[h].ims

=============================================================================
