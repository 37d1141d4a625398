---------------------------- MODULE Server_proofs ----------------------------
(***************************************************************************)
(* Proofs about cert-proxy-server, for any number of handler goroutines,   *)
(* clients and domains and any history of edited lists and renewed files.  *)
(***************************************************************************)
EXTENDS Server, TLAPS

\* Where a handler is while it makes a bundle, and from serve to the answer.
Making == {"p12stat", "p12key", "p12cert", "p12chain", "p12encode"}
Delivering == {"open", "send"} \cup Making

\* No file of the store has a modification time in the future.
StoreInPast ==
    \A d \in Domain, f \in Files : store[d][f] # None => store[d][f].mtime <= now

\* The chain of handlers the router picked for the path is the one that runs.
Routed(h) ==
    /\ pc[h] # "idle" => rq[h] \in Request
    /\ pc[h] \in {"authn", "list"} => Role(h) = "list"
    /\ pc[h] = "authz" => Private(h) /\ Len(rq[h].path) >= 2
    /\ pc[h] = "serve" => Role(h) \in Files \cup {"list"}
    /\ pc[h] \in Delivering => Role(h) \in Files
    /\ pc[h] \in Making => Role(h) = "bundle"

\* A client that is listed now, while its request is handled, counts as listed
\* at an instant of the request.
ListedIsGranted(h) ==
    pc[h] # "idle" /\ Len(rq[h].path) >= 2 /\ Listed(rq[h].cn, rq[h].path[2])
       => granted[h]

\* Past authz with a private role, also when the answer is out.
Authorized(h) ==
    /\ pc[h] \in {"serve"} \cup Delivering \/ Sent(h, {200, 304})
    /\ Private(h)
    => rq[h].cn # None /\ granted[h]

\* The content that was read carries the time that was taken.
Stamped(h) ==
    LET c == content[h][IF Made(h) THEN "cert" ELSE Role(h)]
    IN  /\ c # None
        /\ mtime[h] # None
        /\ mtime[h] <= c.mtime

\* A time that was taken is past; while a bundle is made it is not ahead of the
\* certificate, be it still in the store or already read.
StampBehind(h) ==
    /\ mtime[h] # None => mtime[h] <= now
    /\ pc[h] \notin {"send", "sent"} => content[h]["bundle"] = None
    /\ pc[h] \in {"p12key", "p12cert"} =>
          LET c == Lookup(PathDomain(h), "cert", "PEM")
          IN  mtime[h] # None /\ (c # None => mtime[h] <= c.mtime)
    /\ pc[h] \in {"p12chain", "p12encode"} =>
          /\ content[h]["cert"] # None
          /\ mtime[h] # None
          /\ mtime[h] <= content[h]["cert"].mtime
    /\ pc[h] = "send" \/ (Sent(h, {200}) /\ Role(h) # "list") => Stamped(h)

\* What holds for one handler.
HandlerInv(h) ==
    /\ Routed(h)
    /\ ListedIsGranted(h)
    /\ Authorized(h)
    /\ StampBehind(h)

\* The inductive invariant.
IInv ==
    /\ TypeOK
    /\ StoreInPast
    /\ \A h \in Handler : HandlerInv(h)

-----------------------------------------------------------------------------
\* Facts about the operators.

\* A file looked up is a file of the store, with a time in the past, or nothing.
LEMMA LookupFile ==
    ASSUME TypeOK, StoreInPast, NEW d, NEW role \in Files, NEW query
    PROVE  /\ Lookup(d, role, query) \in File \cup {None}
           /\ Lookup(d, role, query) # None => Lookup(d, role, query).mtime <= now
  BY DEF Lookup, TypeOK, StoreInPast

\* cnList fails with one of two answers.
LEMMA CnListStatus == \A h : CnListError(h) \in {401, 500, None}
  BY DEF CnListError

\* What the router does with a path that has a handler.
LEMMA RouteOutcome ==
    ASSUME NEW path, Route(path) # None
    PROVE  \/ Route(path) = "authn" /\ path = <<"list">>
           \/ Route(path) = "serve" /\ path[1] \in PublicRoles
           \/ /\ Route(path) = "authz"
              /\ path[1] \in {"privkey", "bundle"}
              /\ Len(path) >= 2
  BY DEF Route

-----------------------------------------------------------------------------
\* A handler's step leaves the other handlers' part of the invariant alone.

Same(k) ==
    /\ pc'[k] = pc[k]
    /\ rq'[k] = rq[k]
    /\ mtime'[k] = mtime[k]
    /\ content'[k] = content[k]
    /\ status'[k] = status[k]
    /\ granted'[k] = granted[k]

\* The part of a handler that does not move holds on.
LEMMA Frame ==
    ASSUME NEW k \in Handler, Same(k), UNCHANGED <<now, store, ccd>>, HandlerInv(k)
    PROVE  HandlerInv(k)'
<1> USE DEF Same, HandlerInv
<1>1. Routed(k)'
  BY DEF Routed, Role, Private
<1>2. ListedIsGranted(k)'
  BY DEF ListedIsGranted, Listed
<1>3. Authorized(k)'
  BY DEF Authorized, Sent, Private, Role
<1>4. StampBehind(k)'
  BY DEF StampBehind, Stamped, Made, Sent, Role, Lookup, PathDomain
<1>5. QED
  BY <1>1, <1>2, <1>3, <1>4

\* A step of h alone keeps the invariant if it keeps h's part and the types.
LEMMA OwnStep ==
    ASSUME IInv, NEW h \in Handler, UNCHANGED <<now, store, ccd>>,
           \A k \in Handler \ {h} : Same(k), TypeOK', HandlerInv(h)'
    PROVE  IInv'
<1>1. StoreInPast'
  BY DEF IInv, StoreInPast
<1>2. ASSUME NEW k \in Handler PROVE HandlerInv(k)'
  <2>1. CASE k = h
    BY <2>1
  <2>2. CASE k # h
    BY <2>2, Frame DEF IInv
  <2>3. QED
    BY <2>1, <2>2
<1>3. QED
  BY <1>1, <1>2 DEF IInv

\* An answer: of the statuses, 200 and 304 have to be earned.
LEMMA AnswerStep ==
    ASSUME IInv, NEW h \in Handler, NEW code \in Statuses, Answer(h, code),
           pc[h] # "idle",
           code \in {200, 304} /\ Private(h) => rq[h].cn # None /\ granted[h],
           code = 200 /\ Role(h) # "list" => Stamped(h)
    PROVE  IInv'
<1>1. TypeOK'
  BY DEF IInv, Answer, Goto, TypeOK, ghosts
<1>2. \A k \in Handler \ {h} : Same(k)
  BY DEF IInv, Answer, Goto, TypeOK, ghosts, Same
<1>3. /\ pc'[h] = "sent" /\ status'[h] = code
      /\ UNCHANGED <<now, store, ccd, rq, mtime, content, granted, calm>>
  BY DEF IInv, Answer, Goto, TypeOK, ghosts
<1>4. HandlerInv(h)
  BY DEF IInv
<1>5. Routed(h)'
  BY <1>3, <1>4 DEF HandlerInv, Routed, Delivering, Making
<1>6. ListedIsGranted(h)'
  BY <1>3, <1>4 DEF HandlerInv, ListedIsGranted, Listed
<1>7. Authorized(h)'
  BY <1>3 DEF Authorized, Sent, Private, Role, Delivering, Making
<1>8. StampBehind(h)'
  BY <1>3, <1>4 DEF HandlerInv, StampBehind, Stamped, Made, Sent, Role
<1>9. QED
  BY <1>1, <1>2, <1>3, <1>5, <1>6, <1>7, <1>8, OwnStep DEF HandlerInv

\* A handler that goes on without reading or answering.
LEMMA ContinueStep ==
    ASSUME IInv, NEW h \in Handler,
           NEW label \in {"serve", "list", "open", "p12stat", "send"},
           Continue(h, label), pc[h] \notin {"idle", "send", "sent"},
           label = "list" => Role(h) = "list",
           label = "serve" => Role(h) \in Files \cup {"list"},
           label \in {"open", "send"} => Role(h) \in Files,
           label = "p12stat" => Role(h) = "bundle",
           label # "list" /\ Private(h) => rq[h].cn # None /\ granted[h],
           label = "send" => Stamped(h)
    PROVE  IInv'
<1>1. TypeOK'
  BY DEF IInv, Continue, Goto, TypeOK, ghosts
<1>2. \A k \in Handler \ {h} : Same(k)
  BY DEF IInv, Continue, Goto, TypeOK, ghosts, Same
<1>3. /\ pc'[h] = label
      /\ UNCHANGED <<now, store, ccd, rq, mtime, content, status, granted, calm>>
  BY DEF IInv, Continue, Goto, TypeOK, ghosts
<1>4. HandlerInv(h)
  BY DEF IInv
<1>5. Routed(h)'
  BY <1>3, <1>4 DEF HandlerInv, Routed, Delivering, Making, Role, Files
<1>6. ListedIsGranted(h)'
  BY <1>3, <1>4 DEF HandlerInv, ListedIsGranted, Listed
<1>7. Authorized(h)'
  BY <1>3 DEF Authorized, Sent, Private, Role, Delivering, Making
<1>8. StampBehind(h)'
  BY <1>3, <1>4 DEF HandlerInv, StampBehind, Stamped, Made, Sent, Role
<1>9. QED
  BY <1>1, <1>2, <1>3, <1>5, <1>6, <1>7, <1>8, OwnStep DEF HandlerInv

-----------------------------------------------------------------------------
\* The handlers, one action at a time.

\* The router: only public roles and the list get past it without authz.
LEMMA ArriveStep == ASSUME IInv, NEW h \in Handler, Arrive(h) PROVE IInv'
<1>1. PICK r \in Request :
        /\ r.ims # None => r.ims <= now
        /\ rq' = [rq EXCEPT ![h] = r]
        /\ granted' = [granted EXCEPT ![h] =
              Len(r.path) >= 2 /\ Listed(r.cn, r.path[2])]
        /\ calm' = [calm EXCEPT ![h] = TRUE]
        /\ IF Route(r.path) # None
             THEN Goto(h, Route(r.path)) /\ UNCHANGED status
             ELSE /\ Goto(h, "sent")
                  /\ status' = [status EXCEPT ![h] =
                        IF Len(r.path) = 1 /\ r.path[1] \in Files THEN 301 ELSE 404]
  BY DEF Arrive
<1>2. UNCHANGED <<now, store, ccd, mtime, content>> /\ pc[h] = "idle"
  BY DEF Arrive
<1>3. rq'[h] = r /\ granted'[h] = (Len(r.path) >= 2 /\ Listed(r.cn, r.path[2]))
  BY <1>1 DEF IInv, TypeOK
<1>4. \/ Route(r.path) # None /\ pc'[h] = Route(r.path) /\ UNCHANGED status
      \/ pc'[h] = "sent" /\ status'[h] \in {301, 404}
  BY <1>1 DEF IInv, TypeOK, Goto
<1>5. TypeOK'
  <2>1. pc' \in [Handler -> {"idle", "authn", "authz", "serve", "list", "open", "p12stat",
                             "p12key", "p12cert", "p12chain", "p12encode", "send", "sent"}]
    BY <1>1, RouteOutcome DEF IInv, TypeOK, Goto
  <2>2. status' \in [Handler -> Statuses \cup {None}]
    <3>1. UNCHANGED status \/ \E code \in {301, 404} : status' = [status EXCEPT ![h] = code]
      BY <1>1
    <3>2. status \in [Handler -> Statuses \cup {None}] /\ {301, 404} \subseteq Statuses
      BY DEF IInv, TypeOK, Statuses
    <3>3. QED
      BY <3>1, <3>2
  <2>3. granted' \in [Handler -> BOOLEAN] /\ calm' \in [Handler -> BOOLEAN]
    BY <1>1 DEF IInv, TypeOK, Listed
  <2>4. rq' \in [Handler -> Request \cup {None}]
    BY <1>1 DEF IInv, TypeOK
  <2>5. QED
    BY <1>2, <2>1, <2>2, <2>3, <2>4 DEF IInv, TypeOK
<1>6. \A k \in Handler \ {h} : Same(k)
  BY <1>1, <1>2 DEF IInv, TypeOK, Same, Goto
<1>7. \/ pc'[h] = "authn" /\ Role(h)' = "list"
      \/ pc'[h] = "serve" /\ Role(h)' \in PublicRoles
      \/ pc'[h] = "authz" /\ Private(h)' /\ Len(r.path) >= 2
      \/ pc'[h] = "sent" /\ status'[h] \in {301, 404}
  BY <1>3, <1>4, RouteOutcome DEF Role, Private
<1>8. Routed(h)'
  BY <1>3, <1>7 DEF Routed, Delivering, Making, Files, FileRoles
<1>9. ListedIsGranted(h)'
  BY <1>2, <1>3 DEF ListedIsGranted, Listed
<1>10. Authorized(h)'
  BY <1>7 DEF Authorized, Sent, Private, Delivering, Making, PublicRoles
<1>11. StampBehind(h)'
  <2>1. content[h]["bundle"] = None /\ (mtime[h] # None => mtime[h] <= now)
    BY <1>2 DEF IInv, HandlerInv, StampBehind
  <2>2. QED
    BY <1>2, <1>7, <2>1 DEF StampBehind, Sent
<1>12. QED
  BY <1>2, <1>5, <1>6, <1>8, <1>9, <1>10, <1>11, OwnStep DEF HandlerInv

\* Authentication: only the list is behind it.
LEMMA AuthnStep == ASSUME IInv, NEW h \in Handler, Authn(h) PROVE IInv'
<1>1. pc[h] = "authn" /\ Role(h) = "list"
  BY DEF Authn, IInv, HandlerInv, Routed
<1>2. CASE Answer(h, 401)
  BY <1>1, <1>2, AnswerStep DEF Statuses
<1>3. CASE Continue(h, "serve")
  BY <1>1, <1>3, ContinueStep DEF Private
<1>4. QED
  BY <1>2, <1>3 DEF Authn

\* Authorization: whoever gets past it is listed at this instant.
LEMMA AuthzStep == ASSUME IInv, NEW h \in Handler, Authz(h) PROVE IInv'
<1>1. /\ pc[h] = "authz"
      /\ rq[h] \in Request
      /\ Role(h) \in {"privkey", "bundle"}
      /\ Len(rq[h].path) >= 2
      /\ ListedIsGranted(h)
  BY DEF Authz, IInv, HandlerInv, Routed, Private
<1>2. CASE Answer(h, 401)
  BY <1>1, <1>2, AnswerStep DEF Statuses
<1>3. CASE CnListError(h) # None /\ Answer(h, CnListError(h))
  <2>1. CnListError(h) \in {401, 500}
    BY <1>3, CnListStatus
  <2>2. QED
    BY <1>1, <1>3, <2>1, AnswerStep DEF Statuses
<1>4. CASE /\ rq[h].cn # None /\ CnListError(h) = None
           /\ PathDomain(h) \in ccd[rq[h].cn].names
           /\ Continue(h, "serve")
  <2>1. None \notin {401, 500}
    BY NoneAssumption
  <2>2. rq[h].cn \in Client
    BY <1>1, <1>4, <2>1 DEF CnListError, ValidClientName, Request
  <2>3. granted[h]
    BY <1>1, <1>4, <2>2 DEF ListedIsGranted, Listed, PathDomain
  <2>4. QED
    BY <1>1, <1>4, <2>3, ContinueStep DEF Files, FileRoles
<1>5. QED
  BY <1>2, <1>3, <1>4 DEF Authz

\* serve, up to the access to the file system.
LEMMA ServeStep == ASSUME IInv, NEW h \in Handler, Serve(h) PROVE IInv'
<1>1. /\ pc[h] = "serve"
      /\ Role(h) \in Files \cup {"list"}
      /\ Private(h) => rq[h].cn # None /\ granted[h]
  BY DEF Serve, IInv, HandlerInv, Routed, Authorized
<1>2. CASE Answer(h, 400)
  BY <1>1, <1>2, AnswerStep DEF Statuses
<1>3. CASE Role(h) = "list" /\ Continue(h, "list")
  BY <1>1, <1>3, ContinueStep
<1>4. CASE Role(h) # "list" /\ Continue(h, "open")
  BY <1>1, <1>4, ContinueStep
<1>5. QED
  BY <1>2, <1>3, <1>4 DEF Serve

\* The answers that are no files.
LEMMA ServeListStep == ASSUME IInv, NEW h \in Handler, ServeList(h) PROVE IInv'
<1>1. pc[h] = "list" /\ Role(h) = "list"
  BY DEF ServeList, IInv, HandlerInv, Routed
<1>2. PICK code \in {200, 401, 500} : Answer(h, code)
  BY CnListStatus DEF ServeList
<1>3. QED
  BY <1>1, <1>2, AnswerStep DEF Statuses, Private

\* An error while files are read.
LEMMA ReadFailsStep == ASSUME IInv, NEW h \in Handler, ReadFails(h) PROVE IInv'
<1>1. pc[h] # "idle" /\ Answer(h, 500)
  BY DEF ReadFails
<1>2. QED
  BY <1>1, AnswerStep DEF Statuses

\* http.ServeContent: the checks behind it are done.
LEMMA ServeContentStep == ASSUME IInv, NEW h \in Handler, ServeContent(h) PROVE IInv'
<1>1. /\ pc[h] = "send"
      /\ Private(h) => rq[h].cn # None /\ granted[h]
      /\ Stamped(h)
  BY DEF ServeContent, IInv, HandlerInv, Authorized, Delivering, StampBehind
<1>2. PICK code \in {200, 304} : Answer(h, code)
  BY DEF ServeContent
<1>3. QED
  BY <1>1, <1>2, AnswerStep DEF Statuses

\* A bundle has to be made, or there is no such file.
LEMMA NoFileStep == ASSUME IInv, NEW h \in Handler, NoFile(h) PROVE IInv'
<1>1. /\ pc[h] = "open"
      /\ Private(h) => rq[h].cn # None /\ granted[h]
  BY DEF NoFile, IInv, HandlerInv, Authorized, Delivering
<1>2. CASE Role(h) = "bundle" /\ Continue(h, "p12stat")
  BY <1>1, <1>2, ContinueStep
<1>3. CASE \E code \in {400, 404} : Answer(h, code)
  <2>1. PICK code \in {400, 404} : Answer(h, code)
    BY <1>3
  <2>2. QED
    BY <1>1, <2>1, AnswerStep DEF Statuses
<1>4. QED
  BY <1>2, <1>3 DEF NoFile

\* The file is open: its time and its content belong together.
LEMMA OpenFileStep == ASSUME IInv, NEW h \in Handler, OpenFile(h) PROVE IInv'
<1> DEFINE f == Lookup(PathDomain(h), Role(h), rq[h].query)
<1>1. /\ pc[h] = "open" /\ Role(h) \in Files /\ rq[h] \in Request
      /\ HandlerInv(h)
      /\ Private(h) => rq[h].cn # None /\ granted[h]
  BY DEF OpenFile, IInv, HandlerInv, Routed, Authorized, Delivering
<1>2. /\ f # None
      /\ mtime' = [mtime EXCEPT ![h] = f.mtime]
      /\ content' = [content EXCEPT ![h] = [content[h] EXCEPT ![Role(h)] = f]]
      /\ pc' = [pc EXCEPT ![h] = "send"]
      /\ UNCHANGED <<now, store, ccd, rq, status, granted, calm>>
  BY DEF OpenFile, Goto, ghosts
<1>3. f \in File /\ f.mtime <= now
  BY <1>1, <1>2, LookupFile DEF IInv
<1>4. f.mtime \in Time /\ f.mtime \in Nat
  BY <1>3 DEF File, Time
<1> HIDE DEF f
<1>5. content[h] \in [Files -> File \cup {None}]
  BY DEF IInv, TypeOK
<1>6. /\ pc'[h] = "send" /\ mtime'[h] = f.mtime
      /\ content'[h] = [content[h] EXCEPT ![Role(h)] = f]
  BY <1>2 DEF IInv, TypeOK
<1>7. content'[h] \in [Files -> File \cup {None}] /\ content'[h][Role(h)] = f
  BY <1>1, <1>3, <1>5, <1>6
<1>8. TypeOK'
  <2>1. content' \in [Handler -> [Files -> File \cup {None}]]
    BY <1>2, <1>6, <1>7 DEF IInv, TypeOK
  <2>2. QED
    BY <1>2, <1>4, <2>1 DEF IInv, TypeOK
<1>9. \A k \in Handler \ {h} : Same(k)
  BY <1>2 DEF IInv, TypeOK, Same
<1>10. Routed(h)'
  BY <1>1, <1>2, <1>6 DEF Routed, Role, Delivering, Making
<1>11. ListedIsGranted(h)'
  BY <1>1, <1>2 DEF HandlerInv, ListedIsGranted, Listed
<1>12. Authorized(h)'
  BY <1>1, <1>2 DEF Authorized, Private, Role
<1>13. Stamped(h)'
  <2>1. ~Made(h)'
    BY <1>2, <1>7 DEF Made, Role
  <2>2. QED
    BY <1>2, <1>4, <1>6, <1>7, <2>1, NoneAssumption DEF Stamped, Role
<1>14. StampBehind(h)'
  BY <1>2, <1>3, <1>6, <1>13 DEF StampBehind
<1>15. QED
  BY <1>2, <1>8, <1>9, <1>10, <1>11, <1>12, <1>14, OwnStep DEF HandlerInv

\* createPKCS12 takes the time of the certificate first.
LEMMA P12StatStep == ASSUME IInv, NEW h \in Handler, P12Stat(h) PROVE IInv'
<1> DEFINE f == Lookup(PathDomain(h), "cert", "PEM")
<1>1. /\ pc[h] = "p12stat" /\ Role(h) = "bundle" /\ rq[h] \in Request
      /\ HandlerInv(h)
      /\ Private(h) => rq[h].cn # None /\ granted[h]
  BY DEF P12Stat, IInv, HandlerInv, Routed, Authorized, Delivering, Making
<1>2. CASE f = None
  BY <1>1, <1>2, AnswerStep DEF P12Stat, Statuses
<1>3. CASE f # None
  <2>1. /\ mtime' = [mtime EXCEPT ![h] = f.mtime]
        /\ pc' = [pc EXCEPT ![h] = "p12key"]
        /\ UNCHANGED <<now, store, ccd, rq, content, status, granted, calm>>
    BY <1>3 DEF P12Stat, Goto, ghosts
  <2>2. f \in File /\ f.mtime <= now
    BY <1>3, LookupFile DEF IInv, Files, FileRoles, PublicRoles
  <2>3. f.mtime \in Time /\ f.mtime \in Nat
    BY <2>2 DEF File, Time
  <2>4. f' = f
    BY <2>1 DEF Lookup, PathDomain
  <2> HIDE DEF f
  <2>5. pc'[h] = "p12key" /\ mtime'[h] = f.mtime
    BY <2>1 DEF IInv, TypeOK
  <2>6. TypeOK'
    BY <2>1, <2>3 DEF IInv, TypeOK
  <2>7. \A k \in Handler \ {h} : Same(k)
    BY <2>1 DEF IInv, TypeOK, Same
  <2>8. Routed(h)'
    BY <1>1, <2>1, <2>5 DEF Routed, Role, Delivering, Making, Files
  <2>9. ListedIsGranted(h)'
    BY <1>1, <2>1 DEF HandlerInv, ListedIsGranted, Listed
  <2>10. Authorized(h)'
    BY <1>1, <2>1 DEF Authorized, Private, Role
  <2>11. StampBehind(h)'
    <3>1. content'[h]["bundle"] = None
      BY <1>1, <2>1 DEF HandlerInv, StampBehind
    <3>2. mtime'[h] # None /\ f' # None /\ mtime'[h] <= f'.mtime
      BY <1>3, <2>3, <2>4, <2>5, NoneAssumption
    <3>3. QED
      BY <2>1, <2>2, <2>5, <3>1, <3>2 DEF StampBehind, Sent, f
  <2>12. QED
    BY <2>1, <2>6, <2>7, <2>8, <2>9, <2>10, <2>11, OwnStep DEF HandlerInv
<1>4. QED
  BY <1>2, <1>3

\* createPKCS12 reads a part: of the three only the certificate matters to its
\* time, which is that of the certificate or of one that it replaced.
LEMMA ReadPartStep ==
    ASSUME IInv, NEW h \in Handler, NEW at, NEW f, NEW label,
           ReadPart(h, at, f, label),
           <<at, f, label>> \in { <<"p12key", "privkey", "p12cert">>,
                                  <<"p12cert", "cert", "p12chain">>,
                                  <<"p12chain", "chain", "p12encode">> }
    PROVE  IInv'
<1> DEFINE part == Lookup(PathDomain(h), f, "PEM")
<1>0. /\ at \in {"p12key", "p12cert", "p12chain"}
      /\ f \in {"privkey", "cert", "chain"}
      /\ label \in {"p12cert", "p12chain", "p12encode"}
      /\ (at = "p12key") = (f = "privkey") /\ (at = "p12key") = (label = "p12cert")
      /\ (at = "p12cert") = (f = "cert") /\ (at = "p12cert") = (label = "p12chain")
  OBVIOUS
<1>1. /\ pc[h] = at /\ Role(h) = "bundle" /\ rq[h] \in Request
      /\ HandlerInv(h)
      /\ Private(h) => rq[h].cn # None /\ granted[h]
  BY <1>0 DEF ReadPart, IInv, HandlerInv, Routed, Authorized, Delivering, Making
<1>2. CASE part = None
  BY <1>0, <1>1, <1>2, AnswerStep DEF ReadPart, Statuses
<1>3. CASE part # None
  <2>1. /\ content' = [content EXCEPT ![h] = [content[h] EXCEPT ![f] = part]]
        /\ pc' = [pc EXCEPT ![h] = label]
        /\ UNCHANGED <<now, store, ccd, rq, mtime, status, granted, calm>>
    BY <1>3 DEF ReadPart, Goto, ghosts
  <2>2. f \in Files
    BY <1>0 DEF Files, FileRoles, PublicRoles
  <2>3. part \in File
    BY <1>3, <2>2, LookupFile DEF IInv
  <2> HIDE DEF part
  <2>4. content[h] \in [Files -> File \cup {None}]
    BY DEF IInv, TypeOK
  <2>5. pc'[h] = label /\ content'[h] = [content[h] EXCEPT ![f] = part]
    BY <2>1 DEF IInv, TypeOK
  <2>6. /\ content'[h] \in [Files -> File \cup {None}]
        /\ content'[h][f] = part
        /\ \A g \in Files \ {f} : content'[h][g] = content[h][g]
    BY <2>2, <2>3, <2>4, <2>5
  <2>7. TypeOK'
    <3>1. content' \in [Handler -> [Files -> File \cup {None}]]
      BY <2>1, <2>5, <2>6 DEF IInv, TypeOK
    <3>2. pc' \in [Handler -> {"idle", "authn", "authz", "serve", "list", "open", "p12stat",
                               "p12key", "p12cert", "p12chain", "p12encode", "send", "sent"}]
      BY <1>0, <2>1 DEF IInv, TypeOK
    <3>3. QED
      BY <2>1, <3>1, <3>2 DEF IInv, TypeOK
  <2>8. \A k \in Handler \ {h} : Same(k)
    BY <2>1 DEF IInv, TypeOK, Same
  <2>9. Routed(h)'
    BY <1>0, <1>1, <2>1, <2>5 DEF Routed, Role, Delivering, Making, Files
  <2>10. ListedIsGranted(h)'
    BY <1>0, <1>1, <2>1 DEF HandlerInv, ListedIsGranted, Listed
  <2>11. Authorized(h)'
    BY <1>1, <2>1 DEF Authorized, Private, Role
  <2>12. StampBehind(h)'
    <3>1. content'[h]["bundle"] = None
      BY <1>0, <1>1, <2>6 DEF HandlerInv, StampBehind, Files
    <3>2. CASE at = "p12key"
      BY <1>0, <1>1, <2>1, <2>5, <3>1, <3>2
      DEF HandlerInv, StampBehind, Sent, Lookup, PathDomain
    <3>3. CASE at = "p12cert"
      <4>1. mtime[h] # None /\ mtime[h] <= part.mtime
        BY <1>0, <1>1, <1>3, <3>3 DEF HandlerInv, StampBehind, part
      <4>2. QED
        BY <1>0, <1>1, <1>3, <2>1, <2>5, <2>6, <3>1, <3>3, <4>1
        DEF HandlerInv, StampBehind, Sent
    <3>4. CASE at = "p12chain"
      <4>1. content'[h]["cert"] = content[h]["cert"]
        BY <1>0, <2>6, <3>4 DEF Files, FileRoles, PublicRoles
      <4>2. QED
        BY <1>0, <1>1, <2>1, <2>5, <3>1, <3>4, <4>1 DEF HandlerInv, StampBehind, Sent
    <3>5. QED
      BY <1>0, <3>2, <3>3, <3>4
  <2>13. QED
    BY <2>1, <2>7, <2>8, <2>9, <2>10, <2>11, <2>12, OwnStep DEF HandlerInv
<1>4. QED
  BY <1>2, <1>3

\* The bundle is complete: it was stamped before its certificate was read.
LEMMA P12EncodeStep == ASSUME IInv, NEW h \in Handler, P12Encode(h) PROVE IInv'
<1>1. /\ pc[h] = "p12encode" /\ Role(h) = "bundle" /\ rq[h] \in Request
      /\ HandlerInv(h)
      /\ Private(h) => rq[h].cn # None /\ granted[h]
      /\ Continue(h, "send")
  BY DEF P12Encode, IInv, HandlerInv, Routed, Authorized, Delivering, Making
<1>2. Stamped(h)
  BY <1>1 DEF HandlerInv, StampBehind, Stamped, Made
<1>3. QED
  BY <1>1, <1>2, ContinueStep DEF Files

\* The goroutine is free again and nothing of the request is left.
LEMMA FinishStep == ASSUME IInv, NEW h \in Handler, Finish(h) PROVE IInv'
<1>1. Nothing \in [Files -> File \cup {None}] /\ Nothing["bundle"] = None
  BY DEF Nothing, Files
<1>2. TypeOK'
  BY <1>1 DEF IInv, TypeOK, Finish, Goto
<1>3. \A k \in Handler \ {h} : Same(k)
  BY DEF IInv, TypeOK, Same, Finish, Goto
<1>4. pc'[h] = "idle" /\ content'[h] = Nothing /\ mtime'[h] = None
  BY DEF IInv, TypeOK, Finish, Goto
<1>5. HandlerInv(h)'
  BY <1>1, <1>4 DEF HandlerInv, Routed, ListedIsGranted, Authorized, StampBehind, Sent,
     Delivering, Making
<1>6. QED
  BY <1>2, <1>3, <1>5, OwnStep DEF Finish

\* Every step of a handler keeps the inductive invariant.
LEMMA HandleStep == ASSUME IInv, NEW h \in Handler, Handle(h) PROVE IInv'
<1>1. CASE P12Key(h)
  BY <1>1, ReadPartStep DEF P12Key
<1>2. CASE P12Cert(h)
  BY <1>2, ReadPartStep DEF P12Cert
<1>3. CASE P12Chain(h)
  BY <1>3, ReadPartStep DEF P12Chain
<1>4. QED
  BY <1>1, <1>2, <1>3, ArriveStep, AuthnStep, AuthzStep, ServeStep, ServeListStep,
     OpenFileStep, NoFileStep, ReadFailsStep, ServeContentStep, P12StatStep,
     P12EncodeStep, FinishStep DEF Handle

-----------------------------------------------------------------------------
\* The environment.

\* The administrator edits a list: who is listed then counts as granted, and who
\* was granted stays so.
LEMMA EditListStep == ASSUME IInv, NEW c \in Client, EditList(c) PROVE IInv'
<1>1. PICK a \in AuthFile :
        /\ a # ccd[c]
        /\ ccd' = [ccd EXCEPT ![c] = a]
        /\ granted' = [h \in Handler |->
              \/ granted[h]
              \/ /\ rq[h] # None
                 /\ rq[h].cn = c
                 /\ Len(rq[h].path) >= 2
                 /\ rq[h].path[2] \in a.names]
  BY DEF EditList
<1>2. UNCHANGED <<now, store, pc, rq, mtime, content, status, calm>>
  BY DEF EditList
<1>3. TypeOK'
  <2>1. ccd' \in [Client -> AuthFile]
    BY <1>1 DEF IInv, TypeOK
  <2>2. granted' \in [Handler -> BOOLEAN]
    BY <1>1 DEF IInv, TypeOK
  <2>3. QED
    BY <1>2, <2>1, <2>2 DEF IInv, TypeOK
<1>4. StoreInPast'
  BY <1>2 DEF IInv, StoreInPast
<1>5. ASSUME NEW h \in Handler PROVE HandlerInv(h)'
  <2>1. HandlerInv(h) /\ (granted[h] => granted'[h])
    BY <1>1 DEF IInv
  <2>2. Routed(h)'
    BY <1>2, <2>1 DEF HandlerInv, Routed, Role, Private
  <2>3. ListedIsGranted(h)'
    <3> SUFFICES ASSUME pc[h] # "idle", Len(rq[h].path) >= 2,
                        rq[h].cn \in Client, rq[h].path[2] \in ccd'[rq[h].cn].names
                 PROVE  granted'[h]
      BY <1>2 DEF ListedIsGranted, Listed
    <3>1. CASE rq[h].cn = c
      <4>1. ccd'[c] = a
        BY <1>1 DEF IInv, TypeOK
      <4>2. CASE rq[h] # None
        BY <1>1, <3>1, <4>1, <4>2
      <4>3. CASE rq[h] = None
        <5>1. None \in Request
          BY <2>1, <4>3 DEF HandlerInv, Routed
        <5>2. QED
          BY <5>1, NoRequestAssumption
      <4>4. QED
        BY <4>2, <4>3
    <3>2. CASE rq[h].cn # c
      <4>1. ccd'[rq[h].cn] = ccd[rq[h].cn]
        BY <1>1, <3>2 DEF IInv, TypeOK
      <4>2. QED
        BY <2>1, <4>1 DEF HandlerInv, ListedIsGranted, Listed
    <3>3. QED
      BY <3>1, <3>2
  <2>4. Authorized(h)'
    BY <1>2, <2>1 DEF HandlerInv, Authorized, Sent, Private, Role
  <2>5. StampBehind(h)'
    BY <1>2, <2>1 DEF HandlerInv, StampBehind, Stamped, Made, Sent, Role, Lookup, PathDomain
  <2>6. QED
    BY <2>2, <2>3, <2>4, <2>5 DEF HandlerInv
<1>6. QED
  BY <1>3, <1>4, <1>5 DEF IInv

\* A file is replaced, added or removed: a new certificate is at least as young as
\* any time a handler has taken.
LEMMA PutStep ==
    ASSUME IInv, NEW d \in Domain, NEW f \in Files, NEW new \in File \cup {None},
           new # None => new.mtime \in NewDates(f), Put(d, f, new)
    PROVE  IInv'
<1>1. /\ store' = [store EXCEPT ![d] = [store[d] EXCEPT ![f] = new]]
      /\ calm' = [h \in Handler |-> FALSE]
      /\ UNCHANGED <<now, ccd, pc, rq, mtime, content, status, granted>>
  BY DEF Put
<1>2. now \in Time /\ now \in Nat
  BY BoundsAssumption DEF IInv, TypeOK, Time
<1>4. /\ new # None => new.mtime <= now
      /\ f = "cert" /\ new # None => new.mtime = now
  BY <1>2 DEF NewDates
<1>5. /\ store'[d][f] = new
      /\ \A e \in Domain, g \in Files :
            store'[e][g] = IF e = d /\ g = f THEN new ELSE store[e][g]
      /\ store' \in [Domain -> [Files -> File \cup {None}]]
  BY <1>1 DEF IInv, TypeOK
<1>6. TypeOK'
  BY <1>1, <1>5 DEF IInv, TypeOK
<1>7. StoreInPast'
  BY <1>1, <1>2, <1>4, <1>5 DEF IInv, StoreInPast
<1>8. ASSUME NEW h \in Handler PROVE HandlerInv(h)'
  <2>1. HandlerInv(h)
    BY DEF IInv
  <2>2. Routed(h)'
    BY <1>1, <2>1 DEF HandlerInv, Routed, Role, Private
  <2>3. ListedIsGranted(h)'
    BY <1>1, <2>1 DEF HandlerInv, ListedIsGranted, Listed
  <2>4. Authorized(h)'
    BY <1>1, <2>1 DEF HandlerInv, Authorized, Sent, Private, Role
  <2>5. StampBehind(h)'
    <3> DEFINE c == Lookup(PathDomain(h), "cert", "PEM")
    <3>1. c' = c \/ c' = None \/ c'.mtime = now
      BY <1>1, <1>4, <1>5 DEF Lookup, PathDomain, Files, FileRoles, PublicRoles
    <3>2. mtime[h] # None => mtime[h] \in Nat
      BY DEF IInv, TypeOK, Time
    <3>3. mtime[h] # None => mtime[h] <= now
      BY <2>1 DEF HandlerInv, StampBehind
    <3>4. (pc[h] \in {"p12key", "p12cert"} =>
             mtime[h] # None /\ (c # None => mtime[h] <= c.mtime))'
      BY <1>1, <2>1, <3>1, <3>2, <3>3 DEF HandlerInv, StampBehind
    <3>5. QED
      BY <1>1, <2>1, <3>4 DEF HandlerInv, StampBehind, Stamped, Made, Sent, Role
  <2>6. QED
    BY <2>2, <2>3, <2>4, <2>5 DEF HandlerInv
<1>9. QED
  BY <1>6, <1>7, <1>8 DEF IInv

\* The files that the ACME client and the operator put into the store.
LEMMA EditStoreStep ==
    ASSUME IInv, NEW d \in Domain, NEW f \in Files,
           Renew(d, f) \/ AddFile(d, f) \/ RemoveFile(d, f)
    PROVE  /\ calm' = [h \in Handler |-> FALSE]
           /\ \E new \in File \cup {None} :
                 (new # None => new.mtime \in NewDates(f)) /\ Put(d, f, new)
<1>0. calm' = [h \in Handler |-> FALSE]
  BY DEF Renew, AddFile, RemoveFile, Put
<1>1. now \in Time /\ 0 \in Time /\ NewDates(f) \subseteq Time
  BY BoundsAssumption DEF IInv, TypeOK, Time, NewDates
<1>2. CASE RemoveFile(d, f)
  BY <1>0, <1>2 DEF RemoveFile
<1>3. ASSUME NEW v \in 1..MaxVer, NEW m \in NewDates(f),
             Put(d, f, [ver |-> v, mtime |-> m])
      PROVE  \E new \in File \cup {None} :
                (new # None => new.mtime \in NewDates(f)) /\ Put(d, f, new)
  <2>1. [ver |-> v, mtime |-> m] \in File
    BY <1>1 DEF File
  <2>2. QED
    BY <1>3, <2>1
<1>4. CASE AddFile(d, f)
  BY <1>0, <1>3, <1>4 DEF AddFile
<1>5. CASE Renew(d, f)
  <2>1. store[d][f] \in File /\ store[d][f].ver < MaxVer
    BY <1>5 DEF Renew, IInv, TypeOK
  <2>2. store[d][f].ver + 1 \in 1..MaxVer
    BY <2>1, BoundsAssumption DEF File
  <2>3. QED
    BY <1>0, <1>3, <1>5, <2>2 DEF Renew
<1>6. QED
  BY <1>2, <1>4, <1>5

\* Time goes on.
LEMMA TickStep == IInv /\ Tick => IInv'
<1> SUFFICES ASSUME IInv, Tick PROVE IInv'
  OBVIOUS
<1>1. /\ now \in Nat /\ now < MaxTime /\ now' = now + 1
      /\ UNCHANGED <<store, ccd, pc, rq, mtime, content, status, granted, calm>>
  BY DEF IInv, TypeOK, Time, Tick, ghosts
<1>2. TypeOK'
  BY <1>1, BoundsAssumption DEF IInv, TypeOK, Time
<1>3. StoreInPast'
  BY <1>1 DEF IInv, TypeOK, StoreInPast, File, Time
<1>4. ASSUME NEW h \in Handler PROVE HandlerInv(h)'
  <2>1. HandlerInv(h) /\ (mtime[h] # None => mtime[h] \in Nat)
    BY DEF IInv, TypeOK, Time
  <2>2. (mtime[h] # None => mtime[h] <= now)'
    BY <1>1, <2>1 DEF HandlerInv, StampBehind
  <2>3. Routed(h)' /\ ListedIsGranted(h)' /\ Authorized(h)'
    BY <1>1, <2>1
    DEF HandlerInv, Routed, ListedIsGranted, Listed, Authorized, Sent, Private, Role
  <2>4. StampBehind(h)'
    BY <1>1, <2>1, <2>2
    DEF HandlerInv, StampBehind, Stamped, Made, Sent, Role, Lookup, PathDomain
  <2>5. QED
    BY <2>3, <2>4 DEF HandlerInv
<1>5. QED
  BY <1>2, <1>3, <1>4 DEF IInv

-----------------------------------------------------------------------------
\* The initial states, and every step.

\* No request is being handled when the server starts.
LEMMA InitIInv == Init => IInv
<1> SUFFICES ASSUME Init PROVE IInv
  OBVIOUS
<1> DEFINE first == [ver |-> 1, mtime |-> 0]
           withoutBundle == [f \in Files |-> IF f = "bundle" THEN None ELSE first]
           withBundle == [f \in Files |-> first]
<1>1. first \in File /\ first.mtime = 0
  BY BoundsAssumption DEF File, Time
<1>2. store \in [Domain -> {Nothing, withoutBundle, withBundle}]
  BY DEF Init
<1> HIDE DEF first
<1>3. {Nothing, withoutBundle, withBundle} \subseteq [Files -> File \cup {None}]
  BY <1>1 DEF Nothing
<1>4. TypeOK
  <2>1. store \in [Domain -> [Files -> File \cup {None}]]
    BY <1>2, <1>3
  <2>2. now \in Time
    BY BoundsAssumption DEF Init, Time
  <2>3. content \in [Handler -> [Files -> File \cup {None}]]
    BY DEF Init, Nothing
  <2>4. QED
    BY <2>1, <2>2, <2>3 DEF Init, TypeOK
<1>5. StoreInPast
  <2> SUFFICES ASSUME NEW d \in Domain, NEW f \in Files, store[d][f] # None
               PROVE  store[d][f].mtime <= now
    BY DEF StoreInPast
  <2>1. store[d][f] = first
    BY <1>2 DEF Nothing
  <2>2. QED
    BY <1>1, <2>1 DEF Init
<1>6. ASSUME NEW h \in Handler PROVE HandlerInv(h)
  <2>1. pc[h] = "idle" /\ mtime[h] = None /\ content[h] = Nothing
    BY DEF Init
  <2>2. content[h]["bundle"] = None
    BY <2>1 DEF Nothing, Files
  <2>3. QED
    BY <2>1, <2>2 DEF HandlerInv, Routed, ListedIsGranted, Authorized, StampBehind, Sent,
       Delivering, Making
<1>7. QED
  BY <1>4, <1>5, <1>6 DEF IInv

\* Every step keeps the inductive invariant.
LEMMA NextIInv == IInv /\ [Next]_vars => IInv'
<1> SUFFICES ASSUME IInv, [Next]_vars PROVE IInv'
  OBVIOUS
<1>1. CASE UNCHANGED vars
  <2>1. UNCHANGED <<now, store, ccd, pc, rq, mtime, content, status, granted, calm>>
    BY <1>1 DEF vars, ghosts
  <2>2. TypeOK' /\ StoreInPast'
    BY <2>1 DEF IInv, TypeOK, StoreInPast
  <2>3. \A h \in Handler : HandlerInv(h)'
    BY <2>1, Frame DEF IInv, Same
  <2>4. QED
    BY <2>2, <2>3 DEF IInv
<1>2. CASE \E d \in Domain, f \in Files : Renew(d, f) \/ AddFile(d, f) \/ RemoveFile(d, f)
  BY <1>2, EditStoreStep, PutStep
<1>3. QED
  BY <1>1, <1>2, HandleStep, EditListStep, TickStep DEF Next

-----------------------------------------------------------------------------
\* Type correctness.
THEOREM TypeCorrect == Spec => []TypeOK
<1>1. IInv => TypeOK
  BY DEF IInv
<1>2. QED
  BY <1>1, InitIInv, NextIInv, PTL DEF Spec

\* A private key or a bundle leaves the server only for a client whose file listed
\* the domain at some instant of the request (main.go's route table and auth.go's
\* authz), for any number of handlers at work while the lists are edited.
THEOREM PrivateOnlyIfListedHolds == Spec => []PrivateOnlyIfListed
<1>1. IInv => PrivateOnlyIfListed
  BY DEF IInv, HandlerInv, Authorized, PrivateOnlyIfListed
<1>2. QED
  BY <1>1, InitIInv, NextIInv, PTL DEF Spec

\* The Last-Modified of a response is never later than the certificate it carries
\* (serve and createPKCS12), however the files are replaced meanwhile.
THEOREM StampNotAheadOfContentHolds == Spec => []StampNotAheadOfContent
<1>1. IInv => StampNotAheadOfContent
  BY DEF IInv, HandlerInv, StampBehind, Stamped, StampNotAheadOfContent
<1>2. QED
  BY <1>1, InitIInv, NextIInv, PTL DEF Spec

-----------------------------------------------------------------------------
\* What is read of files that stay as they are.

\* Where which part of a bundle has been read, and where its time is taken.
HasTime == {"p12key", "p12cert", "p12chain", "p12encode"}
HasRead(f) ==
    IF f = "privkey" THEN {"p12cert", "p12chain", "p12encode"}
    ELSE IF f = "cert" THEN {"p12chain", "p12encode"} ELSE {"p12encode"}

\* A part is the one in the store.
Current(h, f) ==
    content[h][f] # None /\ content[h][f] = store[PathDomain(h)][f]

\* The answer is the store's.
AnswerCurrent(h) ==
    /\ PathDomain(h) \in Domain
    /\ \A f \in Sources(h) : Current(h, f)
    /\ mtime[h] = store[PathDomain(h)][Dated(h)].mtime
    /\ Made(h) /\ rq[h].query # "PEM" => store[PathDomain(h)]["bundle"] = None

\* As long as nothing is replaced, what has been read is the store's.
Fresh(h) ==
    calm[h] =>
       /\ pc[h] \in Making /\ PathDomain(h) \in Domain /\ rq[h].query # "PEM" =>
             store[PathDomain(h)]["bundle"] = None
       /\ pc[h] \in HasTime =>
             /\ PathDomain(h) \in Domain
             /\ mtime[h] = store[PathDomain(h)]["cert"].mtime
       /\ \A f \in Parts : pc[h] \in HasRead(f) => Current(h, f)
       /\ pc[h] = "send" \/ (Sent(h, {200, 304}) /\ Role(h) # "list") => AnswerCurrent(h)

\* A handler that does not move keeps what it has read.
LEMMA FreshFrame ==
    ASSUME NEW k \in Handler, Same(k), calm'[k] = calm[k], store' = store, Fresh(k)
    PROVE  Fresh(k)'
  BY DEF Same, Fresh, AnswerCurrent, Current, Sources, Dated, Made, Sent, Role, PathDomain

\* A handler that answers or goes on has read nothing new.
LEMMA FreshMoves ==
    ASSUME IInv, NEW h \in Handler, Fresh(h), NEW label,
           pc' = [pc EXCEPT ![h] = label],
           \/ UNCHANGED status
           \/ \E code \in Statuses : status' = [status EXCEPT ![h] = code],
           UNCHANGED <<store, rq, mtime, content, calm>>,
           label \notin HasTime,
           label = "p12stat" => Lookup(PathDomain(h), "bundle", rq[h].query) = None,
           label = "send" => AnswerCurrent(h) \/ ~calm[h],
           label = "sent" /\ status'[h] \in {200, 304} /\ Role(h) # "list" => pc[h] = "send"
    PROVE  Fresh(h)'
<1>1. pc'[h] = label
  BY DEF IInv, TypeOK
<1>2. AnswerCurrent(h)' = AnswerCurrent(h) /\ calm'[h] = calm[h]
  BY DEF AnswerCurrent, Current, Sources, Dated, Made, Role, PathDomain
<1>3. label \notin HasRead("privkey") \cup HasRead("cert") \cup HasRead("chain")
  BY DEF HasTime, HasRead
<1>4. label = "p12stat" /\ PathDomain(h) \in Domain /\ rq[h].query # "PEM" =>
         store[PathDomain(h)]["bundle"] = None
  BY DEF Lookup
<1>5. label \in Making => label = "p12stat"
  BY DEF Making, HasTime
<1>6. QED
  BY <1>1, <1>2, <1>3, <1>4, <1>5 DEF Fresh, Sent, Role, PathDomain, Parts

\* The file that is served.
LEMMA FreshOpen == ASSUME IInv, NEW h \in Handler, OpenFile(h) PROVE Fresh(h)'
<1> DEFINE f == Lookup(PathDomain(h), Role(h), rq[h].query)
<1>1. Role(h) \in Files /\ content[h] \in [Files -> File \cup {None}]
  BY DEF OpenFile, IInv, TypeOK, HandlerInv, Routed, Delivering
<1>2. /\ f # None
      /\ mtime'[h] = f.mtime
      /\ content'[h] = [content[h] EXCEPT ![Role(h)] = f]
      /\ pc'[h] = "send"
      /\ UNCHANGED <<store, rq>>
  BY DEF OpenFile, Goto, IInv, TypeOK
<1>3. PathDomain(h) \in Domain /\ f = store[PathDomain(h)][Role(h)]
  BY <1>2 DEF Lookup
<1> HIDE DEF f
<1>4. content'[h][Role(h)] = f
  BY <1>1, <1>2
<1>5. ~Made(h)'
  BY <1>2, <1>4 DEF Made, Role
<1>6. AnswerCurrent(h)'
  BY <1>2, <1>3, <1>4, <1>5 DEF AnswerCurrent, Sources, Dated, Current, Role, PathDomain
<1>7. QED
  BY <1>2, <1>6 DEF Fresh, Making, HasTime, HasRead, Parts

\* The time of a bundle.
LEMMA FreshStat ==
    ASSUME IInv, NEW h \in Handler, Fresh(h), P12Stat(h), pc'[h] # "sent"
    PROVE  Fresh(h)'
<1> DEFINE f == Lookup(PathDomain(h), "cert", "PEM")
<1>1. /\ f # None
      /\ mtime'[h] = f.mtime
      /\ pc[h] = "p12stat" /\ pc'[h] = "p12key"
      /\ UNCHANGED <<store, rq, content, calm>>
  BY DEF P12Stat, Goto, Answer, IInv, TypeOK, ghosts
<1>2. PathDomain(h) \in Domain /\ f = store[PathDomain(h)]["cert"]
  BY <1>1 DEF Lookup
<1>3. QED
  BY <1>1, <1>2 DEF Fresh, Making, HasTime, HasRead, Parts, Sent, PathDomain

\* One part more.
LEMMA FreshPart ==
    ASSUME IInv, NEW h \in Handler, Fresh(h), NEW at, NEW f, NEW label,
           ReadPart(h, at, f, label), pc'[h] # "sent",
           <<at, f, label>> \in { <<"p12key", "privkey", "p12cert">>,
                                  <<"p12cert", "cert", "p12chain">>,
                                  <<"p12chain", "chain", "p12encode">> }
    PROVE  Fresh(h)'
<1> DEFINE part == Lookup(PathDomain(h), f, "PEM")
<1>0. \/ at = "p12key" /\ f = "privkey" /\ label = "p12cert"
      \/ at = "p12cert" /\ f = "cert" /\ label = "p12chain"
      \/ at = "p12chain" /\ f = "chain" /\ label = "p12encode"
  OBVIOUS
<1>1. /\ part # None /\ pc[h] = at /\ pc'[h] = label
      /\ content'[h] = [content[h] EXCEPT ![f] = part]
      /\ UNCHANGED <<store, rq, mtime, calm>>
  BY <1>0 DEF ReadPart, Goto, Answer, IInv, TypeOK, ghosts
<1>2. PathDomain(h) \in Domain /\ part = store[PathDomain(h)][f]
  BY <1>1 DEF Lookup
<1> HIDE DEF part
<1>3. content'[h][f] = part /\ \A g \in Parts \ {f} : content'[h][g] = content[h][g]
  BY <1>0, <1>1 DEF IInv, TypeOK, Files, FileRoles, PublicRoles, Parts
<1>4. \A g \in Parts : label \in HasRead(g) => g = f \/ at \in HasRead(g)
  BY <1>0 DEF HasRead, Parts
<1>5. ASSUME calm[h], NEW g \in Parts, label \in HasRead(g) PROVE Current(h, g)'
  <2>1. CASE g = f
    BY <1>1, <1>2, <1>3, <2>1 DEF Current, PathDomain
  <2>2. CASE g # f
    BY <1>1, <1>3, <1>4, <1>5, <2>2 DEF Fresh, Current, PathDomain
  <2>3. QED
    BY <2>1, <2>2
<1>6. label \in Making /\ at \in Making /\ at \in HasTime /\ label \notin {"send", "sent"}
  BY <1>0 DEF Making, HasTime
<1>7. QED
  BY <1>1, <1>5, <1>6 DEF Fresh, Sent, PathDomain

\* A handler's step keeps what it reads up to date.
LEMMA FreshHandle ==
    ASSUME IInv, NEW h \in Handler, Fresh(h), Handle(h) PROVE Fresh(h)'
<1>1. CASE Arrive(h)
  <2>1. /\ pc'[h] \in {"authn", "serve", "authz", "sent"}
        /\ pc'[h] = "sent" => status'[h] \in {301, 404}
    BY <1>1, RouteOutcome DEF Arrive, Goto, IInv, TypeOK
  <2>2. QED
    BY <2>1 DEF Fresh, Making, HasTime, HasRead, Parts, Sent
<1>2. CASE \E code \in {400, 401, 404, 500} : Answer(h, code)
  <2>1. pc'[h] = "sent" /\ status'[h] \notin {200, 304}
    BY <1>2 DEF Answer, Goto, IInv, TypeOK
  <2>2. QED
    BY <2>1 DEF Fresh, Making, HasTime, HasRead, Parts, Sent
<1>3. ASSUME NEW label \in {"serve", "list", "open"}, Continue(h, label) PROVE Fresh(h)'
  <2>1. pc'[h] = label
    BY <1>3 DEF Continue, Goto, IInv, TypeOK
  <2>2. QED
    BY <1>3, <2>1 DEF Fresh, Making, HasTime, HasRead, Parts, Sent
<1>4. CASE Authn(h)
  BY <1>2, <1>3, <1>4 DEF Authn
<1>5. CASE Authz(h)
  <2>1. CnListError(h) # None => CnListError(h) \in {400, 401, 404, 500}
    BY CnListStatus
  <2>2. QED
    BY <1>2, <1>3, <1>5, <2>1 DEF Authz
<1>6. CASE Serve(h)
  BY <1>2, <1>3, <1>6 DEF Serve
<1>7. CASE ServeList(h)
  <2>1. Role(h) = "list" /\ pc'[h] = "sent" /\ rq' = rq
    BY <1>7 DEF ServeList, Answer, Goto, IInv, TypeOK, HandlerInv, Routed
  <2>2. QED
    BY <2>1 DEF Fresh, Making, HasTime, HasRead, Parts, Sent, Role
<1>8. CASE OpenFile(h)
  BY <1>8, FreshOpen
<1>9. CASE NoFile(h)
  <2>1. CASE Continue(h, "p12stat")
    <3>1. Role(h) = "bundle" /\ Lookup(PathDomain(h), "bundle", rq[h].query) = None
      BY <1>9, <2>1 DEF NoFile, IInv, HandlerInv, Routed, Continue, Answer, Goto, TypeOK
    <3>2. QED
      BY <2>1, <3>1, FreshMoves DEF Continue, Goto, ghosts, HasTime
  <2>2. QED
    BY <1>2, <1>9, <2>1 DEF NoFile
<1>10. CASE ReadFails(h)
  BY <1>2, <1>10 DEF ReadFails
<1>11. CASE ServeContent(h)
  <2>1. pc[h] = "send" /\ (Answer(h, 200) \/ Answer(h, 304))
    BY <1>11 DEF ServeContent
  <2>2. /\ pc' = [pc EXCEPT ![h] = "sent"]
        /\ \E code \in Statuses : status' = [status EXCEPT ![h] = code]
        /\ UNCHANGED <<store, rq, mtime, content, calm>>
    BY <2>1 DEF Answer, Goto, ghosts, Statuses
  <2>3. QED
    BY <2>1, <2>2, FreshMoves DEF HasTime
<1>12. CASE P12Stat(h)
  <2>1. CASE pc'[h] = "sent"
    BY <1>2, <1>12, <2>1 DEF P12Stat, Goto, IInv, TypeOK
  <2>2. QED
    BY <1>12, <2>1, FreshStat
<1>13. ASSUME NEW at, NEW f, NEW label, ReadPart(h, at, f, label),
              <<at, f, label>> \in { <<"p12key", "privkey", "p12cert">>,
                                     <<"p12cert", "cert", "p12chain">>,
                                     <<"p12chain", "chain", "p12encode">> }
       PROVE  Fresh(h)'
  <2>0. label # "sent"
    BY <1>13
  <2>1. CASE pc'[h] = "sent"
    BY <1>2, <1>13, <2>0, <2>1 DEF ReadPart, Goto, IInv, TypeOK
  <2>2. QED
    BY <1>13, <2>1, FreshPart
<1>14. CASE P12Key(h) \/ P12Cert(h) \/ P12Chain(h)
  BY <1>13, <1>14 DEF P12Key, P12Cert, P12Chain
<1>15. CASE P12Encode(h)
  <2>1. /\ pc[h] = "p12encode" /\ Role(h) = "bundle"
        /\ pc' = [pc EXCEPT ![h] = "send"]
        /\ UNCHANGED <<store, rq, mtime, content, status, calm>>
    BY <1>15 DEF P12Encode, Continue, Goto, ghosts, IInv, HandlerInv, Routed, Making
  <2>2. Made(h)
    BY <2>1 DEF Made, IInv, HandlerInv, StampBehind
  <2>3. calm[h] => AnswerCurrent(h)
    BY <2>1, <2>2 DEF Fresh, AnswerCurrent, Sources, Dated, Making, HasTime, HasRead, Parts
  <2>4. QED
    BY <2>1, <2>3, FreshMoves DEF HasTime
<1>16. CASE Finish(h)
  <2>1. pc'[h] = "idle"
    BY <1>16 DEF Finish, Goto, IInv, TypeOK
  <2>2. QED
    BY <2>1 DEF Fresh, Making, HasTime, HasRead, Parts, Sent
<1>17. QED
  BY <1>1, <1>4, <1>5, <1>6, <1>7, <1>8, <1>9, <1>10, <1>11, <1>12, <1>14, <1>15, <1>16
  DEF Handle

\* A change of the store ends the calm; every other step leaves what was read as it is.
LEMMA FreshNext ==
    ASSUME IInv, \A h \in Handler : Fresh(h), [Next]_vars
    PROVE  \A h \in Handler : Fresh(h)'
<1> SUFFICES ASSUME NEW k \in Handler PROVE Fresh(k)'
  OBVIOUS
<1>1. ASSUME NEW h \in Handler, Handle(h) PROVE Fresh(k)'
  <2>1. CASE k = h
    BY <1>1, <2>1, FreshHandle
  <2>2. CASE k # h
    <3>1. store' = store
      BY <1>1 DEF Handle, Arrive, Authn, Authz, Serve, ServeList, OpenFile, NoFile, ReadFails,
         ServeContent, P12Stat, P12Key, P12Cert, P12Chain, ReadPart, P12Encode, Finish,
         Answer, Continue
    <3>2. Same(k) /\ calm'[k] = calm[k]
      BY <1>1, <2>2 DEF Handle, Arrive, Authn, Authz, Serve, ServeList, OpenFile, NoFile,
         ReadFails, ServeContent, P12Stat, P12Key, P12Cert, P12Chain, ReadPart, P12Encode,
         Finish, Answer, Continue, Goto, ghosts, Same, IInv, TypeOK
    <3>3. QED
      BY <3>1, <3>2, FreshFrame
  <2>3. QED
    BY <2>1, <2>2
<1>2. CASE \E d \in Domain, f \in Files : Renew(d, f) \/ AddFile(d, f) \/ RemoveFile(d, f)
  BY <1>2, EditStoreStep DEF Fresh
<1>3. CASE UNCHANGED <<store, pc, rq, mtime, content, status, calm>>
  BY <1>3 DEF Fresh, AnswerCurrent, Current, Sources, Dated, Made, Sent, Role, PathDomain
<1>4. QED
  BY <1>1, <1>2, <1>3 DEF Next, EditList, Tick, vars, ghosts

\* When the store did not change during a request, the answer is what the store has
\* of the domain and role asked for, and a bundle that is made on the fly never takes
\* the place of the operator's own: serve and createPKCS12 add no mixture of their
\* own to that of a store in the middle of a renewal.
THEOREM CalmMeansCurrentHolds == Spec => []CalmMeansCurrent
<1> DEFINE AllFresh == \A h \in Handler : Fresh(h)
<1>1. Init => AllFresh
  BY DEF Init, Fresh
<1>2. IInv /\ AllFresh /\ [Next]_vars => AllFresh'
  BY FreshNext
<1>3. IInv /\ AllFresh => CalmMeansCurrent
  BY DEF Fresh, AnswerCurrent, Current, CalmMeansCurrent
<1>4. QED
  BY <1>1, <1>2, <1>3, InitIInv, NextIInv, PTL DEF Spec

=============================================================================
