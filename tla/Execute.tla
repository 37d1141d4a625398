------------------------------ MODULE Execute ------------------------------
(***************************************************************************)
(* cert.Req.Execute: the fetch, write, install and hook sequence that      *)
(* cert-proxy-client runs for one domain, over the directory of that       *)
(* domain.  Several client processes may work on the directory at once     *)
(* (a timer unit and a manual run); each may be killed between any two     *)
(* system calls.  Within one process a domain has a single Execute at a    *)
(* time, so "process" stands for one call of Execute and the client that   *)
(* makes it.                                                               *)
(*                                                                         *)
(* An item is an artifact of the request, numbered as in ROLES[format]:    *)
(* CERT, KEY, CHAIN, FULLCHAIN for PEM, the one BUNDLE for PKCS12.  What   *)
(* an artifact contains is abstracted to the version the server had        *)
(* published when it was fetched.  Time is in seconds, the granularity of  *)
(* the file name infix and of HTTP dates, on the client's clock.           *)
(*                                                                         *)
(* The server takes the Last-Modified of an artifact from a file: its own, *)
(* or, for a bundle it makes on the fly, that of the certificate, which    *)
(* stays as it is when the key or the chain is replaced (module Server     *)
(* has the steps of that).  These dates are on the server's clock.         *)
(***************************************************************************)
EXTENDS Integers, Sequences

CONSTANTS
    Proc,           \* the client processes
    N,              \* the number of items of a request: len(ROLES[format])
    ForceModes,     \* the values of cert.Force a run may have
    SymlinkModes,   \* the values of cert.UseSymlink a run may have
    Made,           \* the items the server makes on the fly: a bundle
    Lead,           \* by how many seconds the client's clock is ahead of the server's
    SameSecond,     \* may two runs for the domain compute the same infix?
    MaxTime,        \* bound on the clock
    MaxVer,         \* bound on the renewals of an artifact
    None            \* no value

ASSUME NAssumption == N \in Nat \ {0}
ASSUME MaxTimeAssumption == MaxTime \in Nat \ {0}
ASSUME MaxVerAssumption == MaxVer \in Nat \ {0}
ASSUME ModesAssumption ==
    ForceModes \subseteq BOOLEAN /\ SymlinkModes \subseteq BOOLEAN
ASSUME MadeAssumption == Made \subseteq 1..N
ASSUME LeadAssumption == Lead \in Int
ASSUME SameSecondAssumption == SameSecond \in BOOLEAN
ASSUME NoneAssumption == None \notin Nat /\ None \notin Proc

VARIABLES
    now,    \* the clock, in seconds
    pub,    \* pub[i]: the versions of item i the server has published
    file,   \* file[i][t]: the file NAME-t.EXT of item i
    link,   \* link[i]: target of the symlink NAME.EXT
    plain,  \* plain[i]: the regular file NAME.EXT
    tmp,    \* tmp[i]: target of the symlink NAME.EXT.tmp
    stamp,  \* the last infix anyone computed
    pc,     \* pc[p]: where process p is in Execute
    idx,    \* idx[p]: the item p works on
    ims,    \* ims[p]: the if-modified-since header of that item
    data,   \* data[p][i]: the body p got for item i
    seen,   \* seen[p][i]: the version the server had when it answered p
    infix,  \* infix[p]: the infix of p's file names
    todo,   \* todo[p]: the items of the infixed map still to be installed
    force,  \* force[p]: cert.Force
    sym     \* sym[p]: cert.UseSymlink

dirVars == <<file, link, plain, tmp>>
optVars == <<force, sym>>
vars == <<now, pub, dirVars, stamp, pc, idx, ims, data, seen, infix, todo, optVars>>

Item == 1..N
Time == 0..MaxTime
Version == 1..MaxVer

\* A version on the server: when it was there first, and its Last-Modified.
Publication == [at : Time, date : Int]

\* What was fetched: a version, and when the server answered.
Body == [ver : Version, at : Time]

\* A regular file: the body written to it, its modification time, whether the
\* whole body is in it, and the process that has it open for writing.
File == [ver : Version, at : Time, mtime : Time, whole : BOOLEAN,
         by : Proc \cup {None}]

ASSUME NoRecordAssumption == None \notin Body /\ None \notin File

Locations == {"idle", "stat", "get", "infix", "write", "fill", "clean",
              "link", "symlink", "rename", "hook"}

\* The locations from TakeInfix on, where a process has an infix.
Named == {"write", "fill", "clean", "link", "symlink", "rename", "hook"}

\* The types of the local variables of Execute, of the directory and of the rest.
ProcOK ==
    /\ pc \in [Proc -> Locations]
    /\ idx \in [Proc -> Item]
    /\ ims \in [Proc -> Time \cup {None}]
    /\ data \in [Proc -> [Item -> Body \cup {None}]]
    /\ seen \in [Proc -> [Item -> Version \cup {None}]]
    /\ infix \in [Proc -> Time \cup {None}]
    /\ todo \in [Proc -> SUBSET Item]
    /\ force \in [Proc -> BOOLEAN]
    /\ sym \in [Proc -> BOOLEAN]

DirOK ==
    /\ file \in [Item -> [Time -> File \cup {None}]]
    /\ link \in [Item -> Time \cup {None}]
    /\ plain \in [Item -> File \cup {None}]
    /\ tmp \in [Item -> Time \cup {None}]

EnvOK ==
    /\ now \in Time
    /\ pub \in [Item -> Seq(Publication)]
    /\ \A i \in Item : Len(pub[i]) \in Version
    /\ stamp \in Time

NamedOK == \A p \in Proc : pc[p] \in Named <=> infix[p] # None

TypeOK == ProcOK /\ DirOK /\ EnvOK /\ NamedOK

\* The version the server serves, and the file a reader of NAME.EXT gets.
Current(i) == Len(pub[i])
Resolve(i) == IF link[i] # None THEN file[i][link[i]] ELSE plain[i]

Init ==
    /\ now = 1
    /\ pub = [i \in Item |-> <<[at |-> 0, date |-> -Lead]>>]
    /\ file = [i \in Item |-> [t \in Time |-> None]]
    /\ link = [i \in Item |-> None]
    /\ plain = [i \in Item |-> None]
    /\ tmp = [i \in Item |-> None]
    /\ stamp = 0
    /\ pc = [p \in Proc |-> "idle"]
    /\ idx = [p \in Proc |-> 1]
    /\ ims = [p \in Proc |-> None]
    /\ data = [p \in Proc |-> [i \in Item |-> None]]
    /\ seen = [p \in Proc |-> [i \in Item |-> None]]
    /\ infix = [p \in Proc |-> None]
    /\ todo = [p \in Proc |-> {}]
    /\ force = [p \in Proc |-> FALSE]
    /\ sym = [p \in Proc |-> FALSE]

-----------------------------------------------------------------------------
\* Control flow shared by the steps of Execute.

\* Execute returns: its local variables are gone.
Return(p) ==
    /\ pc' = [pc EXCEPT ![p] = "idle"]
    /\ idx' = [idx EXCEPT ![p] = 1]
    /\ ims' = [ims EXCEPT ![p] = None]
    /\ data' = [data EXCEPT ![p] = [i \in Item |-> None]]
    /\ seen' = [seen EXCEPT ![p] = [i \in Item |-> None]]
    /\ infix' = [infix EXCEPT ![p] = None]
    /\ todo' = [todo EXCEPT ![p] = {}]
    /\ force' = [force EXCEPT ![p] = FALSE]
    /\ sym' = [sym EXCEPT ![p] = FALSE]

\* Mutant of NextFetch: the loop runs one item too far.
NextFetchPastEnd(p) ==
    /\ ims' = [ims EXCEPT ![p] = None]
    /\ IF idx[p] <= N
         THEN /\ pc' = [pc EXCEPT ![p] = "stat"]
              /\ idx' = [idx EXCEPT ![p] = @ + 1]
         ELSE /\ pc' = [pc EXCEPT ![p] = "infix"]
              /\ idx' = [idx EXCEPT ![p] = 1]

\* The fetch loop goes to its next item, or ends.
NextFetch(p) ==
    /\ ims' = [ims EXCEPT ![p] = None]
    /\ IF idx[p] < N
         THEN /\ pc' = [pc EXCEPT ![p] = "stat"]
              /\ idx' = [idx EXCEPT ![p] = @ + 1]
         ELSE /\ pc' = [pc EXCEPT ![p] = "infix"]
              /\ idx' = [idx EXCEPT ![p] = 1]

\* The write loop goes to its next item, or ends with the map of infixed files.
NextWrite(p) ==
    IF idx[p] < N
      THEN /\ pc' = [pc EXCEPT ![p] = "write"]
           /\ idx' = [idx EXCEPT ![p] = @ + 1]
           /\ UNCHANGED todo
      ELSE /\ pc' = [pc EXCEPT ![p] = "link"]
           /\ idx' = [idx EXCEPT ![p] = 1]
           /\ todo' = [todo EXCEPT ![p] = {i \in Item : data[p][i] # None}]

\* The install loop is done with the item it was on.
Installed(p, i) ==
    /\ pc' = [pc EXCEPT ![p] = "link"]
    /\ idx' = [idx EXCEPT ![p] = 1]
    /\ todo' = [todo EXCEPT ![p] = @ \ {i}]

\* Process p closes f if that is the file it has open: with the whole body in
\* it, or as it was created.
Close(f, p, complete) ==
    IF f # None /\ f.by = p
      THEN [f EXCEPT !.by = None, !.whole = complete,
                     !.mtime = IF complete THEN now ELSE @]
      ELSE f

-----------------------------------------------------------------------------
\* The fetch loop.

Start(p) ==
    /\ pc[p] = "idle"
    /\ \E f \in ForceModes, s \in SymlinkModes :
          /\ force' = [force EXCEPT ![p] = f]
          /\ sym' = [sym EXCEPT ![p] = s]
    /\ pc' = [pc EXCEPT ![p] = "stat"]
    /\ UNCHANGED <<now, pub, dirVars, stamp, idx, ims, data, seen, infix, todo>>

\* Mutant of Stat: -force is not looked at.
StatAlways(p) ==
    /\ pc[p] = "stat"
    /\ pc' = [pc EXCEPT ![p] = "get"]
    /\ ims' = [ims EXCEPT ![p] =
          IF Resolve(idx[p]) = None THEN None ELSE Resolve(idx[p]).mtime]
    /\ UNCHANGED <<now, pub, dirVars, stamp, idx, data, seen, infix, todo, optVars>>

\* Mutant of Stat: Lstat, which finds a dangling symlink, made in the second of
\* its target's name.
StatLink(p) ==
    /\ pc[p] = "stat"
    /\ pc' = [pc EXCEPT ![p] = "get"]
    /\ ims' = [ims EXCEPT ![p] =
          IF force[p] THEN None
          ELSE IF link[idx[p]] # None THEN link[idx[p]]
          ELSE IF plain[idx[p]] # None THEN plain[idx[p]].mtime ELSE None]
    /\ UNCHANGED <<now, pub, dirVars, stamp, idx, data, seen, infix, todo, optVars>>

\* os.Stat follows the symlink: a dangling one counts as absent.
Stat(p) ==
    /\ pc[p] = "stat"
    /\ pc' = [pc EXCEPT ![p] = "get"]
    /\ ims' = [ims EXCEPT ![p] =
          IF force[p] \/ Resolve(idx[p]) = None THEN None
                                                ELSE Resolve(idx[p]).mtime]
    /\ UNCHANGED <<now, pub, dirVars, stamp, idx, data, seen, infix, todo, optVars>>

\* The server compares the header with the date of what it has.
NotModified(i, t) == t # None /\ pub[i][Current(i)].date <= t

Get200(p) ==
    /\ pc[p] = "get"
    /\ LET i == idx[p] IN
         /\ ~NotModified(i, ims[p])
         /\ data' = [data EXCEPT ![p][i] = [ver |-> Current(i), at |-> now]]
         /\ seen' = [seen EXCEPT ![p][i] = Current(i)]
    /\ NextFetch(p)
    /\ UNCHANGED <<now, pub, dirVars, stamp, infix, todo, optVars>>

Get304(p) ==
    /\ pc[p] = "get"
    /\ LET i == idx[p] IN
         /\ NotModified(i, ims[p])
         /\ seen' = [seen EXCEPT ![p][i] = Current(i)]
    /\ NextFetch(p)
    /\ UNCHANGED <<now, pub, dirVars, stamp, data, infix, todo, optVars>>

\* A 200 answer without a body, from a file that is being rewritten in place on
\* the server: there is no data, as after a 304, and nothing was learnt.
GetEmpty(p) ==
    /\ pc[p] = "get"
    /\ NextFetch(p)
    /\ UNCHANGED <<now, pub, dirVars, stamp, data, seen, infix, todo, optVars>>

\* The request fails, times out, is answered with another status, or the body
\* cannot be read to its end.
GetFail(p) ==
    /\ pc[p] = "get"
    /\ Return(p)
    /\ UNCHANGED <<now, pub, dirVars, stamp>>

-----------------------------------------------------------------------------
\* The write loop.

TakeInfix(p) ==
    /\ pc[p] = "infix"
    /\ SameSecond \/ now > stamp
    /\ infix' = [infix EXCEPT ![p] = now]
    /\ stamp' = now
    /\ pc' = [pc EXCEPT ![p] = "write"]
    /\ UNCHANGED <<now, pub, dirVars, idx, ims, data, seen, todo, optVars>>

\* No data: the item was not modified, or the answer was empty.
SkipItem(p) ==
    /\ pc[p] = "write"
    /\ data[p][idx[p]] = None
    /\ NextWrite(p)
    /\ UNCHANGED <<now, pub, dirVars, stamp, ims, data, seen, infix, optVars>>

\* writeFile: Mkdir, OpenFile with O_CREATE and O_EXCL, Chmod.
OpenNew(p) ==
    /\ pc[p] = "write"
    /\ LET i == idx[p]
           d == data[p][i]
       IN  /\ d # None
           /\ file[i][infix[p]] = None
           /\ file' = [file EXCEPT ![i][infix[p]] =
                 [ver |-> d.ver, at |-> d.at, mtime |-> now,
                  whole |-> FALSE, by |-> p]]
    /\ pc' = [pc EXCEPT ![p] = "fill"]
    /\ UNCHANGED <<now, pub, link, plain, tmp, stamp, idx, ims, data, seen,
                   infix, todo, optVars>>

\* writeFile fails before the file is open: the directory cannot be made, the
\* name exists already, the file system refuses.
OpenFails(p) ==
    /\ pc[p] = "write"
    /\ data[p][idx[p]] # None
    /\ pc' = [pc EXCEPT ![p] = "clean"]
    /\ UNCHANGED <<now, pub, dirVars, stamp, idx, ims, data, seen, infix, todo,
                   optVars>>

\* writeFile: Write.  The open file may have lost its name meanwhile (then no
\* name changes), or have been renamed by a process with the same infix.
WriteAll(p) ==
    /\ pc[p] = "fill"
    /\ file' = [file EXCEPT ![idx[p]][infix[p]] = Close(@, p, TRUE)]
    /\ plain' = [plain EXCEPT ![idx[p]] = Close(@, p, TRUE)]
    /\ NextWrite(p)
    /\ UNCHANGED <<now, pub, link, tmp, stamp, ims, data, seen, infix, optVars>>

\* Mutant of WriteFails: the error of Write is dropped.
WriteErrorDropped(p) ==
    /\ pc[p] = "fill"
    /\ file' = [file EXCEPT ![idx[p]][infix[p]] = Close(@, p, FALSE)]
    /\ plain' = [plain EXCEPT ![idx[p]] = Close(@, p, FALSE)]
    /\ NextWrite(p)
    /\ UNCHANGED <<now, pub, link, tmp, stamp, ims, data, seen, infix, optVars>>

\* writeFile: Chmod fails, or Write is cut short.
WriteFails(p) ==
    /\ pc[p] = "fill"
    /\ file' = [file EXCEPT ![idx[p]][infix[p]] = Close(@, p, FALSE)]
    /\ plain' = [plain EXCEPT ![idx[p]] = Close(@, p, FALSE)]
    /\ pc' = [pc EXCEPT ![p] = "clean"]
    /\ UNCHANGED <<now, pub, link, tmp, stamp, idx, ims, data, seen, infix, todo,
                   optVars>>

\* Mutant of Cleanup: all infixed files of the item are removed.
CleanupAll(p) ==
    /\ pc[p] = "clean"
    /\ file' = [file EXCEPT ![idx[p]] = [t \in Time |-> None]]
    /\ Return(p)
    /\ UNCHANGED <<now, pub, link, plain, tmp, stamp>>

\* The best-effort os.Remove of the infixed name, whoever made that file.
Cleanup(p) ==
    /\ pc[p] = "clean"
    /\ file' = [file EXCEPT ![idx[p]][infix[p]] = None]
    /\ Return(p)
    /\ UNCHANGED <<now, pub, link, plain, tmp, stamp>>

-----------------------------------------------------------------------------
\* The install loop, over a Go map: in any order.

\* Mutant of RemoveTmp: a temporary link that exists already is used as it is.
ReuseTmp(p) ==
    /\ pc[p] = "link"
    /\ sym[p]
    /\ \E i \in todo[p] :
          /\ idx' = [idx EXCEPT ![p] = i]
          /\ pc' = [pc EXCEPT ![p] = IF tmp[i] = None THEN "symlink" ELSE "rename"]
    /\ UNCHANGED <<now, pub, dirVars, stamp, ims, data, seen, infix, todo, optVars>>

\* Mutant of RemoveTmp: the name itself is removed before it is made again.
RemoveName(p) ==
    /\ pc[p] = "link"
    /\ sym[p]
    /\ \E i \in todo[p] :
          /\ idx' = [idx EXCEPT ![p] = i]
          /\ tmp' = [tmp EXCEPT ![i] = None]
          /\ link' = [link EXCEPT ![i] = None]
    /\ pc' = [pc EXCEPT ![p] = "symlink"]
    /\ UNCHANGED <<now, pub, file, plain, stamp, ims, data, seen, infix, todo,
                   optVars>>

\* replaceSymlink: os.Remove(tmp).
RemoveTmp(p) ==
    /\ pc[p] = "link"
    /\ sym[p]
    /\ \E i \in todo[p] :
          /\ idx' = [idx EXCEPT ![p] = i]
          /\ tmp' = [tmp EXCEPT ![i] = None]
    /\ pc' = [pc EXCEPT ![p] = "symlink"]
    /\ UNCHANGED <<now, pub, file, link, plain, stamp, ims, data, seen, infix,
                   todo, optVars>>

\* replaceSymlink: os.Symlink, which refuses an existing name.
MkSymlink(p) ==
    /\ pc[p] = "symlink"
    /\ tmp[idx[p]] = None
    /\ tmp' = [tmp EXCEPT ![idx[p]] = infix[p]]
    /\ pc' = [pc EXCEPT ![p] = "rename"]
    /\ UNCHANGED <<now, pub, file, link, plain, stamp, idx, ims, data, seen,
                   infix, todo, optVars>>

\* replaceSymlink: os.Rename(tmp, name) replaces a symlink or a file.
RenameTmp(p) ==
    /\ pc[p] = "rename"
    /\ LET i == idx[p] IN
         /\ tmp[i] # None
         /\ link' = [link EXCEPT ![i] = tmp[i]]
         /\ plain' = [plain EXCEPT ![i] = None]
         /\ tmp' = [tmp EXCEPT ![i] = None]
         /\ Installed(p, i)
    /\ UNCHANGED <<now, pub, file, stamp, ims, data, seen, infix, optVars>>

\* Without symlinks: os.Rename(infixed, name).
RenamePlain(p) ==
    /\ pc[p] = "link"
    /\ ~sym[p]
    /\ \E i \in todo[p] :
          /\ file[i][infix[p]] # None
          /\ plain' = [plain EXCEPT ![i] = file[i][infix[p]]]
          /\ link' = [link EXCEPT ![i] = None]
          /\ file' = [file EXCEPT ![i][infix[p]] = None]
          /\ Installed(p, i)
    /\ UNCHANGED <<now, pub, tmp, stamp, ims, data, seen, infix, optVars>>

\* Mutant of InstallFails: the error is dropped and the loop goes on.
InstallErrorDropped(p) ==
    /\ \/ pc[p] \in {"symlink", "rename"}
       \/ pc[p] = "link" /\ ~sym[p] /\ todo[p] # {}
    /\ \E i \in todo[p] : Installed(p, i)
    /\ UNCHANGED <<now, pub, dirVars, stamp, ims, data, seen, infix, optVars>>

\* A rename or symlink call fails: the name is taken or missing, or the file
\* system refuses.  What was installed so far stays, nothing is cleaned up.
InstallFails(p) ==
    /\ \/ pc[p] \in {"symlink", "rename"}
       \/ pc[p] = "link" /\ ~sym[p] /\ todo[p] # {}
    /\ Return(p)
    /\ UNCHANGED <<now, pub, dirVars, stamp>>

InstallDone(p) ==
    /\ pc[p] = "link"
    /\ todo[p] = {}
    /\ pc' = [pc EXCEPT ![p] = "hook"]
    /\ UNCHANGED <<now, pub, dirVars, stamp, idx, ims, data, seen, infix, todo,
                   optVars>>

\* The hook runs, if there is one, and Execute returns its status.
Hook(p) ==
    /\ pc[p] = "hook"
    /\ Return(p)
    /\ UNCHANGED <<now, pub, dirVars, stamp>>

\* The process is killed: what it has written stays, open files are closed.  A
\* power loss is more than that, as writeFile does not sync.
Crash(p) ==
    /\ pc[p] # "idle"
    /\ IF pc[p] = "fill"
         THEN /\ file' = [file EXCEPT ![idx[p]][infix[p]] = Close(@, p, FALSE)]
              /\ plain' = [plain EXCEPT ![idx[p]] = Close(@, p, FALSE)]
         ELSE UNCHANGED <<file, plain>>
    /\ Return(p)
    /\ UNCHANGED <<now, pub, link, tmp, stamp>>

-----------------------------------------------------------------------------
\* The environment.

\* The Last-Modified of the next version: that of a new file, which is taken to be
\* written anew and not copied with an older date, or of the same certificate with
\* another key or chain.
Dates(i) ==
    {now - Lead} \cup (IF i \in Made THEN {pub[i][Current(i)].date} ELSE {})

\* The server's ACME client replaces the files of the domain one by one: no
\* file is replaced again before all files are of the same generation.  Each file
\* of a bundle that is replaced makes another version of it.
Renew(i) ==
    /\ Current(i) < MaxVer
    /\ \A j \in Item : Current(j) >= Current(i)
    /\ \E d \in Dates(i) : pub' = [pub EXCEPT ![i] = Append(@, [at |-> now, date |-> d])]
    /\ UNCHANGED <<now, dirVars, stamp, pc, idx, ims, data, seen, infix, todo,
                   optVars>>

Tick ==
    /\ now < MaxTime
    /\ now' = now + 1
    /\ UNCHANGED <<pub, dirVars, stamp, pc, idx, ims, data, seen, infix, todo,
                   optVars>>

Fetch(p) == \/ Start(p) \/ Stat(p) \/ Get200(p) \/ Get304(p) \/ GetEmpty(p)
            \/ GetFail(p)
Write(p) == \/ TakeInfix(p) \/ SkipItem(p) \/ OpenNew(p) \/ OpenFails(p)
            \/ WriteAll(p) \/ WriteFails(p) \/ Cleanup(p)
Install(p) == \/ RemoveTmp(p) \/ MkSymlink(p) \/ RenameTmp(p) \/ RenamePlain(p)
              \/ InstallFails(p) \/ InstallDone(p)

Next ==
    \/ \E p \in Proc : Fetch(p) \/ Write(p) \/ Install(p) \/ Hook(p) \/ Crash(p)
    \/ \E i \in Item : Renew(i)
    \/ Tick

Spec == Init /\ [][Next]_vars

-----------------------------------------------------------------------------
\* Properties.

Published(f, i) == f # None /\ f.whole /\ f.ver \in 1..Current(i)

\* Whatever name a reader opens, it gets one complete artifact that the server
\* has published: never a dangling link (installation follows the write, and
\* no cleanup hits a file in use), never a file that is still being written.
\* About the write, cleanup and install loops of Execute.
ExposedComplete ==
    \A i \in Item :
       /\ link[i] # None => Published(file[i][link[i]], i)
       /\ plain[i] # None => Published(plain[i], i)

\* A file that is linked to, or that no running Execute has named, is never
\* touched again: readers of an old version keep it, and "the previous version
\* stays on disk" (man/cert-proxy.7.md:115).
KeepsOldFiles ==
    [][\A i \in Item, t \in Time :
          /\ file[i][t] # None
          /\ link[i] = t \/ \A p \in Proc : infix[p] # t
          => file'[i][t] = file[i][t]]_vars

\* Why a client that has written f for item i may be told that it is not modified
\* when the server has version v: the next version came between the second f was
\* fetched and the second it was written, as the server's clock sees it; or the
\* bundle is still made of the same certificate.
HiddenFrom(f, i, v) ==
    \/ pub[i][f.ver + 1].at \in f.at..(f.mtime + Lead)
    \/ i \in Made /\ pub[i][v].date = pub[i][f.ver].date

\* When p calls the hook, each name for which the server had an answer gives at
\* least the version the server had then, but for those that are hidden.
FreshAtHook(p) ==
    pc[p] = "hook" =>
       \A i \in Item : seen[p][i] # None =>
          LET f == Resolve(i) IN
            /\ f # None
            /\ f.ver >= seen[p][i] \/ HiddenFrom(f, i, seen[p][i])

\* Every run that gets as far as its hook leaves the names up to date with the
\* answers it got, with three exceptions: a renewal between a fetch and the write;
\* one within the time by which the client's clock is ahead; and a bundle of which
\* only the key or the chain was replaced.  (That files on the server are written
\* anew, see Dates, is assumed.)  Nothing an earlier run has left behind
\* hides a version from a later one.  About the use of the file's own modification
\* time as if-modified-since (cert.go:193), about the date of a bundle
\* (pkcs12.go:54), and about empty answers, which must not pass for a version.
SuccessIsFresh == \A p \in Proc : FreshAtHook(p)

\* A forced run for which the server had the same generation of all items
\* leaves matching files.
MatchesAtHook(p) ==
    \A g \in Version :
       /\ pc[p] = "hook"
       /\ force[p]
       /\ \A i \in Item : seen[p][i] = g
       => \A i \in Item : Resolve(i) # None /\ Resolve(i).ver = g

\* An exposed name as the abstract specification sees it: 0 when there is none,
\* a version no one published when what is exposed is not a whole file.
ExposedVersion(i) ==
    IF link[i] = None /\ plain[i] = None THEN 0
    ELSE IF Resolve(i) # None /\ Resolve(i).whole THEN Resolve(i).ver
    ELSE MaxVer + 1

Store == INSTANCE CertStore WITH
    Names <- Item,
    Ordered <- FALSE,
    published <- [i \in Item |-> Current(i)],
    exposed <- [i \in Item |-> ExposedVersion(i)]

OrderedStore == INSTANCE CertStore WITH
    Names <- Item,
    Ordered <- TRUE,
    published <- [i \in Item |-> Current(i)],
    exposed <- [i \in Item |-> ExposedVersion(i)]

\* With any number of processes the directory is a store of published versions.
RefinesStore == Store!Spec

\* With one process at a time it also never goes back to an older version,
\* even after crashes that leave a temporary link or half a request behind.
RefinesOrderedStore == OrderedStore!Spec

\* "a client that already holds a current copy receives 304 Not Modified"
\* (man/cert-proxy.7.md:89-90), and so only such a client: a request that will
\* be answered 304 comes from a client that holds the current version.  A version
\* published in the very second the client wrote its file, which HTTP dates
\* cannot tell apart, is excused.
NotModifiedMeansCurrent ==
    \A p \in Proc :
       LET i == idx[p] IN
         /\ pc[p] = "get"
         /\ NotModified(i, ims[p])
         /\ pub[i][Current(i)].date # ims[p]
         => Resolve(i).ver = Current(i)

=============================================================================
