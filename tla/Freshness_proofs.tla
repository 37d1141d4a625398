-------------------------- MODULE Freshness_proofs --------------------------
(***************************************************************************)
(* Proofs about the versions that Execute leaves behind, for one client at *)
(* a time.  The invariant of a run does not depend on what other runs left *)
(* in the directory, so that it serves Housekeeping, too, where files that *)
(* are linked to disappear between two runs.                               *)
(***************************************************************************)
EXTENDS Execute_proofs

-----------------------------------------------------------------------------
\* The dates of what is there.

\* The versions of an item were published one after the other.
PubSorted ==
    \A i \in Item :
       /\ \A j, k \in 1..Current(i) : j <= k => pub[i][j].at <= pub[i][k].at
       /\ \A k \in 1..Current(i) : pub[i][k].at <= now

\* What the date of a version says about an earlier one: it is the same, that of
\* the certificate in both bundles, or the version after the earlier one was there
\* by then.
DatesKept ==
    \A i \in Item : \A j, k \in 1..Current(i) :
       j < k => \/ i \in Made /\ pub[i][k].date = pub[i][j].date
                \/ pub[i][j + 1].at - Lead <= pub[i][k].date

\* A body of item i, written to a file or not, was fetched before the version
\* after it was published.
Dated(b, i) ==
    /\ b.ver \in 1..Current(i)
    /\ b.at <= now
    /\ b.ver < Current(i) => b.at <= pub[i][b.ver + 1].at

\* So were the files, and they were written no later than now.
FilesDated ==
    /\ \A i \in Item, t \in Time :
          file[i][t] # None => Dated(file[i][t], i) /\ file[i][t].mtime <= now
    /\ \A i \in Item : plain[i] # None => Dated(plain[i], i) /\ plain[i].mtime <= now

\* So was what is held in memory.
DataDated == \A p \in Proc, i \in Item : data[p][i] # None => Dated(data[p][i], i)

\* No link has an infix that is yet to come.
LinksOld ==
    \A i \in Item : /\ link[i] # None => link[i] <= stamp
                    /\ tmp[i] # None => tmp[i] <= stamp

\* All of it: what any run may rely on.
History ==
    /\ PubSorted /\ DatesKept /\ FilesDated /\ DataDated
    /\ InfixTaken /\ NamesOld /\ LinksOld

-----------------------------------------------------------------------------
\* The invariant of one run.

\* What is fetched is fetched in the order of the items.
Unfetched(p) ==
    /\ pc[p] \in {"idle", "infix"} => idx[p] = 1
    /\ pc[p] \in {"idle", "stat", "get"} =>
          \A i \in Item : i >= idx[p] => data[p][i] = None /\ seen[p][i] = None

\* The header is the modification time of what is exposed.
HeaderIsMtime(p) ==
    pc[p] = "get" /\ ims[p] # None =>
       Resolve(idx[p]) # None /\ ims[p] = Resolve(idx[p]).mtime

\* What is exposed for i is as new as v, or looks as if.
FreshItem(i, v) ==
    /\ Resolve(i) # None
    /\ \/ Resolve(i).ver >= v
       \/ HiddenFrom(Resolve(i), i, v)

\* What the server answered, and what that says about what is exposed.
Answered(p) ==
    \A i \in Item :
       /\ data[p][i] # None =>
             /\ seen[p][i] = data[p][i].ver
             /\ Resolve(i) # None => Resolve(i).ver <= data[p][i].ver
       /\ data[p][i] = None /\ seen[p][i] # None =>
             seen[p][i] <= Current(i) /\ FreshItem(i, seen[p][i])

\* The files with the infix of p are those p has written from its data.
OwnFiles(p) ==
    pc[p] \in Named =>
       \A i \in Item : file[i][infix[p]] # None =>
          data[p][i] # None /\ file[i][infix[p]].ver = data[p][i].ver

\* Every item with data has its file, from the write to the installation.
ToInstall(p) ==
    /\ pc[p] \in {"write", "fill"} =>
          \A i \in Item : i < idx[p] /\ data[p][i] # None => file[i][infix[p]] # None
    /\ pc[p] = "fill" => file[idx[p]][infix[p]] # None
    /\ pc[p] \in Installing => \A i \in todo[p] : file[i][infix[p]] # None
    /\ pc[p] \in {"symlink", "rename"} => sym[p] /\ idx[p] \in todo[p]
    /\ pc[p] = "rename" => tmp[idx[p]] = infix[p]
    /\ pc[p] = "hook" => todo[p] = {}

\* What has been installed is exposed.
NowExposed(p) ==
    pc[p] \in Installing \cup {"hook"} =>
       \A i \in Item : data[p][i] # None /\ i \notin todo[p] =>
          Resolve(i) # None /\ Resolve(i).ver = data[p][i].ver

\* A forced run gets data or nothing.
ForcedData(p) ==
    force[p] => /\ pc[p] = "get" => ims[p] = None
                /\ \A i \in Item : seen[p][i] # None => data[p][i] # None

\* The invariant of the run p.
RunInv(p) ==
    /\ Unfetched(p) /\ HeaderIsMtime(p) /\ Answered(p) /\ Unlinked(p)
    /\ OwnFiles(p) /\ ToInstall(p) /\ NowExposed(p) /\ ForcedData(p)

-----------------------------------------------------------------------------
\* Facts about the directory.

\* A running process that has an infix has a time.
LEMMA InfixIsTime == ASSUME TypeOK, NEW p \in Proc, pc[p] \in Named PROVE infix[p] \in Time
  BY DEF TypeOK, ProcOK, NamedOK

\* What closing a file leaves alone.
LEMMA CloseKeeps ==
    ASSUME TypeOK, NEW f \in File \cup {None}, NEW p \in Proc, NEW c \in BOOLEAN
    PROVE  /\ Close(f, p, c) = None <=> f = None
           /\ f # None => /\ Close(f, p, c).ver = f.ver
                          /\ Close(f, p, c).at = f.at
                          /\ Close(f, p, c).mtime \in {f.mtime, now}
<1>1. CASE f = None
  BY <1>1 DEF Close
<1>2. CASE f # None
  <2>1. f \in File
    BY <1>2
  <2>2. Close(f, p, c) \in File
    BY <2>1, NoneAssumption DEF Close, File, TypeOK, EnvOK
  <2>3. /\ Close(f, p, c).ver = f.ver
        /\ Close(f, p, c).at = f.at
        /\ Close(f, p, c).mtime \in {f.mtime, now}
    BY <2>1 DEF Close, File
  <2>4. QED
    BY <1>2, <2>2, <2>3, NoRecordAssumption
<1>3. QED
  BY <1>1, <1>2

\* What a reader gets is a file or nothing.
LEMMA ResolveType ==
    ASSUME TypeOK, NEW i \in Item
    PROVE  Resolve(i) \in File \cup {None}
  BY DEF Resolve, TypeOK, DirOK

\* And it has the dates of a file.
LEMMA ResolveDated ==
    ASSUME TypeOK, FilesDated, NEW i \in Item, Resolve(i) # None
    PROVE  Dated(Resolve(i), i) /\ Resolve(i).mtime <= now
<1>1. CASE link[i] # None
  <2>1. link[i] \in Time
    BY <1>1 DEF TypeOK, DirOK
  <2>2. QED
    BY <1>1, <2>1 DEF Resolve, FilesDated
<1>2. CASE link[i] = None
  BY <1>2 DEF Resolve, FilesDated
<1>3. QED
  BY <1>1, <1>2

-----------------------------------------------------------------------------
\* History: the steps of a process.

\* What every step of p but TakeInfix respects.
Recorded(p) ==
    /\ UNCHANGED <<now, pub, stamp>>
    /\ \A q \in Proc : infix'[q] \in {infix[q], None}
    /\ \A i \in Item, t \in Time : file'[i][t] # None =>
          /\ Dated(file'[i][t], i) /\ file'[i][t].mtime <= now
          /\ file[i][t] # None \/ t = infix[p]
    /\ \A i \in Item : plain'[i] # None => Dated(plain'[i], i) /\ plain'[i].mtime <= now
    /\ \A i \in Item : /\ link'[i] \in {link[i], tmp[i], None}
                       /\ tmp'[i] \in {tmp[i], infix[p], None}
    /\ \A q \in Proc, i \in Item : data'[q][i] # None => Dated(data'[q][i], i)

\* The dates stay in order.
LEMMA RecordedHistory ==
    ASSUME TypeOK, TypeOK', History, NEW p \in Proc, Recorded(p)
    PROVE  History'
<1>2. PubSorted' /\ DatesKept'
  BY DEF History, PubSorted, DatesKept, Recorded, Current
<1>3. FilesDated' /\ DataDated'
  <2>1. ASSUME NEW i \in Item, NEW t \in Time, file'[i][t] # None
        PROVE  Dated(file[i][t], i)' /\ (file[i][t].mtime <= now)'
    BY <2>1 DEF Recorded, Dated, Current
  <2>2. ASSUME NEW i \in Item, plain'[i] # None
        PROVE  Dated(plain[i], i)' /\ (plain[i].mtime <= now)'
    BY <2>2 DEF Recorded, Dated, Current
  <2>3. ASSUME NEW q \in Proc, NEW i \in Item, data'[q][i] # None
        PROVE  Dated(data[q][i], i)'
    BY <2>3 DEF Recorded, Dated, Current
  <2>4. QED
    BY <2>1, <2>2, <2>3 DEF FilesDated, DataDated
<1>4. InfixTaken'
  BY DEF History, InfixTaken, Recorded, TypeOK, NamedOK
<1>5. infix[p] # None => infix[p] \in Nat /\ infix[p] <= stamp
  BY DEF History, InfixTaken, TypeOK, NamedOK, ProcOK, Time
<1>6. NamesOld'
  <2> SUFFICES ASSUME NEW i \in Item, NEW t \in Time, file'[i][t] # None
               PROVE  t <= stamp
    BY DEF NamesOld, Recorded
  <2>1. file[i][t] # None \/ (t = infix[p] /\ infix[p] # None)
    BY NoneAssumption DEF Recorded, Time
  <2>2. QED
    BY <1>5, <2>1 DEF History, NamesOld
<1>7. LinksOld'
  BY <1>5 DEF History, LinksOld, Recorded
<1>8. QED
  BY <1>2, <1>3, <1>4, <1>6, <1>7 DEF History

\* Execute returns without a trace.
LEMMA ReturnForgets ==
    ASSUME TypeOK, NEW p \in Proc, Return(p)
    PROVE  /\ \A q \in Proc : infix'[q] \in {infix[q], None}
           /\ \A q \in Proc, i \in Item : data'[q][i] \in {data[q][i], None}
           /\ \A i \in Item : data'[p][i] = None /\ seen'[p][i] = None
           /\ pc'[p] = "idle" /\ idx'[p] = 1
  BY DEF Return, TypeOK, ProcOK

\* The files are as they were.
LEMMA SameDates ==
    ASSUME History, UNCHANGED <<file, plain>>
    PROVE  /\ \A i \in Item, t \in Time : file'[i][t] # None =>
                 /\ Dated(file'[i][t], i) /\ file'[i][t].mtime <= now
                 /\ file[i][t] # None
           /\ \A i \in Item :
                 plain'[i] # None => Dated(plain'[i], i) /\ plain'[i].mtime <= now
  BY DEF History, FilesDated

\* Closed files keep their dates, or get the one of their last write.
LEMMA ClosesDates ==
    ASSUME TypeOK, History, NEW p \in Proc, NEW c \in BOOLEAN, pc[p] = "fill", Closes(p, c)
    PROVE  /\ \A i \in Item, t \in Time :
                 /\ file'[i][t] = None <=> file[i][t] = None
                 /\ file'[i][t] # None => /\ Dated(file'[i][t], i)
                                          /\ file'[i][t].mtime <= now
                                          /\ file'[i][t].ver = file[i][t].ver
                 /\ t # infix[p] => file'[i][t] = file[i][t]
           /\ \A i \in Item :
                 /\ plain'[i] = None <=> plain[i] = None
                 /\ plain'[i] # None => /\ Dated(plain'[i], i)
                                        /\ plain'[i].mtime <= now
                                        /\ plain'[i].mtime >= plain[i].mtime
                                        /\ plain'[i].ver = plain[i].ver
                                        /\ plain'[i].at = plain[i].at
<1> DEFINE k == idx[p]
           u == infix[p]
<1>1. k \in Item /\ u \in Time /\ now \in Nat
  BY InfixIsTime DEF Named, TypeOK, ProcOK, EnvOK, Time
<1>2. /\ file' = [file EXCEPT ![k][u] = Close(file[k][u], p, c)]
      /\ plain' = [plain EXCEPT ![k] = Close(plain[k], p, c)]
  BY DEF Closes
<1>3. /\ file'[k][u] = Close(file[k][u], p, c)
      /\ \A j \in Item, t \in Time : j # k \/ t # u => file'[j][t] = file[j][t]
  <2> DEFINE v == Close(file[k][u], p, c)
  <2>1. k \in Item /\ u \in Time /\ file' = [file EXCEPT ![k][u] = v]
    BY <1>1, <1>2
  <2> HIDE DEF k, u, v
  <2>2. /\ file'[k][u] = v
        /\ \A j \in Item, t \in Time : j # k \/ t # u => file'[j][t] = file[j][t]
    BY <2>1 DEF TypeOK, DirOK
  <2>3. QED
    BY <2>2 DEF v
<1>4. /\ plain'[k] = Close(plain[k], p, c)
      /\ \A j \in Item \ {k} : plain'[j] = plain[j]
  BY <1>1, <1>2 DEF TypeOK, DirOK
<1>5. file[k][u] \in File \cup {None} /\ plain[k] \in File \cup {None}
  BY <1>1 DEF TypeOK, DirOK
<1> HIDE DEF k, u
<1>6. /\ file'[k][u] = None <=> file[k][u] = None
      /\ file[k][u] # None => /\ file'[k][u].ver = file[k][u].ver
                              /\ file'[k][u].at = file[k][u].at
                              /\ file'[k][u].mtime \in {file[k][u].mtime, now}
  BY <1>3, <1>5, CloseKeeps
<1>7. /\ plain'[k] = None <=> plain[k] = None
      /\ plain[k] # None => /\ plain'[k].ver = plain[k].ver
                            /\ plain'[k].at = plain[k].at
                            /\ plain'[k].mtime \in {plain[k].mtime, now}
  BY <1>4, <1>5, CloseKeeps
<1>8. ASSUME NEW i \in Item, NEW t \in Time
      PROVE  /\ file'[i][t] = None <=> file[i][t] = None
             /\ file'[i][t] # None => /\ Dated(file'[i][t], i)
                                      /\ file'[i][t].mtime <= now
                                      /\ file'[i][t].ver = file[i][t].ver
             /\ t # u => file'[i][t] = file[i][t]
  <2>1. CASE i = k /\ t = u
    BY <1>1, <1>6, <2>1 DEF History, FilesDated, Dated
  <2>2. CASE i # k \/ t # u
    BY <1>3, <2>2 DEF History, FilesDated
  <2>3. QED
    BY <2>1, <2>2
<1>9. ASSUME NEW i \in Item
      PROVE  /\ plain'[i] = None <=> plain[i] = None
             /\ plain'[i] # None => /\ Dated(plain'[i], i)
                                    /\ plain'[i].mtime <= now
                                    /\ plain'[i].mtime >= plain[i].mtime
                                    /\ plain'[i].ver = plain[i].ver
                                    /\ plain'[i].at = plain[i].at
  <2>1. plain[i] # None => plain[i].mtime \in Nat
    BY DEF TypeOK, DirOK, File, Time
  <2>2. CASE i = k
    BY <1>1, <1>7, <2>1, <2>2 DEF History, FilesDated, Dated
  <2>3. CASE i # k
    BY <1>4, <2>1, <2>3 DEF History, FilesDated
  <2>4. QED
    BY <2>2, <2>3
<1>10. QED
  BY <1>8, <1>9 DEF u

\* The steps that leave the files alone.
LEMMA QuietHistory ==
    ASSUME TypeOK, History, NEW p \in Proc,
           \/ Fetch(p) \/ Hook(p) \/ SkipItem(p) \/ OpenFails(p)
           \/ RemoveTmp(p) \/ MkSymlink(p) \/ RenameTmp(p) \/ InstallFails(p) \/ InstallDone(p)
    PROVE  Recorded(p)
<1>1. UNCHANGED <<now, pub, stamp, file>>
  BY DEF Fetch, Start, Stat, Get200, Get304, GetEmpty, GetFail, Hook, SkipItem, OpenFails,
     RemoveTmp, MkSymlink, RenameTmp, InstallFails, InstallDone, dirVars
<1>2. /\ \A i \in Item : plain'[i] \in {plain[i], None}
      /\ \A i \in Item : link'[i] \in {link[i], tmp[i], None}
      /\ \A i \in Item : tmp'[i] \in {tmp[i], infix[p], None}
  <2>1. CASE RemoveTmp(p) \/ MkSymlink(p) \/ RenameTmp(p)
    BY <2>1 DEF RemoveTmp, MkSymlink, RenameTmp, TypeOK, DirOK, ProcOK
  <2>2. CASE UNCHANGED <<link, plain, tmp>>
    BY <2>2
  <2>3. QED
    BY <2>1, <2>2 DEF Fetch, Start, Stat, Get200, Get304, GetEmpty, GetFail, Hook, SkipItem,
       OpenFails, InstallFails, InstallDone, dirVars
<1>3. /\ \A q \in Proc : infix'[q] \in {infix[q], None}
      /\ \A q \in Proc, i \in Item : data'[q][i] # None => Dated(data'[q][i], i)
  <2>1. CASE UNCHANGED <<infix, data>>
    BY <2>1 DEF History, DataDated
  <2>2. CASE Return(p)
    BY <2>2, ReturnForgets DEF History, DataDated
  <2>3. CASE Get200(p)
    <3>1. infix' = infix
      BY <2>3 DEF Get200
    <3>2. data' = [data EXCEPT ![p][idx[p]] = [ver |-> Current(idx[p]), at |-> now]]
      BY <2>3 DEF Get200
    <3>3. now \in Nat /\ idx[p] \in Item /\ Current(idx[p]) \in Nat \ {0}
      BY DEF TypeOK, EnvOK, ProcOK, Time, Version, Current
    <3>4. Dated([ver |-> Current(idx[p]), at |-> now], idx[p])
      BY <3>3 DEF Dated
    <3>5. ASSUME NEW q \in Proc, NEW i \in Item, data'[q][i] # None
          PROVE  Dated(data'[q][i], i)
      <4>1. CASE q = p /\ i = idx[p]
        BY <3>2, <3>4, <4>1 DEF TypeOK, ProcOK
      <4>2. CASE q # p \/ i # idx[p]
        <5>1. data'[q][i] = data[q][i]
          BY <3>2, <3>3, <4>2 DEF TypeOK, ProcOK
        <5>2. QED
          BY <3>5, <5>1 DEF History, DataDated
      <4>3. QED
        BY <4>1, <4>2
    <3>6. QED
      BY <3>1, <3>5
  <2>4. QED
    BY <2>1, <2>2, <2>3 DEF Fetch, Start, Stat, Get304, GetEmpty, GetFail, Hook, SkipItem,
       OpenFails, RemoveTmp, MkSymlink, RenameTmp, InstallFails, InstallDone
<1>4. QED
  BY <1>1, <1>2, <1>3 DEF Recorded, History, FilesDated

\* The steps that write, remove or rename a file.
LEMMA FilesHistory ==
    ASSUME TypeOK, History, NEW p \in Proc,
           \/ OpenNew(p) \/ WriteAll(p) \/ WriteFails(p) \/ Cleanup(p)
           \/ RenamePlain(p) \/ Crash(p)
    PROVE  Recorded(p)
<1>1. UNCHANGED <<now, pub, stamp, tmp>>
  BY DEF OpenNew, WriteAll, WriteFails, Cleanup, RenamePlain, Crash
<1>2. \A i \in Item : link'[i] \in {link[i], None}
  BY DEF OpenNew, WriteAll, WriteFails, Cleanup, RenamePlain, Crash, TypeOK, DirOK
<1>3. /\ \A q \in Proc : infix'[q] \in {infix[q], None}
      /\ \A q \in Proc, i \in Item : data'[q][i] # None => Dated(data'[q][i], i)
  <2>1. CASE UNCHANGED <<infix, data>>
    BY <2>1 DEF History, DataDated
  <2>2. CASE Return(p)
    BY <2>2, ReturnForgets DEF History, DataDated
  <2>3. QED
    BY <2>1, <2>2 DEF OpenNew, WriteAll, WriteFails, Cleanup, RenamePlain, Crash
<1>4. /\ \A i \in Item, t \in Time : file'[i][t] # None =>
           /\ Dated(file'[i][t], i) /\ file'[i][t].mtime <= now
           /\ file[i][t] # None \/ t = infix[p]
      /\ \A i \in Item :
           plain'[i] # None => Dated(plain'[i], i) /\ plain'[i].mtime <= now
  <2>1. CASE OpenNew(p)
    <3> DEFINE k == idx[p]
               u == infix[p]
               f == [ver |-> data[p][k].ver, at |-> data[p][k].at, mtime |-> now,
                     whole |-> FALSE, by |-> p]
    <3>1. k \in Item /\ u \in Time /\ now \in Nat
      BY <2>1, InfixIsTime DEF OpenNew, Named, TypeOK, ProcOK, EnvOK, Time
    <3>2. file' = [file EXCEPT ![k][u] = f] /\ plain' = plain
      BY <2>1 DEF OpenNew
    <3>3. Dated(f, k) /\ f.mtime <= now
      BY <2>1, <3>1 DEF OpenNew, History, DataDated, Dated
    <3> HIDE DEF k, f
    <3>4. u = infix[p]
      OBVIOUS
    <3> HIDE DEF u
    <3>5. /\ file'[k][u] = f
          /\ \A j \in Item, t \in Time : j # k \/ t # u => file'[j][t] = file[j][t]
      BY <3>1, <3>2 DEF TypeOK, DirOK
    <3>6. ASSUME NEW i \in Item, NEW t \in Time, file'[i][t] # None
          PROVE  /\ Dated(file'[i][t], i) /\ file'[i][t].mtime <= now
                 /\ file[i][t] # None \/ t = infix[p]
      <4>1. CASE i = k /\ t = u
        BY <3>3, <3>4, <3>5, <4>1
      <4>2. CASE i # k \/ t # u
        BY <3>5, <3>6, <4>2 DEF History, FilesDated
      <4>3. QED
        BY <4>1, <4>2
    <3>7. QED
      BY <3>2, <3>6 DEF History, FilesDated
  <2>2. CASE pc[p] = "fill" /\ \E c \in BOOLEAN : Closes(p, c)
    BY <2>2, ClosesDates
  <2>3. CASE UNCHANGED <<file, plain>>
    BY <2>3, SameDates
  <2>4. CASE Cleanup(p)
    <3>1. idx[p] \in Item /\ infix[p] \in Time
      BY <2>4, InfixIsTime DEF Cleanup, Named, TypeOK, ProcOK
    <3>2. file' = [file EXCEPT ![idx[p]][infix[p]] = None] /\ plain' = plain
      BY <2>4 DEF Cleanup
    <3>3. \A j \in Item, t \in Time : file'[j][t] \in {file[j][t], None}
      BY <3>1, <3>2 DEF TypeOK, DirOK
    <3>4. QED
      BY <3>2, <3>3 DEF History, FilesDated
  <2>5. CASE RenamePlain(p)
    <3>1. PICK i \in todo[p] :
             /\ file[i][infix[p]] # None
             /\ plain' = [plain EXCEPT ![i] = file[i][infix[p]]]
             /\ file' = [file EXCEPT ![i][infix[p]] = None]
      BY <2>5 DEF RenamePlain
    <3>2. i \in Item /\ infix[p] \in Time
      BY <2>5, InfixIsTime DEF RenamePlain, Named, TypeOK, ProcOK
    <3>3. \A j \in Item, t \in Time : file'[j][t] \in {file[j][t], None}
      BY <3>1, <3>2 DEF TypeOK, DirOK
    <3>4. plain'[i] = file[i][infix[p]] /\ \A j \in Item \ {i} : plain'[j] = plain[j]
      BY <3>1, <3>2 DEF TypeOK, DirOK
    <3>5. QED
      BY <3>1, <3>2, <3>3, <3>4 DEF History, FilesDated
  <2>6. QED
    BY <2>1, <2>2, <2>3, <2>4, <2>5 DEF WriteAll, WriteFails, Crash, Closes
<1>5. QED
  BY <1>1, <1>2, <1>3, <1>4 DEF Recorded

\* A new infix is later than all others.
LEMMA TakeInfixHistory ==
    ASSUME TypeOK, TypeOK', History, NEW p \in Proc, SameSecond = FALSE, TakeInfix(p)
    PROVE  History'
<1>1. /\ now > stamp /\ stamp' = now /\ infix' = [infix EXCEPT ![p] = now]
      /\ pc' = [pc EXCEPT ![p] = "write"]
      /\ UNCHANGED <<now, pub, file, link, plain, tmp, data>>
  BY DEF TakeInfix, dirVars
<1>2. now \in Nat /\ stamp \in Nat
  BY DEF TypeOK, EnvOK, Time
<1>3. PubSorted' /\ DatesKept'
  BY <1>1 DEF History, PubSorted, DatesKept, Current
<1>4. FilesDated' /\ DataDated'
  BY <1>1 DEF History, FilesDated, DataDated, Dated, Current
<1>5. InfixTaken'
  <2> SUFFICES ASSUME NEW q \in Proc, pc'[q] \in Named
               PROVE  infix'[q] <= stamp'
    BY DEF InfixTaken
  <2>1. CASE q = p
    BY <1>1, <1>2, <2>1 DEF TypeOK, ProcOK
  <2>2. CASE q # p
    <3>1. pc[q] \in Named /\ infix'[q] = infix[q]
      BY <1>1, <2>2 DEF TypeOK, ProcOK
    <3>2. infix[q] \in Nat /\ infix[q] <= stamp
      BY <3>1, InfixIsTime DEF History, InfixTaken, Time
    <3>3. QED
      BY <1>1, <1>2, <3>1, <3>2
  <2>3. QED
    BY <2>1, <2>2
<1>6. NamesOld'
  BY <1>1, <1>2 DEF History, NamesOld, Time
<1>7. LinksOld'
  BY <1>1, <1>2 DEF History, LinksOld, TypeOK, DirOK, Time
<1>8. QED
  BY <1>3, <1>4, <1>5, <1>6, <1>7 DEF History

-----------------------------------------------------------------------------
\* History: the environment.

\* Time passes, and a version may be published.
Later ==
    /\ UNCHANGED <<file, link, plain, tmp, stamp, pc, idx, ims, data, seen, infix, todo,
                   force, sym>>
    /\ now \in Nat /\ now' \in Nat /\ now <= now'
    /\ \A i \in Item :
          /\ Current(i) \in Nat /\ Current(i)' \in {Current(i), Current(i) + 1}
          /\ \A k \in 1..Current(i) : pub'[i][k] = pub[i][k]
          /\ Current(i)' = Current(i) + 1 =>
                pub'[i][Current(i)'].at = now /\ pub'[i][Current(i)'].date \in Dates(i)

\* The numbers of the versions.
LEMMA PubNumbers ==
    ASSUME TypeOK, NEW i \in Item
    PROVE  /\ Current(i) \in Nat \ {0}
           /\ \A k \in 1..Current(i) : pub[i][k].at \in Nat /\ pub[i][k].date \in Int
<1>1. pub[i] \in Seq(Publication) /\ Len(pub[i]) \in Nat \ {0}
  BY DEF TypeOK, EnvOK, Version
<1>2. \A k \in 1..Len(pub[i]) : pub[i][k] \in Publication
  BY <1>1
<1>3. QED
  BY <1>1, <1>2 DEF Current, Publication, Time

\* That is all the environment does.
LEMMA EnvIsLater ==
    ASSUME TypeOK, TypeOK', (\E i \in Item : Renew(i)) \/ Tick \/ UNCHANGED vars
    PROVE  Later
<1>1. UNCHANGED <<file, link, plain, tmp, stamp, pc, idx, ims, data, seen, infix, todo,
                  force, sym>>
  BY DEF Renew, Tick, vars, dirVars, optVars
<1>2. now \in Nat /\ now' \in Nat /\ now <= now'
  BY DEF Renew, Tick, vars, TypeOK, EnvOK, Time
<1>3. ASSUME NEW i \in Item
      PROVE  /\ Current(i) \in Nat /\ Current(i)' \in {Current(i), Current(i) + 1}
             /\ \A k \in 1..Current(i) : pub'[i][k] = pub[i][k]
             /\ Current(i)' = Current(i) + 1 =>
                   pub'[i][Current(i)'].at = now /\ pub'[i][Current(i)'].date \in Dates(i)
  <2>1. Current(i) \in Nat /\ pub[i] \in Seq(Publication)
    BY PubNumbers DEF TypeOK, EnvOK
  <2>2. CASE pub'[i] = pub[i]
    BY <2>1, <2>2 DEF Current
  <2>3. CASE \E k \in Item : Renew(k)
    <3>1. PICK k \in Item : Renew(k)
      BY <2>3
    <3>2. PICK v \in Publication : /\ v.at = now /\ v.date \in Dates(k)
                                   /\ pub' = [pub EXCEPT ![k] = Append(@, v)]
      BY <3>1, RenewShape
    <3>3. CASE k # i
      BY <2>2, <3>2, <3>3 DEF TypeOK, EnvOK
    <3>4. CASE k = i
      <4>1. pub'[i] = Append(pub[i], v)
        BY <3>2, <3>4 DEF TypeOK, EnvOK
      <4>2. /\ Len(pub'[i]) = Len(pub[i]) + 1 /\ pub'[i][Len(pub[i]) + 1] = v
            /\ \A n \in 1..Len(pub[i]) : pub'[i][n] = pub[i][n]
        BY <2>1, <4>1
      <4>3. QED
        BY <2>1, <3>2, <3>4, <4>2 DEF Current
    <3>5. QED
      BY <3>3, <3>4
  <2>4. QED
    BY <2>2, <2>3 DEF Tick, vars
<1>4. QED
  BY <1>1, <1>2, <1>3 DEF Later

\* What was fetched stays fetched before the next version.
LEMMA LaterDated ==
    ASSUME TypeOK, Later, NEW i \in Item, NEW b, Dated(b, i), b.at \in Nat
    PROVE  /\ b.ver \in 1..Current(i)'
           /\ b.at <= now'
           /\ b.ver < Current(i)' => b.at <= pub'[i][b.ver + 1].at
<1>1. /\ now \in Nat /\ now' \in Nat /\ now <= now'
      /\ Current(i) \in Nat /\ Current(i)' \in {Current(i), Current(i) + 1}
      /\ \A k \in 1..Current(i) : pub'[i][k] = pub[i][k]
      /\ Current(i)' = Current(i) + 1 => pub'[i][Current(i)'].at = now
  BY DEF Later
<1>2. /\ b.ver \in 1..Current(i) /\ b.at <= now
      /\ b.ver < Current(i) => b.at <= pub[i][b.ver + 1].at
  BY DEF Dated
<1>3. CASE b.ver < Current(i)
  <2>1. b.ver + 1 \in 1..Current(i)
    BY <1>1, <1>2, <1>3
  <2>2. QED
    BY <1>1, <1>2, <1>3, <2>1
<1>4. CASE b.ver = Current(i)
  BY <1>1, <1>2, <1>4
<1>5. QED
  BY <1>1, <1>2, <1>3, <1>4

\* The environment keeps the dates in order.
LEMMA LaterHistory == ASSUME TypeOK, TypeOK', History, Later PROVE History'
<1>1. UNCHANGED <<file, link, plain, tmp, stamp, pc, data, infix>>
  BY DEF Later
<1>2. now \in Nat /\ now' \in Nat /\ now <= now'
  BY DEF Later
<1>0. ASSUME NEW i \in Item
      PROVE  /\ Current(i) \in Nat \ {0} /\ Current(i)' \in {Current(i), Current(i) + 1}
             /\ \A k \in 1..Current(i) : /\ pub'[i][k] = pub[i][k]
                                         /\ pub[i][k].at \in Nat /\ pub[i][k].date \in Int
             /\ Current(i)' = Current(i) + 1 =>
                   pub'[i][Current(i)'].at = now /\ pub'[i][Current(i)'].date \in Dates(i)
             /\ \A k \in 1..Current(i)' :
                   k \in 1..Current(i) \/ (k = Current(i) + 1 /\ Current(i)' = Current(i) + 1)
  <2>1. Current(i) \in Nat \ {0} /\ Current(i)' \in {Current(i), Current(i) + 1}
    BY PubNumbers DEF Later
  <2>2. QED
    BY <2>1, PubNumbers DEF Later
<1>3. PubSorted'
  <2> SUFFICES ASSUME NEW i \in Item
               PROVE  /\ \A j, k \in 1..Current(i)' : j <= k => pub'[i][j].at <= pub'[i][k].at
                      /\ \A k \in 1..Current(i)' : pub'[i][k].at <= now'
    BY DEF PubSorted
  <2>1. /\ \A j, k \in 1..Current(i) : j <= k => pub[i][j].at <= pub[i][k].at
        /\ \A k \in 1..Current(i) : pub[i][k].at <= now
    BY DEF History, PubSorted
  <2>2. \A k \in 1..Current(i)' : pub'[i][k].at <= now /\ pub'[i][k].at \in Nat
    BY <1>0, <1>2, <2>1
  <2>3. ASSUME NEW j \in 1..Current(i)', NEW k \in 1..Current(i)', j <= k
        PROVE  pub'[i][j].at <= pub'[i][k].at
    <3>1. CASE k \in 1..Current(i)
      <4>1. j \in 1..Current(i)
        BY <1>0, <2>3, <3>1
      <4>2. QED
        BY <1>0, <2>1, <2>3, <3>1, <4>1
    <3>2. CASE k = Current(i) + 1 /\ Current(i)' = Current(i) + 1
      BY <1>0, <2>2, <3>2
    <3>3. QED
      BY <1>0, <3>1, <3>2
  <2>4. QED
    BY <1>2, <2>2, <2>3
<1>8. DatesKept'
  <2> SUFFICES ASSUME NEW i \in Item, NEW j \in 1..Current(i)', NEW k \in 1..Current(i)',
                      j < k
               PROVE  \/ i \in Made /\ pub'[i][k].date = pub'[i][j].date
                      \/ pub'[i][j + 1].at - Lead <= pub'[i][k].date
    BY DEF DatesKept
  <2>1. j \in 1..Current(i) /\ pub'[i][j] = pub[i][j]
    BY <1>0
  <2>2. CASE k \in 1..Current(i)
    <3>1. j + 1 \in 1..Current(i)
      BY <1>0, <2>1, <2>2
    <3>2. QED
      BY <1>0, <2>1, <2>2, <3>1 DEF History, DatesKept
  <2>3. CASE k = Current(i) + 1 /\ Current(i)' = Current(i) + 1
    <3>1. j + 1 \in 1..Current(i)' /\ pub'[i][j + 1].at \in Nat /\ pub'[i][j + 1].at <= now
      <4>1. j + 1 \in 1..Current(i)'
        BY <1>0, <2>1, <2>3
      <4>2. CASE j + 1 \in 1..Current(i)
        BY <1>0, <4>1, <4>2 DEF History, PubSorted
      <4>3. CASE j + 1 = Current(i) + 1
        BY <1>0, <1>2, <2>3, <4>1, <4>3
      <4>4. QED
        BY <1>0, <4>1, <4>2, <4>3
    <3>2. CASE pub'[i][k].date = now - Lead
      BY <1>2, <3>1, <3>2, LeadAssumption
    <3>3. CASE i \in Made /\ pub'[i][k].date = pub[i][Current(i)].date
      <4>1. CASE j = Current(i)
        BY <2>1, <3>3, <4>1
      <4>2. CASE j < Current(i)
        <5>1. j + 1 \in 1..Current(i) /\ Current(i) \in 1..Current(i)
          BY <1>0, <2>1, <4>2
        <5>2. \/ pub[i][Current(i)].date = pub[i][j].date
              \/ pub[i][j + 1].at - Lead <= pub[i][Current(i)].date
          BY <2>1, <4>2, <5>1 DEF History, DatesKept
        <5>3. pub'[i][j + 1] = pub[i][j + 1]
          BY <1>0, <5>1
        <5>4. QED
          BY <2>1, <3>3, <5>2, <5>3
      <4>3. QED
        BY <1>0, <2>1, <4>1, <4>2
    <3>4. QED
      BY <1>0, <2>3, <3>2, <3>3 DEF Dates
  <2>4. QED
    BY <1>0, <2>2, <2>3
<1>4. FilesDated'
  <2>1. ASSUME NEW i \in Item, NEW t \in Time, file[i][t] # None
        PROVE  Dated(file[i][t], i)' /\ file[i][t].mtime <= now'
    <3>1. file[i][t].at \in Nat /\ file[i][t].mtime \in Nat
      <4>1. file[i][t] \in File
        BY <2>1 DEF TypeOK, DirOK
      <4>2. QED
        BY <4>1 DEF File, Time
    <3>2. Dated(file[i][t], i) /\ file[i][t].mtime <= now
      BY <2>1 DEF History, FilesDated
    <3>3. QED
      BY <1>1, <1>2, <3>1, <3>2, LaterDated DEF Dated
  <2>2. ASSUME NEW i \in Item, plain[i] # None
        PROVE  Dated(plain[i], i)' /\ plain[i].mtime <= now'
    <3>1. plain[i].at \in Nat /\ plain[i].mtime \in Nat
      BY <2>2 DEF TypeOK, DirOK, File, Time
    <3>2. Dated(plain[i], i) /\ plain[i].mtime <= now
      BY <2>2 DEF History, FilesDated
    <3>3. QED
      BY <1>1, <1>2, <3>1, <3>2, LaterDated DEF Dated
  <2>3. QED
    BY <1>1, <2>1, <2>2 DEF FilesDated
<1>5. DataDated'
  <2>1. ASSUME NEW p \in Proc, NEW i \in Item, data[p][i] # None
        PROVE  Dated(data[p][i], i)'
    <3>1. data[p][i].at \in Nat
      BY <2>1 DEF TypeOK, ProcOK, Body, Time
    <3>2. Dated(data[p][i], i)
      BY <2>1 DEF History, DataDated
    <3>3. QED
      BY <1>1, <3>1, <3>2, LaterDated DEF Dated
  <2>2. QED
    BY <1>1, <2>1 DEF DataDated
<1>6. InfixTaken' /\ NamesOld' /\ LinksOld'
  BY <1>1 DEF History, InfixTaken, NamesOld, LinksOld
<1>7. QED
  BY <1>3, <1>4, <1>5, <1>6, <1>8 DEF History

\* The dates are in order in the empty directory.
LEMMA InitHistory == Init => History
<1> SUFFICES ASSUME Init PROVE History
  OBVIOUS
<1>1. \A i \in Item : Current(i) = 1 /\ pub[i][1].at = 0 /\ now = 1
  BY DEF Init, Current
<1>2. PubSorted /\ DatesKept
  BY <1>1 DEF PubSorted, DatesKept
<1>3. FilesDated /\ DataDated /\ InfixTaken /\ NamesOld /\ LinksOld
  BY DEF Init, FilesDated, DataDated, InfixTaken, NamesOld, LinksOld, Named
<1>4. QED
  BY <1>2, <1>3 DEF History

\* Every step keeps them in order, with any number of processes.
LEMMA NextHistory ==
    ASSUME SameSecond = FALSE, TypeOK, History, [Next]_vars
    PROVE  History'
<1>1. TypeOK'
  BY NextTypeOK
<1>2. ASSUME NEW p \in Proc, Fetch(p) \/ Write(p) \/ Install(p) \/ Hook(p) \/ Crash(p)
      PROVE  History'
  <2>1. CASE TakeInfix(p)
    BY <1>1, <2>1, TakeInfixHistory
  <2>2. CASE ~TakeInfix(p)
    <3>1. Recorded(p)
      BY <1>2, <2>2, QuietHistory, FilesHistory DEF Write, Install
    <3>2. QED
      BY <1>1, <3>1, RecordedHistory
  <2>3. QED
    BY <2>1, <2>2
<1>3. CASE (\E i \in Item : Renew(i)) \/ Tick \/ UNCHANGED vars
  BY <1>1, <1>3, EnvIsLater, LaterHistory
<1>4. QED
  BY <1>2, <1>3 DEF Next

-----------------------------------------------------------------------------
\* The steps of a run: the fetch loop.

\* Nothing is known of a run that has not begun.
LEMMA IdleRunInv ==
    ASSUME NEW p \in Proc, pc'[p] = "idle", idx'[p] = 1,
           \A i \in Item : data'[p][i] = None /\ seen'[p][i] = None
    PROVE  RunInv(p)'
<1>1. Unfetched(p)' /\ HeaderIsMtime(p)' /\ ForcedData(p)'
  BY DEF Unfetched, HeaderIsMtime, ForcedData
<1>2. Answered(p)'
  BY DEF Answered
<1>3. Unlinked(p)' /\ OwnFiles(p)' /\ ToInstall(p)' /\ NowExposed(p)'
  BY DEF Unlinked, OwnFiles, ToInstall, NowExposed, Named, Writing, Installing
<1>4. QED
  BY <1>1, <1>2, <1>3 DEF RunInv

\* Or of one that is over, whatever happened in it.
LEMMA ReturnRunInv ==
    ASSUME TypeOK, NEW p \in Proc, Return(p)
    PROVE  RunInv(p)'
  BY ReturnForgets, IdleRunInv

\* Before the infix is taken there is nothing to say about the files of the run.
LEMMA NoFilesYet ==
    ASSUME NEW p \in Proc, pc'[p] \in {"stat", "get", "infix"}
    PROVE  Unlinked(p)' /\ OwnFiles(p)' /\ ToInstall(p)' /\ NowExposed(p)'
  BY DEF Unlinked, OwnFiles, ToInstall, NowExposed, Named, Writing, Installing

\* A reader sees what he saw.
LEMMA SameResolve ==
    ASSUME UNCHANGED <<file, link, plain>>, NEW i \in Item
    PROVE  Resolve(i)' = Resolve(i)
  BY DEF Resolve

\* The numbers of a run.
LEMMA RunNumbers ==
    ASSUME TypeOK, NEW p \in Proc
    PROVE  /\ idx[p] \in Item /\ Item \subseteq Nat \ {0} /\ N \in Item
           /\ \A i \in Item : Current(i) \in Nat \ {0} /\ i <= N
  BY NAssumption DEF TypeOK, ProcOK, EnvOK, Item, Current, Version

\* Where the fetch loop goes.
LEMMA NextFetchIs ==
    ASSUME TypeOK, NEW p \in Proc, NextFetch(p)
    PROVE  \/ pc'[p] = "stat" /\ idx'[p] = idx[p] + 1
           \/ pc'[p] = "infix" /\ idx'[p] = 1
  BY DEF NextFetch, TypeOK, ProcOK

\* A 304 answer for a file that was not replaced since its header was made.
LEMMA NotModifiedIsFresh ==
    ASSUME TypeOK, History, NEW i \in Item, Resolve(i) # None,
           NotModified(i, Resolve(i).mtime)
    PROVE  FreshItem(i, Current(i))
<1> DEFINE f == Resolve(i)
<1>1. f \in File
  BY ResolveType
<1>2. f.ver \in Nat /\ f.at \in Nat /\ f.mtime \in Nat
  BY <1>1 DEF File, Version, Time
<1>3. Current(i) \in Nat \ {0} /\ pub[i][Current(i)].date <= f.mtime
  BY PubNumbers DEF NotModified
<1>4. Dated(f, i)
  BY ResolveDated DEF History
<1>5. CASE f.ver >= Current(i)
  BY <1>5 DEF FreshItem
<1>6. CASE f.ver < Current(i)
  <2>1. f.ver \in 1..Current(i) /\ f.ver + 1 \in 1..Current(i) /\ Current(i) \in 1..Current(i)
    BY <1>2, <1>3, <1>4, <1>6 DEF Dated
  <2>2. CASE i \in Made /\ pub[i][Current(i)].date = pub[i][f.ver].date
    BY <2>2 DEF FreshItem, HiddenFrom
  <2>3. CASE pub[i][f.ver + 1].at - Lead <= pub[i][Current(i)].date
    <3>1. /\ pub[i][f.ver + 1].at \in Nat /\ pub[i][Current(i)].date \in Int
          /\ f.at <= pub[i][f.ver + 1].at
      BY <1>4, <1>6, <2>1, PubNumbers DEF Dated
    <3>2. pub[i][f.ver + 1].at \in f.at..(f.mtime + Lead)
      BY <1>2, <1>3, <2>3, <3>1, LeadAssumption
    <3>3. QED
      BY <3>2 DEF FreshItem, HiddenFrom
  <2>4. QED
    BY <1>6, <2>1, <2>2, <2>3 DEF History, DatesKept
<1>7. QED
  BY <1>2, <1>3, <1>5, <1>6

\* The steps of the fetch loop.
LEMMA FetchRunInv ==
    ASSUME TypeOK, History, NEW p \in Proc, RunInv(p), Fetch(p)
    PROVE  RunInv(p)'
<1>0. CASE GetFail(p)
  BY <1>0, ReturnRunInv DEF GetFail
<1> SUFFICES ASSUME Start(p) \/ Stat(p) \/ Get200(p) \/ Get304(p) \/ GetEmpty(p)
             PROVE  RunInv(p)'
  BY <1>0 DEF Fetch
<1>1. UNCHANGED <<now, pub, file, link, plain>>
  BY DEF Start, Stat, Get200, Get304, GetEmpty, dirVars
<1>2. \A i \in Item : Resolve(i)' = Resolve(i) /\ Current(i)' = Current(i)
  BY <1>1, SameResolve DEF Current
<1>3. \A i \in Item : \A v : FreshItem(i, v) => FreshItem(i, v)'
  BY <1>1, <1>2 DEF FreshItem, HiddenFrom
<1>4. /\ Unfetched(p) /\ HeaderIsMtime(p) /\ Answered(p) /\ ForcedData(p)
      /\ idx[p] \in Item /\ Item \subseteq Nat \ {0}
  BY RunNumbers DEF RunInv
<1>5. pc'[p] \in {"stat", "get", "infix"}
  BY NextFetchIs DEF Start, Stat, Get200, Get304, GetEmpty, TypeOK, ProcOK
<1>6. CASE Start(p)
  <2>1. /\ pc[p] = "idle" /\ pc'[p] = "stat"
        /\ UNCHANGED <<idx, data, seen>>
    BY <1>6 DEF Start, TypeOK, ProcOK
  <2>2. \A i \in Item : data[p][i] = None /\ seen[p][i] = None
    BY <1>4, <2>1 DEF Unfetched
  <2>3. Unfetched(p)' /\ HeaderIsMtime(p)' /\ ForcedData(p)'
    BY <2>1, <2>2 DEF Unfetched, HeaderIsMtime, ForcedData
  <2>4. Answered(p)'
    BY <2>1, <2>2 DEF Answered
  <2>5. QED
    BY <1>5, <2>3, <2>4, NoFilesYet DEF RunInv
<1>7. CASE Stat(p)
  <2>1. /\ pc[p] = "stat" /\ pc'[p] = "get"
        /\ ims'[p] = IF force[p] \/ Resolve(idx[p]) = None THEN None
                                                           ELSE Resolve(idx[p]).mtime
        /\ UNCHANGED <<idx, data, seen, force>>
    BY <1>7 DEF Stat, TypeOK, ProcOK, optVars
  <2>2. Unfetched(p)' /\ ForcedData(p)'
    BY <1>4, <2>1 DEF Unfetched, ForcedData
  <2>3. HeaderIsMtime(p)'
    BY <1>2, <1>4, <2>1 DEF HeaderIsMtime
  <2>4. Answered(p)'
    BY <1>2, <1>3, <1>4, <2>1 DEF Answered
  <2>5. QED
    BY <1>5, <2>2, <2>3, <2>4, NoFilesYet DEF RunInv
<1>8. CASE Get200(p) \/ Get304(p) \/ GetEmpty(p)
  <2>0. PICK k \in Item : k = idx[p]
    BY <1>4
  <2>1. pc[p] = "get" /\ NextFetch(p) /\ force' = force
    BY <1>8 DEF Get200, Get304, GetEmpty, optVars
  <2>2. data[p][k] = None /\ seen[p][k] = None
    BY <1>4, <2>0, <2>1 DEF Unfetched
  <2>4. \A i \in Item \ {k} : data'[p][i] = data[p][i] /\ seen'[p][i] = seen[p][i]
    BY <1>8, <2>0 DEF Get200, Get304, GetEmpty, TypeOK, ProcOK
  <2>5. Unfetched(p)'
    <3>1. \A i \in Item : i >= k + 1 => i # k /\ i >= k
      BY <1>4, <2>0
    <3>2. \A i \in Item : i >= k + 1 => data[p][i] = None /\ seen[p][i] = None
      BY <2>0, <1>4, <2>1, <3>1 DEF Unfetched
    <3>3. QED
      BY <2>0, <2>1, <2>4, <3>1, <3>2, NextFetchIs DEF Unfetched
  <2>6. HeaderIsMtime(p)'
    BY <2>1, NextFetchIs DEF HeaderIsMtime
  <2>7. /\ \/ data'[p][k] = None /\ seen'[p][k] = None
           \/ /\ data'[p][k] # None /\ data'[p][k].ver = Current(k)
              /\ seen'[p][k] = Current(k)
           \/ /\ data'[p][k] = None /\ seen'[p][k] = Current(k)
              /\ FreshItem(k, Current(k)) /\ ~force[p]
    <3>1. CASE Get200(p)
      <4>1. /\ data' = [data EXCEPT ![p][k] = [ver |-> Current(k), at |-> now]]
            /\ seen' = [seen EXCEPT ![p][k] = Current(k)]
        BY <2>0, <3>1 DEF Get200
      <4>2. [ver |-> Current(k), at |-> now] \in Body
        BY <2>0 DEF TypeOK, EnvOK, Body, Current
      <4>3. QED
        BY <2>0, <4>1, <4>2, NoRecordAssumption DEF TypeOK, ProcOK
    <3>2. CASE Get304(p)
      <4>1. NotModified(k, ims[p]) /\ data' = data /\ seen' = [seen EXCEPT ![p][k] = Current(k)]
        BY <2>0, <3>2 DEF Get304
      <4>2. ims[p] # None
        BY <4>1 DEF NotModified
      <4>3. Resolve(k) # None /\ ims[p] = Resolve(k).mtime /\ ~force[p]
        BY <2>0, <1>4, <2>1, <4>2 DEF HeaderIsMtime, ForcedData
      <4>4. FreshItem(k, Current(k))
        BY <2>0, <4>1, <4>3, NotModifiedIsFresh
      <4>5. QED
        BY <2>2, <2>0, <4>1, <4>3, <4>4 DEF TypeOK, ProcOK
    <3>3. CASE GetEmpty(p)
      BY <2>2, <3>3 DEF GetEmpty
    <3>4. QED
      BY <1>8, <3>1, <3>2, <3>3
  <2>8. Resolve(k) # None => Resolve(k).ver <= Current(k)
    <3>1. ASSUME Resolve(k) # None PROVE Resolve(k).ver \in 1..Current(k)
      BY <2>0, <3>1, ResolveDated DEF History, Dated
    <3>2. Current(k) \in Nat
      BY <2>0, RunNumbers
    <3>3. QED
      BY <3>1, <3>2
  <2>9. Answered(p)'
    <3> SUFFICES ASSUME NEW i \in Item
                 PROVE  /\ data'[p][i] # None =>
                             /\ seen'[p][i] = data'[p][i].ver
                             /\ Resolve(i)' # None => Resolve(i)'.ver <= data'[p][i].ver
                        /\ data'[p][i] = None /\ seen'[p][i] # None =>
                             seen'[p][i] <= Current(i)' /\ FreshItem(i, seen[p][i])'
      BY DEF Answered
    <3>1. CASE i = k
      <4>1. Current(k) \in Nat /\ Current(k) <= Current(k)'
        BY <1>2, <2>0, RunNumbers
      <4>2. FreshItem(k, Current(k)) /\ seen'[p][k] = Current(k) => FreshItem(k, seen[p][k])'
        BY <1>1, <1>2, <2>0 DEF FreshItem, HiddenFrom
      <4>3. QED
        BY <1>2, <2>7, <2>8, <3>1, <4>1, <4>2
    <3>2. CASE i # k
      <4>1. data'[p][i] = data[p][i] /\ seen'[p][i] = seen[p][i]
        BY <2>4, <3>2
      <4>2. FreshItem(i, seen[p][i]) => FreshItem(i, seen[p][i])'
        BY <1>1, <1>2, <4>1 DEF FreshItem, HiddenFrom
      <4>3. QED
        BY <1>2, <1>4, <4>1, <4>2 DEF Answered
    <3>3. QED
      BY <3>1, <3>2
  <2>10. ForcedData(p)'
    <3>1. pc'[p] # "get"
      BY <2>1, NextFetchIs
    <3>2. QED
      BY <1>4, <2>1, <2>4, <2>7, <3>1 DEF ForcedData
  <2>11. QED
    BY <1>5, <2>5, <2>6, <2>9, <2>10, NoFilesYet DEF RunInv
<1>9. QED
  BY <1>6, <1>7, <1>8

-----------------------------------------------------------------------------
\* The steps of a run: the write loop.

\* A reader sees the same versions; a file may have been touched.
SameView ==
    \A i \in Item :
       /\ Resolve(i)' = None <=> Resolve(i) = None
       /\ Resolve(i) # None =>
             /\ Resolve(i)'.ver = Resolve(i).ver /\ Resolve(i)'.at = Resolve(i).at
             /\ Resolve(i)'.mtime >= Resolve(i).mtime

\* What a step within a run keeps while a reader sees the same versions.
LEMMA ViewKeeps ==
    ASSUME TypeOK, TypeOK', NEW p \in Proc, RunInv(p), SameView,
           UNCHANGED <<pub, data, seen, force>>, pc'[p] \in Named
    PROVE  Unfetched(p)' /\ HeaderIsMtime(p)' /\ Answered(p)' /\ ForcedData(p)'
<1>1. Unfetched(p)' /\ HeaderIsMtime(p)' /\ ForcedData(p)'
  BY DEF RunInv, Unfetched, HeaderIsMtime, ForcedData, Named
<1>2. ASSUME NEW i \in Item, NEW v, FreshItem(i, v)
      PROVE  FreshItem(i, v)'
  <2>1. Resolve(i) # None /\ Resolve(i)' # None
    BY <1>2 DEF FreshItem, SameView
  <2>2. Resolve(i) \in File /\ Resolve(i)' \in File
    BY <2>1 DEF Resolve, TypeOK, DirOK
  <2>3. Resolve(i).mtime \in Nat /\ Resolve(i)'.mtime \in Nat
    BY <2>2 DEF File, Time
  <2>4. \A x : x \in Resolve(i).at..(Resolve(i).mtime + Lead)
                  => x \in Resolve(i).at..(Resolve(i)'.mtime + Lead)
    BY <2>1, <2>3, LeadAssumption DEF SameView
  <2>5. QED
    BY <1>2, <2>1, <2>4 DEF FreshItem, HiddenFrom, SameView
<1>3. Answered(p)'
  <2>1. \A i \in Item : Current(i)' = Current(i)
    BY DEF Current
  <2>2. \A i \in Item : FreshItem(i, seen[p][i]) => FreshItem(i, seen[p][i])'
    <3>1. ASSUME NEW i \in Item, FreshItem(i, seen[p][i]) PROVE FreshItem(i, seen[p][i])'
      <4>1. PICK v : v = seen[p][i]
        OBVIOUS
      <4>2. FreshItem(i, v)'
        BY <1>2, <3>1, <4>1 DEF FreshItem, HiddenFrom
      <4>3. seen'[p][i] = v
        BY <4>1
      <4>4. QED
        BY <4>2, <4>3 DEF FreshItem, HiddenFrom
    <3>2. QED
      BY <3>1
  <2>3. QED
    BY <2>1, <2>2 DEF RunInv, Answered, SameView
<1>4. QED
  BY <1>1, <1>3

\* Nothing has moved.
LEMMA StillView == ASSUME TypeOK, UNCHANGED <<file, link, plain>> PROVE SameView
<1>1. \A i \in Item : Resolve(i)' = Resolve(i)
  BY SameResolve
<1>2. ASSUME NEW i \in Item, Resolve(i) # None PROVE Resolve(i).mtime \in Nat
  BY <1>2, ResolveType DEF File, Time
<1>3. QED
  BY <1>1, <1>2 DEF SameView

\* The files of the run are changed while no link leads there.
LEMMA OwnView ==
    ASSUME TypeOK, NEW p \in Proc, link' = link, plain' = plain,
           \A i \in Item : link[i] # infix[p],
           \A i \in Item, t \in Time : t # infix[p] => file'[i][t] = file[i][t]
    PROVE  SameView
<1>1. \A i \in Item : Resolve(i)' = Resolve(i)
  BY DEF Resolve, TypeOK, DirOK
<1>2. ASSUME NEW i \in Item, Resolve(i) # None PROVE Resolve(i).mtime \in Nat
  BY <1>2, ResolveType DEF File, Time
<1>3. QED
  BY <1>1, <1>2 DEF SameView

\* Where the write loop goes.
LEMMA NextWriteIs ==
    ASSUME TypeOK, NEW p \in Proc, NextWrite(p)
    PROVE  \/ /\ idx[p] < N /\ pc'[p] = "write" /\ idx'[p] = idx[p] + 1
              /\ todo' = todo
           \/ /\ idx[p] = N /\ pc'[p] = "link"
              /\ todo'[p] = {i \in Item : data[p][i] # None}
<1>1. idx[p] < N \/ idx[p] = N
  BY RunNumbers DEF Item
<1>2. QED
  BY <1>1 DEF NextWrite, TypeOK, ProcOK

\* After an item is written or skipped, everything up to it has its file.
LEMMA NextWriteToInstall ==
    ASSUME TypeOK, NEW p \in Proc, NextWrite(p), data' = data, infix' = infix,
           \A i \in Item : i <= idx[p] /\ data[p][i] # None => file'[i][infix[p]] # None
    PROVE  ToInstall(p)' /\ NowExposed(p)'
<1>1. idx[p] \in Nat /\ Item \subseteq Nat /\ \A i \in Item : i <= N
  BY RunNumbers
<1>2. CASE pc'[p] = "write" /\ idx'[p] = idx[p] + 1
  <2>1. \A i \in Item : i < idx'[p] => i <= idx[p]
    BY <1>1, <1>2
  <2>2. QED
    BY <1>2, <2>1 DEF ToInstall, NowExposed, Installing
<1>3. CASE /\ idx[p] = N /\ pc'[p] = "link"
           /\ todo'[p] = {i \in Item : data[p][i] # None}
  <2>1. \A i \in todo'[p] : file'[i][infix'[p]] # None
    BY <1>1, <1>3
  <2>2. \A i \in Item : data'[p][i] # None => i \in todo'[p]
    BY <1>3
  <2>3. QED
    BY <1>3, <2>1, <2>2 DEF ToInstall, NowExposed, Installing
<1>4. QED
  BY <1>2, <1>3, NextWriteIs

\* A new infix leads to no file and no link leads to it.
LEMMA TakeInfixRunInv ==
    ASSUME SameSecond = FALSE, TypeOK, TypeOK', History, NEW p \in Proc, RunInv(p), TakeInfix(p)
    PROVE  RunInv(p)'
<1>1. /\ now > stamp /\ infix'[p] = now /\ pc[p] = "infix" /\ pc'[p] = "write"
      /\ UNCHANGED <<pub, file, link, plain, tmp, data, seen, force, idx>>
  BY DEF TakeInfix, dirVars, optVars, TypeOK, ProcOK
<1>2. now \in Time /\ now \in Nat /\ stamp \in Nat
  BY DEF TypeOK, EnvOK, Time
<1>3. \A i \in Item : file[i][now] = None
  BY <1>1, <1>2 DEF History, NamesOld
<1>4. \A i \in Item : link[i] # now /\ tmp[i] # now
  BY <1>1, <1>2, NoneAssumption DEF History, LinksOld, TypeOK, DirOK, Time
<1>5. Unfetched(p)' /\ HeaderIsMtime(p)' /\ Answered(p)' /\ ForcedData(p)'
  BY <1>1, StillView, ViewKeeps DEF Named
<1>6. Unlinked(p)' /\ OwnFiles(p)'
  BY <1>1, <1>3, <1>4 DEF Unlinked, OwnFiles
<1>7. ToInstall(p)' /\ NowExposed(p)'
  <2>1. idx[p] = 1 /\ \A i \in Item : ~(i < 1)
    BY <1>1, RunNumbers DEF RunInv, Unfetched
  <2>2. QED
    BY <1>1, <2>1 DEF ToInstall, NowExposed, Installing
<1>8. QED
  BY <1>5, <1>6, <1>7 DEF RunInv

\* The steps of the write loop.
LEMMA WriteRunInv ==
    ASSUME TypeOK, TypeOK', History, NEW p \in Proc, RunInv(p),
           \/ SkipItem(p) \/ OpenNew(p) \/ OpenFails(p) \/ WriteAll(p) \/ WriteFails(p)
    PROVE  RunInv(p)'
<1>1. /\ pc[p] \in Writing
      /\ UNCHANGED <<now, pub, link, tmp, data, seen, infix, force, sym>>
  BY DEF SkipItem, OpenNew, OpenFails, WriteAll, WriteFails, dirVars, optVars, Writing
<1>2. pc'[p] \in {"write", "fill", "clean", "link"}
  BY NextWriteIs DEF SkipItem, OpenNew, OpenFails, WriteAll, WriteFails, TypeOK, ProcOK
<1>3. pc[p] \in Named /\ pc'[p] \in Named
  BY <1>1, <1>2 DEF Writing, Named
<1>4. /\ infix[p] \in Time /\ idx[p] \in Item /\ Item \subseteq Nat
  BY <1>3, InfixIsTime, RunNumbers
<1>5. \A i \in Item : link[i] # infix[p] /\ tmp[i] # infix[p]
  BY <1>1 DEF RunInv, Unlinked
<1>6. Unlinked(p)'
  BY <1>1, <1>5 DEF Unlinked
<1>7. OwnFiles(p) /\ ToInstall(p)
  BY DEF RunInv
<1>8. CASE SkipItem(p) \/ OpenFails(p)
  <2>1. UNCHANGED <<file, plain>>
    BY <1>8 DEF SkipItem, OpenFails, dirVars
  <2>2. Unfetched(p)' /\ HeaderIsMtime(p)' /\ Answered(p)' /\ ForcedData(p)'
    BY <1>1, <1>3, <2>1, StillView, ViewKeeps
  <2>3. OwnFiles(p)'
    BY <1>1, <1>3, <1>7, <2>1 DEF OwnFiles
  <2>4. ToInstall(p)' /\ NowExposed(p)'
    <3>1. CASE OpenFails(p)
      <4>1. pc'[p] = "clean"
        BY <3>1 DEF OpenFails, TypeOK, ProcOK
      <4>2. QED
        BY <4>1 DEF ToInstall, NowExposed, Installing
    <3>2. CASE SkipItem(p)
      <4>1. pc[p] = "write" /\ data[p][idx[p]] = None /\ NextWrite(p)
        BY <3>2 DEF SkipItem
      <4>2. \A i \in Item : i <= idx[p] => i < idx[p] \/ i = idx[p]
        BY <1>4 DEF Item
      <4>3. \A i \in Item : i <= idx[p] /\ data[p][i] # None => file'[i][infix[p]] # None
        BY <1>7, <2>1, <4>1, <4>2 DEF ToInstall
      <4>4. data' = data /\ infix' = infix
        BY <1>1
      <4>5. QED
        BY <4>1, <4>3, <4>4, NextWriteToInstall
    <3>3. QED
      BY <1>8, <3>1, <3>2
  <2>5. QED
    BY <1>6, <2>2, <2>3, <2>4 DEF RunInv
<1>9. CASE OpenNew(p)
  <2>1. PICK k \in Item : k = idx[p]
    BY <1>4
  <2>2. PICK f : f = [ver |-> data[p][k].ver, at |-> data[p][k].at, mtime |-> now,
                      whole |-> FALSE, by |-> p]
    OBVIOUS
  <2>3. /\ data[p][k] # None /\ plain' = plain /\ idx' = idx
        /\ file' = [file EXCEPT ![k][infix[p]] = f] /\ pc'[p] = "fill" /\ pc[p] = "write"
    BY <1>9, <2>1, <2>2 DEF OpenNew, TypeOK, ProcOK
  <2>4. f \in File
    <3>1. data[p][k] \in Body
      BY <2>3 DEF TypeOK, ProcOK
    <3>2. QED
      BY <2>2, <3>1 DEF TypeOK, EnvOK, Body, File
  <2>5. f # None /\ f.ver = data[p][k].ver
    BY <2>2, <2>4, NoRecordAssumption
  <2>6. /\ file'[k][infix[p]] = f
        /\ \A i \in Item, t \in Time : i # k \/ t # infix[p] => file'[i][t] = file[i][t]
    BY <1>4, <2>3 DEF TypeOK, DirOK
  <2>7. Unfetched(p)' /\ HeaderIsMtime(p)' /\ Answered(p)' /\ ForcedData(p)'
    BY <1>1, <1>3, <1>5, <2>3, <2>6, OwnView, ViewKeeps
  <2>8. OwnFiles(p)'
    <3>1. ASSUME NEW i \in Item, file'[i][infix[p]] # None
          PROVE  data[p][i] # None /\ file'[i][infix[p]].ver = data[p][i].ver
      BY <1>3, <1>4, <1>7, <2>3, <2>5, <2>6, <3>1 DEF OwnFiles
    <3>2. QED
      BY <1>1, <3>1 DEF OwnFiles
  <2>9. ToInstall(p)'
    <3>1. \A i \in Item : i < idx[p] /\ data[p][i] # None => file'[i][infix[p]] # None
      BY <1>4, <1>7, <2>3, <2>5, <2>6 DEF ToInstall
    <3>2. QED
      BY <1>1, <2>1, <2>3, <2>5, <2>6, <3>1 DEF ToInstall, Installing
  <2>10. NowExposed(p)'
    BY <2>3 DEF NowExposed, Installing
  <2>11. QED
    BY <1>6, <2>7, <2>8, <2>9, <2>10 DEF RunInv
<1>10. CASE WriteAll(p) \/ WriteFails(p)
  <2>1. pc[p] = "fill" /\ \E c \in BOOLEAN : Closes(p, c)
    BY <1>10 DEF WriteAll, WriteFails, Closes
  <2>2. /\ \A i \in Item, t \in Time :
             /\ file'[i][t] = None <=> file[i][t] = None
             /\ file'[i][t] # None => file'[i][t].ver = file[i][t].ver
             /\ t # infix[p] => file'[i][t] = file[i][t]
        /\ \A i \in Item :
             /\ plain'[i] = None <=> plain[i] = None
             /\ plain'[i] # None => /\ plain'[i].mtime >= plain[i].mtime
                                    /\ plain'[i].ver = plain[i].ver
                                    /\ plain'[i].at = plain[i].at
    BY <2>1, ClosesDates
  <2>3. SameView
    <3> SUFFICES ASSUME NEW i \in Item
                 PROVE  /\ Resolve(i)' = None <=> Resolve(i) = None
                        /\ Resolve(i) # None =>
                             /\ Resolve(i)'.ver = Resolve(i).ver
                             /\ Resolve(i)'.at = Resolve(i).at
                             /\ Resolve(i)'.mtime >= Resolve(i).mtime
      BY DEF SameView
    <3>1. CASE link[i] = None
      BY <1>1, <2>2, <3>1 DEF Resolve
    <3>2. CASE link[i] # None
      <4>1. link[i] \in Time /\ link[i] # infix[p]
        BY <1>5, <3>2 DEF TypeOK, DirOK
      <4>2. Resolve(i)' = Resolve(i)
        BY <1>1, <2>2, <3>2, <4>1 DEF Resolve
      <4>3. Resolve(i) # None => Resolve(i).mtime \in Nat
        BY ResolveType DEF File, Time
      <4>4. QED
        BY <4>2, <4>3
    <3>3. QED
      BY <3>1, <3>2
  <2>4. Unfetched(p)' /\ HeaderIsMtime(p)' /\ Answered(p)' /\ ForcedData(p)'
    BY <1>1, <1>3, <2>3, ViewKeeps
  <2>5. OwnFiles(p)'
    BY <1>1, <1>3, <1>4, <1>7, <2>2 DEF OwnFiles
  <2>6. ToInstall(p)' /\ NowExposed(p)'
    <3>1. CASE WriteFails(p)
      <4>1. pc'[p] = "clean"
        BY <3>1 DEF WriteFails, TypeOK, ProcOK
      <4>2. QED
        BY <4>1 DEF ToInstall, NowExposed, Installing
    <3>2. CASE WriteAll(p)
      <4>1. NextWrite(p)
        BY <3>2 DEF WriteAll
      <4>2. \A i \in Item : i <= idx[p] => i < idx[p] \/ i = idx[p]
        BY <1>4 DEF Item
      <4>3. \A i \in Item : i <= idx[p] /\ data[p][i] # None => file'[i][infix[p]] # None
        BY <1>4, <1>7, <2>1, <2>2, <4>2 DEF ToInstall
      <4>4. data' = data /\ infix' = infix
        BY <1>1
      <4>5. QED
        BY <4>1, <4>3, <4>4, NextWriteToInstall
    <3>3. QED
      BY <1>10, <3>1, <3>2
  <2>7. QED
    BY <1>6, <2>4, <2>5, <2>6 DEF RunInv
<1>11. QED
  BY <1>8, <1>9, <1>10

-----------------------------------------------------------------------------
\* The steps of a run: the install loop.

\* The steps that install nothing yet.
LEMMA PrepareRunInv ==
    ASSUME TypeOK, TypeOK', NEW p \in Proc, RunInv(p),
           RemoveTmp(p) \/ MkSymlink(p) \/ InstallDone(p)
    PROVE  RunInv(p)'
<1>1. UNCHANGED <<pub, file, link, plain, data, seen, infix, todo, force, sym>>
  BY DEF RemoveTmp, MkSymlink, InstallDone, dirVars, optVars
<1>2. /\ pc[p] \in {"link", "symlink"}
      /\ pc'[p] \in {"symlink", "rename", "hook"}
  BY DEF RemoveTmp, MkSymlink, InstallDone, TypeOK, ProcOK
<1>3. Unfetched(p)' /\ HeaderIsMtime(p)' /\ Answered(p)' /\ ForcedData(p)'
  BY <1>1, <1>2, StillView, ViewKeeps DEF Named
<1>4. ToInstall(p) /\ OwnFiles(p) /\ NowExposed(p)
  BY DEF RunInv
<1>5. OwnFiles(p)'
  BY <1>1, <1>2, <1>4 DEF OwnFiles, Named
<1>6. NowExposed(p)'
  <2>1. \A i \in Item : Resolve(i)' = Resolve(i)
    BY <1>1, SameResolve
  <2>2. QED
    BY <1>1, <1>2, <1>4, <2>1 DEF NowExposed, Installing
<1>7. ToInstall(p)' /\ Unlinked(p)'
  <2>1. CASE RemoveTmp(p)
    <3>1. pc[p] = "link" /\ sym[p] /\ pc'[p] = "symlink" /\ idx'[p] \in todo[p]
      BY <2>1 DEF RemoveTmp, TypeOK, ProcOK
    <3>2. QED
      BY <1>1, <1>4, <3>1 DEF ToInstall, Unlinked, Installing, Writing
  <2>2. CASE MkSymlink(p)
    <3>1. /\ pc[p] = "symlink" /\ pc'[p] = "rename" /\ idx' = idx
          /\ tmp'[idx[p]] = infix[p]
      BY <2>2 DEF MkSymlink, TypeOK, ProcOK, DirOK
    <3>2. QED
      BY <1>1, <1>4, <3>1 DEF ToInstall, Unlinked, Installing, Writing
  <2>3. CASE InstallDone(p)
    <3>1. pc'[p] = "hook" /\ todo[p] = {}
      BY <2>3 DEF InstallDone, TypeOK, ProcOK
    <3>2. QED
      BY <1>1, <3>1 DEF ToInstall, Unlinked, Installing, Writing
  <2>4. QED
    BY <2>1, <2>2, <2>3
<1>8. QED
  BY <1>3, <1>5, <1>6, <1>7 DEF RunInv

\* Item k is installed.
Installs(p, k) ==
    /\ pc[p] \in Installing /\ pc'[p] = "link"
    /\ k \in todo[p] /\ todo'[p] = todo[p] \ {k}
    /\ UNCHANGED <<pub, data, seen, infix, force, sym>>
    /\ Resolve(k)' = file[k][infix[p]]
    /\ \A i \in Item \ {k} : Resolve(i)' = Resolve(i)
    /\ \A i \in Item : file'[i][infix[p]] # None => file'[i][infix[p]] = file[i][infix[p]]
    /\ \A i \in Item \ {k} : file'[i][infix[p]] = file[i][infix[p]]

\* It is exposed from then on, and the others stay as they are.
LEMMA InstallsRunInv ==
    ASSUME TypeOK, TypeOK', NEW p \in Proc, RunInv(p), NEW k \in Item, Installs(p, k), Unlinked(p)'
    PROVE  RunInv(p)'
<1>1. /\ pc[p] \in Installing /\ pc'[p] = "link"
      /\ k \in todo[p] /\ todo'[p] = todo[p] \ {k}
      /\ UNCHANGED <<pub, data, seen, infix, force, sym>>
      /\ Resolve(k)' = file[k][infix[p]]
      /\ \A i \in Item \ {k} : Resolve(i)' = Resolve(i)
      /\ \A i \in Item : file'[i][infix[p]] # None => file'[i][infix[p]] = file[i][infix[p]]
      /\ \A i \in Item \ {k} : file'[i][infix[p]] = file[i][infix[p]]
  BY DEF Installs
<1>2. pc[p] \in Named
  BY <1>1 DEF Installing, Named
<1>3. /\ file[k][infix[p]] # None /\ data[p][k] # None
      /\ file[k][infix[p]].ver = data[p][k].ver
  BY <1>1, <1>2 DEF RunInv, ToInstall, OwnFiles
<1>4. Unfetched(p)' /\ HeaderIsMtime(p)' /\ ForcedData(p)'
  BY <1>1 DEF RunInv, Unfetched, HeaderIsMtime, ForcedData
<1>5. Answered(p)'
  <2> SUFFICES ASSUME NEW i \in Item
               PROVE  /\ data'[p][i] # None =>
                           /\ seen'[p][i] = data'[p][i].ver
                           /\ Resolve(i)' # None => Resolve(i)'.ver <= data'[p][i].ver
                      /\ data'[p][i] = None /\ seen'[p][i] # None =>
                           seen'[p][i] <= Current(i)' /\ FreshItem(i, seen[p][i])'
    BY DEF Answered
  <2>1. CASE i = k
    <3>1. data[p][k].ver \in Nat
      BY <1>3 DEF TypeOK, ProcOK, Body, Version
    <3>2. seen[p][k] = data[p][k].ver
      BY <1>3 DEF RunInv, Answered
    <3>3. QED
      BY <1>1, <1>3, <2>1, <3>1, <3>2
  <2>2. CASE i # k
    <3>1. FreshItem(i, seen[p][i]) => FreshItem(i, seen[p][i])'
      BY <1>1, <2>2 DEF FreshItem, HiddenFrom
    <3>2. Current(i)' = Current(i)
      BY <1>1 DEF Current
    <3>3. QED
      BY <1>1, <2>2, <3>1, <3>2 DEF RunInv, Answered
  <2>3. QED
    BY <2>1, <2>2
<1>6. OwnFiles(p)'
  BY <1>1, <1>2 DEF RunInv, OwnFiles
<1>7. ToInstall(p)'
  <2>1. todo[p] \subseteq Item
    BY DEF TypeOK, ProcOK
  <2>2. \A i \in todo[p] : file[i][infix[p]] # None
    BY <1>1 DEF RunInv, ToInstall
  <2>3. QED
    BY <1>1, <2>1, <2>2 DEF ToInstall
<1>8. NowExposed(p)'
  BY <1>1, <1>3 DEF RunInv, NowExposed
<1>9. QED
  BY <1>4, <1>5, <1>6, <1>7, <1>8 DEF RunInv

\* By a symlink.
LEMMA RenameTmpRunInv ==
    ASSUME TypeOK, TypeOK', NEW p \in Proc, RunInv(p), RenameTmp(p)
    PROVE  RunInv(p)'
<1>1. PICK k \in Item : k = idx[p]
  BY DEF TypeOK, ProcOK
<1>2. /\ pc[p] = "rename" /\ pc'[p] = "link"
      /\ link' = [link EXCEPT ![k] = tmp[k]] /\ plain' = [plain EXCEPT ![k] = None]
      /\ todo'[p] = todo[p] \ {k}
      /\ UNCHANGED <<pub, file, data, seen, infix, force, sym>>
  BY <1>1 DEF RenameTmp, Installed, optVars, TypeOK, ProcOK
<1>3. sym[p] /\ k \in todo[p] /\ tmp[k] = infix[p]
  BY <1>1, <1>2 DEF RunInv, ToInstall
<1>4. infix[p] # None
  BY <1>2 DEF TypeOK, NamedOK, Named
<1>5. link'[k] = infix[p] /\ \A i \in Item \ {k} : link'[i] = link[i] /\ plain'[i] = plain[i]
  BY <1>2, <1>3 DEF TypeOK, DirOK
<1>6. /\ Resolve(k)' = file[k][infix[p]]
      /\ \A i \in Item \ {k} : Resolve(i)' = Resolve(i)
  BY <1>2, <1>4, <1>5 DEF Resolve
<1>7. Unlinked(p)'
  BY <1>2, <1>3 DEF Unlinked, Writing
<1>8. Installs(p, k)
  BY <1>2, <1>3, <1>6 DEF Installs, Installing
<1>9. QED
  BY <1>7, <1>8, InstallsRunInv

\* By renaming the file itself.
LEMMA RenamePlainRunInv ==
    ASSUME TypeOK, TypeOK', NEW p \in Proc, RunInv(p), RenamePlain(p)
    PROVE  RunInv(p)'
<1>1. pc[p] = "link" /\ ~sym[p]
  BY DEF RenamePlain
<1>2. PICK k \in todo[p] :
         /\ file[k][infix[p]] # None
         /\ plain' = [plain EXCEPT ![k] = file[k][infix[p]]]
         /\ link' = [link EXCEPT ![k] = None]
         /\ file' = [file EXCEPT ![k][infix[p]] = None]
         /\ Installed(p, k)
  BY DEF RenamePlain
<1>3. UNCHANGED <<pub, tmp, data, seen, infix, force, sym>>
  BY DEF RenamePlain, optVars
<1>4. k \in Item /\ infix[p] \in Time
  BY <1>1, InfixIsTime DEF Named, TypeOK, ProcOK
<1>5. pc'[p] = "link" /\ todo'[p] = todo[p] \ {k}
  BY <1>2 DEF Installed, TypeOK, ProcOK
<1>6. \A i \in Item : link[i] # infix[p] /\ tmp[i] # infix[p]
  BY <1>1 DEF RunInv, Unlinked, Installing
<1>7. /\ link'[k] = None /\ plain'[k] = file[k][infix[p]]
      /\ \A i \in Item \ {k} : link'[i] = link[i] /\ plain'[i] = plain[i]
  BY <1>2, <1>4 DEF TypeOK, DirOK
<1>8. /\ file'[k][infix[p]] = None
      /\ \A i \in Item \ {k} : file'[i] = file[i]
  BY <1>2, <1>4 DEF TypeOK, DirOK
<1>9. /\ Resolve(k)' = file[k][infix[p]]
      /\ \A i \in Item \ {k} : Resolve(i)' = Resolve(i)
  BY <1>7, <1>8 DEF Resolve
<1>10. Unlinked(p)'
  <2>1. infix[p] # None
    BY <1>1 DEF TypeOK, NamedOK, Named
  <2>2. \A i \in Item : link'[i] # infix[p] /\ tmp'[i] # infix[p]
    BY <1>3, <1>6, <1>7, <2>1
  <2>3. QED
    BY <1>3, <2>2 DEF Unlinked
<1>11. Installs(p, k)
  BY <1>1, <1>3, <1>5, <1>8, <1>9 DEF Installs, Installing
<1>12. QED
  BY <1>4, <1>10, <1>11, InstallsRunInv

\* Every step of p keeps the invariant of its run.
LEMMA StepRunInv ==
    ASSUME SameSecond = FALSE, TypeOK, TypeOK', History, NEW p \in Proc, RunInv(p),
           Fetch(p) \/ Write(p) \/ Install(p) \/ Hook(p) \/ Crash(p)
    PROVE  RunInv(p)'
<1>1. CASE Return(p)
  BY <1>1, ReturnRunInv
<1>2. CASE Fetch(p)
  BY <1>2, FetchRunInv
<1>3. CASE Write(p) /\ ~Return(p)
  BY <1>3, TakeInfixRunInv, WriteRunInv DEF Write, Cleanup
<1>4. CASE Install(p) /\ ~Return(p)
  BY <1>4, PrepareRunInv, RenameTmpRunInv, RenamePlainRunInv DEF Install, InstallFails
<1>5. QED
  BY <1>1, <1>2, <1>3, <1>4 DEF Hook, Crash

-----------------------------------------------------------------------------
\* The environment, and the whole run.

\* A new version makes no fresh file stale: it is newer than the server's answer.
LEMMA LaterRunInv ==
    ASSUME TypeOK, Later, NEW p \in Proc, RunInv(p)
    PROVE  RunInv(p)'
<1>1. UNCHANGED <<file, link, plain, tmp, pc, idx, ims, data, seen, infix, todo, force, sym>>
  BY DEF Later
<1>2. \A i \in Item : Resolve(i)' = Resolve(i)
  BY <1>1, SameResolve
<1>3. Unfetched(p)' /\ ForcedData(p)' /\ Unlinked(p)' /\ OwnFiles(p)' /\ ToInstall(p)'
  BY <1>1 DEF RunInv, Unfetched, ForcedData, Unlinked, OwnFiles, ToInstall
<1>4. HeaderIsMtime(p)'
  BY <1>1, <1>2 DEF RunInv, HeaderIsMtime, TypeOK, ProcOK
<1>5. NowExposed(p)'
  BY <1>1, <1>2 DEF RunInv, NowExposed
<1>6. Answered(p)'
  <2> SUFFICES ASSUME NEW i \in Item, data[p][i] = None, seen[p][i] # None
               PROVE  seen[p][i] <= Current(i)' /\ FreshItem(i, seen[p][i])'
    BY <1>1, <1>2 DEF RunInv, Answered
  <2>1. /\ seen[p][i] <= Current(i) /\ FreshItem(i, seen[p][i])
    BY DEF RunInv, Answered
  <2>2. /\ Current(i) \in Nat /\ Current(i)' \in {Current(i), Current(i) + 1}
        /\ \A k \in 1..Current(i) : pub'[i][k] = pub[i][k]
    BY DEF Later
  <2>3. seen[p][i] \in Nat
    BY DEF TypeOK, ProcOK, Version
  <2>4. Resolve(i) \in File
    BY <2>1, ResolveType DEF FreshItem
  <2>5. Resolve(i).ver \in Nat \ {0}
    BY <2>4 DEF File, Version
  <2>6. CASE Resolve(i).ver >= seen[p][i]
    BY <1>1, <1>2, <2>1, <2>2, <2>3, <2>6 DEF FreshItem
  <2>7. CASE Resolve(i).ver < seen[p][i]
    <3>1. Resolve(i).ver + 1 \in 1..Current(i)
      BY <2>1, <2>2, <2>3, <2>5, <2>7
    <3>2. HiddenFrom(Resolve(i), i, seen[p][i])
      BY <2>1, <2>3, <2>5, <2>7 DEF FreshItem
    <3>3. \A k \in {Resolve(i).ver + 1, Resolve(i).ver, seen[p][i]} : pub'[i][k] = pub[i][k]
      BY <2>1, <2>2, <2>3, <2>5, <2>7, <3>1
    <3>4. FreshItem(i, seen[p][i])'
      BY <1>1, <1>2, <2>1, <3>2, <3>3 DEF FreshItem, HiddenFrom
    <3>5. QED
      BY <2>1, <2>2, <2>3, <3>4
  <2>8. QED
    BY <2>3, <2>5, <2>6, <2>7
<1>7. QED
  BY <1>3, <1>4, <1>5, <1>6 DEF RunInv

\* Nothing is known before the first run.
LEMMA InitRunInv == Init => \A p \in Proc : RunInv(p)
<1> SUFFICES ASSUME Init, NEW p \in Proc PROVE RunInv(p)
  OBVIOUS
<1>1. /\ pc[p] = "idle" /\ idx[p] = 1 /\ ~force[p]
      /\ \A i \in Item : data[p][i] = None /\ seen[p][i] = None
  BY DEF Init
<1>2. Unfetched(p) /\ HeaderIsMtime(p) /\ Answered(p) /\ ForcedData(p)
  BY <1>1 DEF Unfetched, HeaderIsMtime, Answered, ForcedData
<1>3. Unlinked(p) /\ OwnFiles(p) /\ ToInstall(p) /\ NowExposed(p)
  BY <1>1 DEF Unlinked, OwnFiles, ToInstall, NowExposed, Named, Writing, Installing
<1>4. QED
  BY <1>2, <1>3 DEF RunInv

\* A run that calls its hook has fresh files, whatever came before it.
LEMMA RunIsFresh ==
    ASSUME TypeOK, NEW p \in Proc, RunInv(p)
    PROVE  FreshAtHook(p)
<1> SUFFICES ASSUME pc[p] = "hook", NEW i \in Item, seen[p][i] # None
             PROVE  FreshItem(i, seen[p][i])
  BY DEF FreshAtHook, FreshItem
<1>1. CASE data[p][i] = None
  BY <1>1 DEF RunInv, Answered
<1>2. CASE data[p][i] # None
  <2>1. seen[p][i] = data[p][i].ver
    BY <1>2 DEF RunInv, Answered
  <2>2. Resolve(i) # None /\ Resolve(i).ver = data[p][i].ver
    BY <1>2 DEF RunInv, NowExposed, ToInstall
  <2>3. seen[p][i] \in Nat
    BY DEF TypeOK, ProcOK, Version
  <2>4. QED
    BY <2>1, <2>2, <2>3 DEF FreshItem
<1>3. QED
  BY <1>1, <1>2

\* A forced run that calls its hook has what the server had.
LEMMA RunMatches ==
    ASSUME TypeOK, NEW p \in Proc, RunInv(p)
    PROVE  MatchesAtHook(p)
<1> SUFFICES ASSUME NEW g \in Version, pc[p] = "hook", force[p],
                    \A j \in Item : seen[p][j] = g, NEW i \in Item
             PROVE  Resolve(i) # None /\ Resolve(i).ver = g
  BY DEF MatchesAtHook
<1>1. seen[p][i] = g /\ g # None
  BY NoneAssumption DEF Version
<1>2. data[p][i] # None
  BY <1>1 DEF RunInv, ForcedData
<1>3. data[p][i].ver = g
  BY <1>1, <1>2 DEF RunInv, Answered
<1>4. QED
  BY <1>2, <1>3 DEF RunInv, NowExposed, ToInstall

\* The inductive invariant of a client that runs alone.
AloneInv == TypeOK /\ History /\ \A p \in Proc : RunInv(p)

\* Every step of the one client, and of the environment, keeps it.
LEMMA NextAloneInv ==
    ASSUME SameSecond = FALSE, \A p, q \in Proc : p = q, AloneInv, [Next]_vars
    PROVE  AloneInv'
<1>1. TypeOK'
  BY NextTypeOK DEF AloneInv
<1>2. History'
  BY NextHistory DEF AloneInv
<1>3. ASSUME NEW p \in Proc
      PROVE  RunInv(p)'
  <2>1. CASE \E q \in Proc : Fetch(q) \/ Write(q) \/ Install(q) \/ Hook(q) \/ Crash(q)
    <3>1. Fetch(p) \/ Write(p) \/ Install(p) \/ Hook(p) \/ Crash(p)
      BY <2>1
    <3>2. QED
      BY <1>1, <3>1, StepRunInv DEF AloneInv
  <2>2. CASE (\E i \in Item : Renew(i)) \/ Tick \/ UNCHANGED vars
    BY <1>1, <2>2, EnvIsLater, LaterRunInv DEF AloneInv
  <2>3. QED
    BY <2>1, <2>2 DEF Next
<1>4. QED
  BY <1>1, <1>2, <1>3 DEF AloneInv

\* It holds throughout.
LEMMA AloneInvHolds ==
    ASSUME SameSecond = FALSE, \A p, q \in Proc : p = q
    PROVE  Spec => []AloneInv
<1>1. Init => AloneInv
  BY InitTypeOK, InitHistory, InitRunInv DEF AloneInv
<1>2. AloneInv /\ [Next]_vars => AloneInv'
  BY NextAloneInv
<1>3. QED
  BY <1>1, <1>2, PTL DEF Spec

\* A client that runs alone and gets as far as its hook leaves every name the
\* server answered for as new as the answer, for any number of items, versions and
\* earlier runs that failed or were killed, whichever items are bundles the server
\* makes on the fly and whatever the difference of the clocks.  Three things are
\* excepted, which the modification time as if-modified-since cannot tell: a version
\* published between the second its predecessor was fetched and the second it was
\* written, one published within the lead of the client's clock after that, and a
\* bundle made of the same certificate as the one the client holds.
THEOREM SuccessIsFreshHolds ==
    ASSUME SameSecond = FALSE, \A p, q \in Proc : p = q
    PROVE  Spec => []SuccessIsFresh
<1>1. AloneInv => SuccessIsFresh
  BY RunIsFresh DEF AloneInv, SuccessIsFresh
<1>2. QED
  BY <1>1, AloneInvHolds, PTL

=============================================================================
