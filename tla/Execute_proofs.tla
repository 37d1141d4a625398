--------------------------- MODULE Execute_proofs ---------------------------
(***************************************************************************)
(* Proofs about Execute, for any set of processes, any number of items and *)
(* any bounds.                                                             *)
(***************************************************************************)
EXTENDS Execute, TLAPS

-----------------------------------------------------------------------------
\* Type correctness.

\* The loops' first and next item are items.
LEMMA ItemFacts == 1 \in Item /\ \A i \in Item : i < N => i + 1 \in Item
  BY NAssumption DEF Item

\* Execute starts in a well-typed state.
LEMMA InitTypeOK == Init => TypeOK
<1> SUFFICES ASSUME Init PROVE TypeOK
  OBVIOUS
<1>1. EnvOK
  <2>1. 0 \in Time /\ 1 \in Time /\ 1 \in Version
    BY MaxTimeAssumption, MaxVerAssumption DEF Time, Version
  <2>2. [at |-> 0, date |-> -Lead] \in Publication
    BY <2>1, LeadAssumption DEF Publication
  <2>3. \A r \in Publication : <<r>> \in Seq(Publication) /\ Len(<<r>>) = 1
    OBVIOUS
  <2> QED
    BY <2>1, <2>2, <2>3 DEF Init, EnvOK
<1>2. ProcOK /\ DirOK /\ NamedOK
  BY NAssumption DEF Init, ProcOK, DirOK, NamedOK, Named, Item, Locations
<1> QED
  BY <1>1, <1>2 DEF TypeOK

\* Closing a file leaves a file.
LEMMA CloseType ==
  ASSUME EnvOK, NEW f \in File \cup {None}, NEW p \in Proc, NEW c \in BOOLEAN
  PROVE  Close(f, p, c) \in File \cup {None}
  BY NoneAssumption DEF EnvOK, Close, File

\* Replacing one file of an item, if the name exists at all.
LEMMA FileUpdate ==
  ASSUME NEW S, NEW g \in [Item -> [Time -> S]], NEW i \in Item,
         NEW t, NEW v, t \in Time => v \in S
  PROVE  [g EXCEPT ![i][t] = v] \in [Item -> [Time -> S]]
<1>1. [g[i] EXCEPT ![t] = v] \in [Time -> S]
  <2>1. CASE t \in Time
    BY <2>1
  <2>2. CASE t \notin Time
    BY <2>2
  <2> QED
    BY <2>1, <2>2
<1> QED
  BY <1>1

\* What WriteAll, WriteFails and Crash do to the file p has open.
Closes(p, c) ==
    /\ file' = [file EXCEPT ![idx[p]][infix[p]] = Close(@, p, c)]
    /\ plain' = [plain EXCEPT ![idx[p]] = Close(@, p, c)]

\* Closing the open file keeps the types of the directory.
LEMMA ClosesType ==
  ASSUME ProcOK, DirOK, EnvOK, NEW p \in Proc, NEW c \in BOOLEAN, Closes(p, c)
  PROVE  /\ file' \in [Item -> [Time -> File \cup {None}]]
         /\ plain' \in [Item -> File \cup {None}]
<1> DEFINE i == idx[p]
           t == infix[p]
           v == Close(file[i][t], p, c)
<1>1. i \in Item
  BY DEF ProcOK
<1>2. t \in Time => v \in File \cup {None}
  BY <1>1, CloseType DEF DirOK
<1>3. file' = [file EXCEPT ![i][t] = v]
  BY DEF Closes
<1>4. file' \in [Item -> [Time -> File \cup {None}]]
  <2> HIDE DEF v, t, i
  <2> QED
    BY <1>1, <1>2, <1>3, FileUpdate DEF DirOK
<1>5. plain' \in [Item -> File \cup {None}]
  BY <1>1, CloseType DEF DirOK, Closes
<1> QED
  BY <1>4, <1>5

\* So does the return of Execute, for its local variables.
LEMMA ReturnType ==
  ASSUME ProcOK, NEW p \in Proc, Return(p)
  PROVE  ProcOK'
<1>1. data' \in [Proc -> [Item -> Body \cup {None}]]
  BY DEF ProcOK, Return
<1>2. seen' \in [Proc -> [Item -> Version \cup {None}]]
  BY DEF ProcOK, Return
<1> QED
  BY <1>1, <1>2, ItemFacts DEF ProcOK, Return, Locations

\* The write loop stays within the items.
LEMMA NextWriteType ==
  ASSUME ProcOK, NEW p \in Proc, NextWrite(p),
         UNCHANGED <<ims, data, seen, infix, optVars>>
  PROVE  ProcOK'
<1>1. pc' \in [Proc -> Locations]
  BY DEF ProcOK, NextWrite, Locations
<1>2. idx' \in [Proc -> Item]
  <2>1. idx[p] \in Item /\ 1 \in Item /\ (idx[p] < N => idx[p] + 1 \in Item)
    BY ItemFacts DEF ProcOK
  <2>2. PICK j \in Item : idx' = [idx EXCEPT ![p] = j]
    BY <2>1 DEF NextWrite
  <2> QED
    BY <2>2 DEF ProcOK
<1>3. todo' \in [Proc -> SUBSET Item]
  BY DEF ProcOK, NextWrite
<1> QED
  BY <1>1, <1>2, <1>3 DEF ProcOK, optVars

\* The fetch loop stays within the items.
LEMMA NextFetchType ==
  ASSUME ProcOK, NEW p \in Proc, NextFetch(p)
  PROVE  /\ pc' \in [Proc -> Locations]
         /\ idx' \in [Proc -> Item]
         /\ ims' \in [Proc -> Time \cup {None}]
<1>1. pc' \in [Proc -> Locations]
  BY DEF ProcOK, NextFetch, Locations
<1>2. idx' \in [Proc -> Item]
  <2>1. idx[p] \in Item /\ 1 \in Item /\ (idx[p] < N => idx[p] + 1 \in Item)
    BY ItemFacts DEF ProcOK
  <2>2. PICK j \in Item : idx' = [idx EXCEPT ![p] = j]
    BY <2>1 DEF NextFetch
  <2> QED
    BY <2>2 DEF ProcOK
<1>3. ims' \in [Proc -> Time \cup {None}]
  BY DEF ProcOK, NextFetch
<1> QED
  BY <1>1, <1>2, <1>3

\* A process has an infix exactly from TakeInfix to its return.
LEMMA NamedStep ==
  ASSUME ProcOK, EnvOK, NamedOK, NEW p \in Proc,
         Fetch(p) \/ Write(p) \/ Install(p) \/ Hook(p) \/ Crash(p)
  PROVE  NamedOK'
<1> USE NoneAssumption DEF ProcOK, NamedOK, Named
<1>1. CASE Return(p)
  BY <1>1 DEF Return
<1>2. CASE TakeInfix(p)
  BY <1>2 DEF TakeInfix, EnvOK, Time
<1>3. CASE /\ infix' = infix
           /\ \E l \in Locations : /\ pc' = [pc EXCEPT ![p] = l]
                                   /\ l \in Named <=> pc[p] \in Named
  BY <1>3
<1>4. Return(p) \/ TakeInfix(p) \/ (infix' = infix /\ \E l \in Locations :
         pc' = [pc EXCEPT ![p] = l] /\ (l \in Named <=> pc[p] \in Named))
  <2>1. CASE Fetch(p)
    BY <2>1 DEF Fetch, Start, Stat, Get200, Get304, GetEmpty, GetFail, NextFetch, Locations
  <2>2. CASE Write(p)
    BY <2>2 DEF Write, SkipItem, OpenNew, OpenFails, WriteAll, WriteFails,
                Cleanup, NextWrite, Locations
  <2>3. CASE Install(p)
    BY <2>3 DEF Install, RemoveTmp, MkSymlink, RenameTmp, RenamePlain,
                InstallFails, InstallDone, Installed, Locations
  <2> QED
    BY <2>1, <2>2, <2>3 DEF Hook, Crash
<1> QED
  BY <1>1, <1>2, <1>3, <1>4

\* The steps of the fetch loop respect the types.
LEMMA FetchTypeOK ==
  ASSUME TypeOK, NEW p \in Proc, Fetch(p)
  PROVE  TypeOK'
<1>0. ProcOK /\ DirOK /\ EnvOK /\ NamedOK
  BY DEF TypeOK
<1>1. EnvOK' /\ DirOK'
  BY <1>0 DEF Fetch, Start, Stat, Get200, Get304, GetEmpty, GetFail, EnvOK, DirOK, dirVars
<1>2. ProcOK'
  <2>1. CASE Start(p)
    BY <1>0, <2>1, ModesAssumption DEF ProcOK, Start, Locations
  <2>2. CASE Stat(p)
    <3>1. Resolve(idx[p]) \in File \cup {None}
      BY <1>0 DEF ProcOK, DirOK, Resolve
    <3>2. ims' \in [Proc -> Time \cup {None}]
      BY <1>0, <2>2, <3>1 DEF ProcOK, Stat, File
    <3> QED
      BY <1>0, <2>2, <3>2 DEF ProcOK, Stat, Locations, optVars
  <2>3. CASE Get200(p)
    <3>1. [ver |-> Current(idx[p]), at |-> now] \in Body /\ Current(idx[p]) \in Version
      BY <1>0 DEF ProcOK, EnvOK, Current, Body
    <3>2. data' \in [Proc -> [Item -> Body \cup {None}]]
      BY <1>0, <2>3, <3>1 DEF ProcOK, Get200
    <3>3. seen' \in [Proc -> [Item -> Version \cup {None}]]
      BY <1>0, <2>3, <3>1 DEF ProcOK, Get200
    <3> QED
      BY <1>0, <2>3, <3>2, <3>3, NextFetchType DEF ProcOK, Get200, optVars
  <2>4. CASE Get304(p)
    <3>1. Current(idx[p]) \in Version
      BY <1>0 DEF ProcOK, EnvOK, Current
    <3>2. seen' \in [Proc -> [Item -> Version \cup {None}]]
      BY <1>0, <2>4, <3>1 DEF ProcOK, Get304
    <3> QED
      BY <1>0, <2>4, <3>2, NextFetchType DEF ProcOK, Get304, optVars
  <2>5. CASE GetEmpty(p)
    BY <1>0, <2>5, NextFetchType DEF ProcOK, GetEmpty, optVars
  <2>6. CASE GetFail(p)
    BY <1>0, <2>6, ReturnType DEF GetFail
  <2> QED
    BY <2>1, <2>2, <2>3, <2>4, <2>5, <2>6 DEF Fetch
<1> QED
  BY <1>0, <1>1, <1>2, NamedStep DEF TypeOK

\* So do the steps of the write loop.
LEMMA WriteTypeOK ==
  ASSUME TypeOK, NEW p \in Proc, Write(p)
  PROVE  TypeOK'
<1>0. ProcOK /\ DirOK /\ EnvOK /\ NamedOK
  BY DEF TypeOK
<1>1. EnvOK'
  BY <1>0 DEF Write, TakeInfix, SkipItem, OpenNew, OpenFails, WriteAll, WriteFails,
              Cleanup, EnvOK
<1>2. DirOK'
  <2>1. CASE TakeInfix(p) \/ SkipItem(p) \/ OpenFails(p)
    BY <1>0, <2>1 DEF TakeInfix, SkipItem, OpenFails, DirOK, dirVars
  <2>2. CASE OpenNew(p)
    <3> DEFINE d == data[p][idx[p]]
               f == [ver |-> d.ver, at |-> d.at, mtime |-> now,
                     whole |-> FALSE, by |-> p]
    <3>1. d \in Body
      BY <1>0, <2>2 DEF OpenNew, ProcOK
    <3>2. f \in File
      BY <1>0, <3>1 DEF EnvOK, Body, File
    <3> HIDE DEF f
    <3>3. file' = [file EXCEPT ![idx[p]][infix[p]] = f]
      BY <2>2 DEF OpenNew, f
    <3>4. file' \in [Item -> [Time -> File \cup {None}]]
      BY <1>0, <3>2, <3>3, FileUpdate DEF DirOK, ProcOK
    <3> QED
      BY <1>0, <2>2, <3>4 DEF OpenNew, DirOK
  <2>3. CASE WriteAll(p) \/ WriteFails(p)
    <3>1. PICK c \in BOOLEAN : Closes(p, c)
      BY <2>3 DEF WriteAll, WriteFails, Closes
    <3> QED
      BY <1>0, <2>3, <3>1, ClosesType DEF DirOK, WriteAll, WriteFails
  <2>4. CASE Cleanup(p)
    BY <1>0, <2>4 DEF Cleanup, DirOK
  <2> QED
    BY <2>1, <2>2, <2>3, <2>4 DEF Write
<1>3. ProcOK'
  <2>1. CASE TakeInfix(p)
    BY <1>0, <2>1 DEF TakeInfix, ProcOK, EnvOK, Locations, optVars
  <2>2. CASE SkipItem(p) \/ WriteAll(p)
    BY <1>0, <2>2, NextWriteType DEF SkipItem, WriteAll
  <2>3. CASE OpenNew(p) \/ OpenFails(p) \/ WriteFails(p)
    BY <1>0, <2>3 DEF OpenNew, OpenFails, WriteFails, ProcOK, Locations, optVars
  <2>4. CASE Cleanup(p)
    BY <1>0, <2>4, ReturnType DEF Cleanup
  <2> QED
    BY <2>1, <2>2, <2>3, <2>4 DEF Write
<1> QED
  BY <1>0, <1>1, <1>2, <1>3, NamedStep DEF TypeOK

\* And the steps of the install loop.
LEMMA InstallTypeOK ==
  ASSUME TypeOK, NEW p \in Proc, Install(p)
  PROVE  TypeOK'
<1>0. ProcOK /\ DirOK /\ EnvOK /\ NamedOK
  BY DEF TypeOK
<1>1. EnvOK'
  BY <1>0 DEF Install, RemoveTmp, MkSymlink, RenameTmp, RenamePlain, InstallFails,
              InstallDone, EnvOK
<1>2. DirOK'
  <2>1. CASE RemoveTmp(p) \/ MkSymlink(p) \/ RenameTmp(p)
    BY <1>0, <2>1 DEF RemoveTmp, MkSymlink, RenameTmp, DirOK, ProcOK
  <2>2. CASE RenamePlain(p)
    <3>1. PICK i \in todo[p] :
             /\ file[i][infix[p]] # None
             /\ plain' = [plain EXCEPT ![i] = file[i][infix[p]]]
             /\ link' = [link EXCEPT ![i] = None]
             /\ file' = [file EXCEPT ![i][infix[p]] = None]
      BY <2>2 DEF RenamePlain
    <3>2. i \in Item
      BY <1>0, <3>1 DEF ProcOK
    <3>3. infix[p] \in Time
      BY <1>0, <2>2 DEF RenamePlain, ProcOK, NamedOK, Named
    <3>4. file' \in [Item -> [Time -> File \cup {None}]]
      BY <1>0, <3>1, <3>2, FileUpdate DEF DirOK
    <3> QED
      BY <1>0, <2>2, <3>1, <3>2, <3>3, <3>4 DEF RenamePlain, DirOK
  <2>3. CASE InstallFails(p) \/ InstallDone(p)
    BY <1>0, <2>3 DEF InstallFails, InstallDone, DirOK, dirVars
  <2> QED
    BY <2>1, <2>2, <2>3 DEF Install
<1>3. ProcOK'
  <2>1. CASE RemoveTmp(p)
    BY <1>0, <2>1 DEF RemoveTmp, ProcOK, Locations, optVars
  <2>2. CASE MkSymlink(p) \/ InstallDone(p)
    BY <1>0, <2>2 DEF MkSymlink, InstallDone, ProcOK, Locations, optVars
  <2>3. CASE RenameTmp(p) \/ RenamePlain(p)
    <3>1. PICK i \in Item : Installed(p, i)
      BY <1>0, <2>3 DEF RenameTmp, RenamePlain, ProcOK
    <3> QED
      BY <1>0, <2>3, <3>1, ItemFacts
         DEF Installed, RenameTmp, RenamePlain, ProcOK, Locations, optVars
  <2>4. CASE InstallFails(p)
    BY <1>0, <2>4, ReturnType DEF InstallFails
  <2> QED
    BY <2>1, <2>2, <2>3, <2>4 DEF Install
<1> QED
  BY <1>0, <1>1, <1>2, <1>3, NamedStep DEF TypeOK

\* A renewal adds one version, there from now on, with one of the possible dates.
LEMMA RenewShape ==
  ASSUME TypeOK, NEW k \in Item, Renew(k)
  PROVE  \E r \in Publication : /\ r.at = now
                                 /\ r.date \in Dates(k)
                                 /\ pub' = [pub EXCEPT ![k] = Append(@, r)]
<1>1. PICK d \in Dates(k) : pub' = [pub EXCEPT ![k] = Append(@, [at |-> now, date |-> d])]
  BY DEF Renew
<1>2. now \in Time /\ now \in Int /\ pub[k] \in Seq(Publication) /\ Len(pub[k]) \in 1..MaxVer
  BY MaxTimeAssumption DEF TypeOK, EnvOK, Time, Version
<1>3. pub[k][Len(pub[k])].date \in Int
  <2>1. Len(pub[k]) \in 1..Len(pub[k])
    BY <1>2, MaxVerAssumption
  <2>2. pub[k][Len(pub[k])] \in Publication
    BY <1>2, <2>1
  <2> QED
    BY <2>2 DEF Publication
<1>4. d \in Int
  BY <1>1, <1>2, <1>3, LeadAssumption DEF Dates, Current
<1> QED
  BY <1>1, <1>2, <1>4 DEF Publication

\* Every step of Next respects the types.
LEMMA NextTypeOK == TypeOK /\ [Next]_vars => TypeOK'
<1> SUFFICES ASSUME TypeOK, [Next]_vars
             PROVE  TypeOK'
  OBVIOUS
<1>0. ProcOK /\ DirOK /\ EnvOK /\ NamedOK
  BY DEF TypeOK
<1>1. ASSUME NEW p \in Proc, Hook(p)
      PROVE  TypeOK'
  <2>1. ProcOK'
    BY <1>0, <1>1, ReturnType DEF Hook
  <2> QED
    BY <1>0, <1>1, <2>1, NamedStep DEF TypeOK, Hook, DirOK, EnvOK, dirVars
<1>2. ASSUME NEW p \in Proc, Crash(p)
      PROVE  TypeOK'
  <2>1. ProcOK'
    BY <1>0, <1>2, ReturnType DEF Crash
  <2>2. Closes(p, FALSE) \/ UNCHANGED <<file, plain>>
    BY <1>2 DEF Crash, Closes
  <2>3. DirOK'
    BY <1>0, <1>2, <2>2, ClosesType DEF Crash, DirOK
  <2> QED
    BY <1>0, <1>2, <2>1, <2>3, NamedStep DEF TypeOK, Crash, EnvOK
<1>3. ASSUME NEW i \in Item, Renew(i)
      PROVE  TypeOK'
  <2>1. EnvOK'
    <3>1. PICK r \in Publication : pub' = [pub EXCEPT ![i] = Append(@, r)]
      BY <1>3, RenewShape
    <3>2. pub' \in [Item -> Seq(Publication)] /\ Len(pub'[i]) = Len(pub[i]) + 1
      BY <1>0, <3>1 DEF EnvOK
    <3>3. \A j \in Item \ {i} : pub'[j] = pub[j]
      BY <1>0, <3>1 DEF EnvOK
    <3>4. now' = now /\ stamp' = stamp /\ Len(pub[i]) < MaxVer
      BY <1>3 DEF Renew, Current
    <3>5. Len(pub'[i]) \in Version
      BY <1>0, <3>2, <3>4, MaxVerAssumption DEF EnvOK, Version
    <3>6. \A j \in Item : Len(pub'[j]) \in Version
      BY <1>0, <3>3, <3>5 DEF EnvOK
    <3> QED
      BY <1>0, <3>2, <3>4, <3>6 DEF EnvOK
  <2> QED
    BY <1>0, <1>3, <2>1 DEF TypeOK, Renew, ProcOK, DirOK, NamedOK, dirVars, optVars
<1>4. CASE Tick
  <2>1. now' \in Time
    BY <1>0, <1>4, MaxTimeAssumption DEF Tick, EnvOK, Time
  <2> QED
    BY <1>0, <1>4, <2>1 DEF TypeOK, Tick, ProcOK, DirOK, EnvOK, NamedOK, dirVars, optVars
<1>5. CASE UNCHANGED vars
  BY <1>0, <1>5 DEF TypeOK, ProcOK, DirOK, EnvOK, NamedOK, vars, dirVars, optVars
<1> QED
  BY <1>1, <1>2, <1>3, <1>4, <1>5, FetchTypeOK, WriteTypeOK, InstallTypeOK DEF Next

\* Every variable keeps its type whatever the processes do.
THEOREM TypeCorrect == Spec => []TypeOK
<1>1. Init => TypeOK
  BY InitTypeOK
<1>2. TypeOK /\ [Next]_vars => TypeOK'
  BY NextTypeOK
<1> QED
  BY <1>1, <1>2, PTL DEF Spec

-----------------------------------------------------------------------------
\* The inductive invariant behind ExposedComplete and KeepsOldFiles.

Writing == {"write", "fill", "clean"}
Installing == {"link", "symlink", "rename"}

\* No infix is later than the last one that was taken.
InfixTaken == \A p \in Proc : pc[p] \in Named => infix[p] <= stamp

\* No two processes have the same infix.
InfixUnique ==
    \A p, q \in Proc : infix[p] # None /\ infix[p] = infix[q] => p = q

\* No name has an infix that is yet to come.
NamesOld == \A i \in Item, t \in Time : file[i][t] # None => t <= stamp

\* Only published versions are fetched and written.
DataPublished ==
    \A p \in Proc, i \in Item :
       data[p][i] # None => data[p][i].ver \in 1..Current(i)
FilesPublished ==
    /\ \A i \in Item, t \in Time :
          file[i][t] # None => file[i][t].ver \in 1..Current(i)
    /\ \A i \in Item : plain[i] # None => plain[i].ver \in 1..Current(i)

\* A whole file is not open for writing any more.
WholeClosed ==
    \A i \in Item, t \in Time :
       file[i][t] # None /\ file[i][t].whole => file[i][t].by = None

\* What is linked to, or installed by a rename, is whole.
Whole(f) == f # None /\ f.whole
TargetsWhole ==
    \A i \in Item :
       /\ link[i] # None => Whole(file[i][link[i]])
       /\ tmp[i] # None => Whole(file[i][tmp[i]])
       /\ plain[i] # None => plain[i].whole /\ plain[i].by = None

\* No link leads to a file that its process may still remove or rename.
Unlinked(p) ==
    pc[p] \in Writing \/ (pc[p] \in Installing /\ ~sym[p]) =>
       \A i \in Item : link[i] # infix[p] /\ tmp[i] # infix[p]
NotYetLinked == \A p \in Proc : Unlinked(p)

\* The items p is done writing, and those it has yet to install, are whole.
Written(p) ==
    /\ pc[p] = "infix" => idx[p] = 1
    /\ pc[p] \in {"write", "fill"} =>
          \A i \in Item : i < idx[p] /\ data[p][i] # None
                           => Whole(file[i][infix[p]])
    /\ pc[p] = "fill" => /\ file[idx[p]][infix[p]] # None
                         /\ file[idx[p]][infix[p]].by = p
    /\ pc[p] \in Installing =>
          \A i \in todo[p] : Whole(file[i][infix[p]])
    /\ pc[p] \in {"symlink", "rename"} => sym[p] /\ idx[p] \in todo[p]
WrittenWhole == \A p \in Proc : Written(p)

Shape ==
    /\ InfixTaken /\ InfixUnique /\ NamesOld
    /\ DataPublished /\ FilesPublished
    /\ WholeClosed /\ TargetsWhole /\ NotYetLinked /\ WrittenWhole

IInv == TypeOK /\ Shape

\* The invariant holds in the empty directory Execute starts with.
LEMMA InitShape == Init => Shape
  BY NoneAssumption
     DEF Init, Shape, InfixTaken, InfixUnique, NamesOld, DataPublished,
         FilesPublished, WholeClosed, TargetsWhole, NotYetLinked, WrittenWhole,
         Unlinked, Written, Named, Writing, Installing

\* What every step of p except TakeInfix respects: the local variables of the
\* others, the files that do not carry p's infix, and where links may lead.
Frame(p) ==
    /\ UNCHANGED <<pub, stamp>>
    /\ infix'[p] \in {infix[p], None}
    /\ \A q \in Proc \ {p} :
          /\ pc'[q] = pc[q] /\ idx'[q] = idx[q] /\ data'[q] = data[q]
          /\ infix'[q] = infix[q] /\ todo'[q] = todo[q] /\ sym'[q] = sym[q]
    /\ \A i \in Item : \A t \in Time \ {infix[p]} : file'[i][t] = file[i][t]
    /\ \A i \in Item : /\ link'[i] \in {link[i], tmp[i], None}
                       /\ tmp'[i] \in {tmp[i], infix[p], None}

\* The parts of the invariant that the frame alone preserves.
LEMMA FrameShape ==
  ASSUME IInv, TypeOK', NEW p \in Proc, Frame(p)
  PROVE  /\ InfixTaken' /\ InfixUnique' /\ NamesOld'
         /\ \A q \in Proc \ {p} : Unlinked(q)' /\ Written(q)'
<1> USE DEF IInv, Shape
<1>1. \A q \in Proc : pc[q] \in Named => infix[q] \in Time
  BY DEF TypeOK, ProcOK, NamedOK
<1>2. InfixTaken'
  BY DEF InfixTaken, Frame, TypeOK, NamedOK
<1>3. InfixUnique'
  BY DEF InfixUnique, Frame
<1>4. NamesOld'
  <2> SUFFICES ASSUME NEW i \in Item, NEW t \in Time, file'[i][t] # None
               PROVE  t <= stamp
    BY DEF NamesOld, Frame
  <2>1. CASE t = infix[p]
    BY <2>1, NoneAssumption DEF InfixTaken, TypeOK, NamedOK, Time
  <2>2. CASE t # infix[p]
    BY <2>2 DEF NamesOld, Frame
  <2> QED
    BY <2>1, <2>2
<1>5. ASSUME NEW q \in Proc \ {p}
      PROVE  Unlinked(q)' /\ Written(q)'
  <2>1. pc[q] \in Named => infix[q] # infix[p] /\ infix[q] # None
    BY <1>1, NoneAssumption DEF InfixUnique, Time
  <2>2. Writing \subseteq Named /\ Installing \subseteq Named
    BY DEF Writing, Installing, Named
  <2>3. Unlinked(q) /\ Written(q)
    BY DEF NotYetLinked, WrittenWhole
  <2>4. Unlinked(q)'
    BY <2>1, <2>2, <2>3 DEF Unlinked, Frame
  <2>5. pc[q] \in Named => \A i \in Item : file'[i][infix[q]] = file[i][infix[q]]
    BY <1>1, <2>1 DEF Frame
  <2>6. todo[q] \subseteq Item /\ idx[q] \in Item
    BY DEF TypeOK, ProcOK
  <2>7. /\ pc'[q] = pc[q] /\ idx'[q] = idx[q] /\ data'[q] = data[q]
        /\ infix'[q] = infix[q] /\ todo'[q] = todo[q] /\ sym'[q] = sym[q]
    BY DEF Frame
  <2>8. CASE pc[q] \notin Named
    BY <2>3, <2>4, <2>7, <2>8 DEF Written, Named, Installing
  <2>9. CASE pc[q] \in Named
    <3>1. \A i \in Item : Whole(file[i][infix[q]]) => Whole(file[i][infix[q]])'
      BY <2>5, <2>7, <2>9 DEF Whole
    <3> QED
      BY <2>3, <2>4, <2>5, <2>6, <2>7, <2>9, <3>1 DEF Written
  <2> QED
    BY <2>8, <2>9
<1> QED
  BY <1>2, <1>3, <1>4, <1>5

\* With the frame, the parts that speak of p and of the files are left.
LEMMA StepShape ==
  ASSUME IInv, TypeOK', NEW p \in Proc, Frame(p),
         DataPublished', FilesPublished', WholeClosed', TargetsWhole',
         Unlinked(p)', Written(p)'
  PROVE  Shape'
  BY FrameShape DEF Shape, NotYetLinked, WrittenWhole

-----------------------------------------------------------------------------
\* Facts the actions share.

\* Steps that leave the directory alone.
LEMMA SameFiles ==
  ASSUME IInv, UNCHANGED <<pub, dirVars>>
  PROVE  FilesPublished' /\ WholeClosed' /\ TargetsWhole'
<1> USE DEF IInv, Shape, dirVars
<1>1. FilesPublished'
  BY DEF FilesPublished, Current
<1>2. WholeClosed' /\ TargetsWhole'
  BY DEF WholeClosed, TargetsWhole, Whole
<1> QED
  BY <1>1, <1>2

\* Steps that fetch nothing leave what was fetched published.
LEMMA SameData ==
  ASSUME IInv, UNCHANGED <<pub, data>>
  PROVE  DataPublished'
  BY DEF IInv, Shape, DataPublished, Current

\* Execute returns: only the files matter.
LEMMA ReturnShape ==
  ASSUME IInv, TypeOK', NEW p \in Proc, Return(p), Frame(p),
         FilesPublished', WholeClosed', TargetsWhole'
  PROVE  Shape'
<1>1. pc'[p] = "idle" /\ \A i \in Item : data'[p][i] = None
  BY DEF IInv, TypeOK, ProcOK, Return
<1>2. DataPublished'
  <2> SUFFICES ASSUME NEW q \in Proc, NEW i \in Item, data'[q][i] # None
               PROVE  data'[q][i].ver \in 1..Current(i)'
    BY DEF DataPublished
  <2>1. q # p
    BY <1>1
  <2>2. data'[q] = data[q] /\ pub' = pub
    BY <2>1 DEF Frame
  <2> QED
    BY <2>2 DEF IInv, Shape, DataPublished, Current
<1>3. Unlinked(p)' /\ Written(p)'
  BY <1>1 DEF Unlinked, Written, Writing, Installing
<1> QED
  BY <1>2, <1>3, StepShape

\* In "fill" the file of p is the one with its infix, and nothing leads to it.
LEMMA ClosesFiles ==
  ASSUME IInv, TypeOK', NEW p \in Proc, pc[p] = "fill", NEW c \in BOOLEAN,
         Closes(p, c), UNCHANGED <<pub, link, tmp>>
  PROVE  /\ plain' = plain
         /\ \A i \in Item : \A t \in Time \ {infix[p]} : file'[i][t] = file[i][t]
         /\ \A i \in Item \ {idx[p]} : file'[i] = file[i]
         /\ file'[idx[p]][infix[p]] # None
         /\ file'[idx[p]][infix[p]].whole = c
         /\ FilesPublished' /\ WholeClosed' /\ TargetsWhole'
<1> USE DEF IInv, Shape
<1> DEFINE i == idx[p]
           t == infix[p]
           f == file[i][t]
           g == Close(f, p, c)
<1>1. i \in Item /\ t \in Time /\ f \in File /\ f.by = p
  BY NoneAssumption DEF TypeOK, ProcOK, DirOK, NamedOK, Named, WrittenWhole, Written
<1>2. g # None /\ g.whole = c /\ g.by = None /\ g.ver = f.ver
  <2>1. f # None
    BY <1>1, NoRecordAssumption
  <2>2. g \in File /\ g.whole = c /\ g.by = None /\ g.ver = f.ver
    BY <1>1, <2>1 DEF Close, File, TypeOK, EnvOK
  <2> QED
    BY <2>2, NoRecordAssumption
<1>3. file' = [file EXCEPT ![i][t] = g]
  BY DEF Closes
<1>4. \A j \in Item : plain[j] # None => plain[j].by # p
  BY NoneAssumption DEF TargetsWhole
<1>5. plain' = plain
  BY <1>1, <1>4 DEF Closes, Close, TypeOK, DirOK
<1>6. /\ \A j \in Item : \A u \in Time : j # i \/ u # t => file'[j][u] = file[j][u]
      /\ \A j \in Item \ {i} : file'[j] = file[j]
      /\ file'[i][t] = g
  BY <1>1, <1>3 DEF TypeOK, DirOK
<1> HIDE DEF g, f, t, i
<1>7. FilesPublished'
  <2>1. f.ver \in 1..Current(i)
    BY <1>1, NoRecordAssumption DEF FilesPublished, f
  <2> QED
    BY <1>1, <1>2, <1>5, <1>6, <2>1 DEF FilesPublished, Current
<1>8. WholeClosed'
  BY <1>2, <1>6 DEF WholeClosed
<1>9. TargetsWhole'
  <2>1. \A j \in Item : link[j] # t /\ tmp[j] # t
    BY DEF NotYetLinked, Unlinked, Writing, t
  <2> QED
    BY <1>5, <1>6, <2>1 DEF TargetsWhole, Whole, TypeOK, DirOK
<1> QED
  BY <1>2, <1>5, <1>6, <1>7, <1>8, <1>9 DEF i, t

-----------------------------------------------------------------------------
\* The invariant is preserved by the fetch loop.
LEMMA FetchShape ==
  ASSUME IInv, TypeOK', NEW p \in Proc, Fetch(p)
  PROVE  Shape'
<1>0. TypeOK /\ Shape
  BY DEF IInv
<1>1. Frame(p)
  <2> USE <1>0 DEF Frame, TypeOK, ProcOK, dirVars, optVars
  <2>1. CASE Start(p)
    BY <2>1 DEF Start
  <2>2. CASE Stat(p)
    BY <2>2 DEF Stat
  <2>3. CASE Get200(p)
    BY <2>3 DEF Get200, NextFetch
  <2>4. CASE Get304(p)
    BY <2>4 DEF Get304, NextFetch
  <2>5. CASE GetEmpty(p)
    BY <2>5 DEF GetEmpty, NextFetch
  <2>6. CASE GetFail(p)
    BY <2>6 DEF GetFail, Return
  <2> QED
    BY <2>1, <2>2, <2>3, <2>4, <2>5, <2>6 DEF Fetch
<1>2. UNCHANGED <<pub, dirVars>>
  BY DEF Fetch, Start, Stat, Get200, Get304, GetEmpty, GetFail
<1>3. FilesPublished' /\ WholeClosed' /\ TargetsWhole'
  BY <1>2, SameFiles
<1>4. CASE GetFail(p)
  BY <1>1, <1>3, <1>4, ReturnShape DEF GetFail
<1>5. CASE Start(p) \/ Stat(p) \/ Get200(p) \/ Get304(p) \/ GetEmpty(p)
  <2>1. pc'[p] \in {"stat", "get", "infix"}
    BY <1>0, <1>5 DEF Start, Stat, Get200, Get304, GetEmpty, NextFetch, TypeOK, ProcOK
  <2>2. pc'[p] = "infix" => idx'[p] = 1
    BY <1>0, <1>5 DEF Start, Stat, Get200, Get304, GetEmpty, NextFetch, TypeOK, ProcOK
  <2>3. Unlinked(p)' /\ Written(p)'
    BY <2>1, <2>2 DEF Unlinked, Written, Writing, Installing
  <2>4. DataPublished'
    <3>1. CASE Get200(p)
      <4> DEFINE d == [ver |-> Current(idx[p]), at |-> now]
      <4>1. d.ver \in 1..Current(idx[p])
        BY <1>0 DEF TypeOK, ProcOK, EnvOK, Current, Version
      <4>2. idx[p] \in Item /\ data \in [Proc -> [Item -> Body \cup {None}]]
        BY <1>0 DEF TypeOK, ProcOK
      <4>3. data' = [data EXCEPT ![p][idx[p]] = d] /\ pub' = pub
        BY <3>1 DEF Get200
      <4> HIDE DEF d
      <4> QED
        BY <1>0, <4>1, <4>2, <4>3 DEF Shape, DataPublished, Current
    <3>2. CASE Start(p) \/ Stat(p) \/ Get304(p) \/ GetEmpty(p)
      BY <3>2, SameData DEF Start, Stat, Get304, GetEmpty
    <3> QED
      BY <1>5, <3>1, <3>2
  <2> QED
    BY <1>1, <1>3, <2>3, <2>4, StepShape
<1> QED
  BY <1>4, <1>5 DEF Fetch

\* By TakeInfix: the new infix is later than all names there are.
LEMMA TakeInfixShape ==
  ASSUME IInv, TypeOK', SameSecond = FALSE, NEW p \in Proc, TakeInfix(p)
  PROVE  Shape'
<1> USE DEF IInv, Shape
<1>1. /\ now > stamp /\ now \in Time /\ stamp \in Time /\ stamp' = now
      /\ infix' = [infix EXCEPT ![p] = now] /\ infix'[p] = now
      /\ pc' = [pc EXCEPT ![p] = "write"] /\ pc'[p] = "write"
  BY DEF TakeInfix, TypeOK, EnvOK, ProcOK
<1>2. UNCHANGED <<pub, file, link, plain, tmp, idx, data, todo, sym>>
  BY DEF TakeInfix, dirVars, optVars
<1>3. InfixTaken'
  BY <1>1 DEF InfixTaken, TypeOK, ProcOK, NamedOK, Time
<1>4. \A q \in Proc : infix[q] # None => infix[q] <= stamp
  BY DEF InfixTaken, TypeOK, NamedOK
<1>5. InfixUnique'
  <2> SUFFICES ASSUME NEW q \in Proc, NEW r \in Proc,
                      infix'[q] # None, infix'[q] = infix'[r], q # r
               PROVE  FALSE
    BY DEF InfixUnique
  <2>1. \A x \in Proc \ {p} : infix'[x] = infix[x]
    BY <1>1 DEF TypeOK, ProcOK
  <2>2. \A x \in Proc \ {p} : infix[x] # now
    BY <1>1, <1>4, NoneAssumption DEF TypeOK, ProcOK, Time
  <2> QED
    BY <1>1, <2>1, <2>2 DEF InfixUnique
<1>6. NamesOld'
  BY <1>1, <1>2 DEF NamesOld, Time
<1>7. FilesPublished' /\ WholeClosed' /\ TargetsWhole'
  BY <1>2, SameFiles DEF dirVars
<1>8. DataPublished'
  BY <1>2, SameData
<1>9. \A i \in Item : link[i] # now /\ tmp[i] # now
  BY <1>1, NoneAssumption DEF TargetsWhole, Whole, NamesOld, TypeOK, DirOK, Time
<1>10. ASSUME NEW q \in Proc
       PROVE  Unlinked(q)' /\ Written(q)'
  <2>1. CASE q = p
    <3>1. Unlinked(p)'
      BY <1>1, <1>2, <1>9 DEF Unlinked
    <3>2. idx[p] = 1
      BY DEF TakeInfix, WrittenWhole, Written
    <3>3. Written(p)'
      BY <1>1, <1>2, <3>2 DEF Written, Installing, Item
    <3> QED
      BY <2>1, <3>1, <3>3
  <2>2. CASE q # p
    <3>1. pc'[q] = pc[q] /\ infix'[q] = infix[q]
      BY <1>1, <2>2 DEF TypeOK, ProcOK
    <3>2. Unlinked(q) /\ Written(q)
      BY DEF NotYetLinked, WrittenWhole
    <3> QED
      BY <1>2, <3>1, <3>2 DEF Unlinked, Written, Whole
  <2> QED
    BY <2>1, <2>2
<1> QED
  BY <1>3, <1>5, <1>6, <1>7, <1>8, <1>10 DEF NotYetLinked, WrittenWhole

\* When the write loop goes on, what it leaves behind is whole.
LEMMA NextWriteWritten ==
  ASSUME IInv, TypeOK', NEW p \in Proc, NextWrite(p), UNCHANGED <<data, infix, sym>>,
         pc[p] \in {"write", "fill"},
         \A i \in Item : i <= idx[p] /\ data[p][i] # None => Whole(file[i][infix[p]])'
  PROVE  Written(p)'
<1>0. TypeOK /\ TypeOK'
  BY DEF IInv
<1>1. CASE idx[p] < N
  <2>1. pc'[p] = "write" /\ idx'[p] = idx[p] + 1 /\ idx[p] \in Nat
    BY <1>0, <1>1, NAssumption DEF NextWrite, TypeOK, ProcOK, Item
  <2>2. \A i \in Item : i < idx'[p] => i <= idx[p]
    BY <2>1 DEF Item
  <2> QED
    BY <2>1, <2>2 DEF Written, Installing
<1>2. CASE ~(idx[p] < N)
  <2>1. pc'[p] = "link" /\ todo'[p] = {i \in Item : data[p][i] # None}
    BY <1>0, <1>2 DEF NextWrite, TypeOK, ProcOK
  <2>2. \A i \in Item : i <= idx[p]
    BY <1>0, <1>2, NAssumption DEF Item, TypeOK, ProcOK
  <2> QED
    BY <2>1, <2>2 DEF Written
<1> QED
  BY <1>1, <1>2

\* By the other steps of the write loop.
LEMMA WriteShape ==
  ASSUME IInv, TypeOK', NEW p \in Proc, Write(p), ~TakeInfix(p)
  PROVE  Shape'
<1>0. TypeOK /\ Shape /\ Unlinked(p) /\ Written(p)
  BY DEF IInv, Shape, NotYetLinked, WrittenWhole
<1>1. idx[p] \in Item /\ (pc[p] \in Named => infix[p] \in Time)
  BY <1>0 DEF TypeOK, ProcOK, NamedOK
<1>2. CASE SkipItem(p)
  <2>1. pc[p] = "write" /\ data[p][idx[p]] = None /\ NextWrite(p)
        /\ UNCHANGED <<pub, file, link, plain, tmp, stamp, data, infix, sym>>
    BY <1>2 DEF SkipItem, dirVars, optVars
  <2>2. Frame(p)
    BY <1>0, <2>1 DEF Frame, NextWrite, TypeOK, ProcOK
  <2>3. \A i \in Item : i <= idx[p] /\ data[p][i] # None => Whole(file[i][infix[p]])'
    BY <1>0, <1>1, <2>1 DEF Written, Whole, Item
  <2>4. Written(p)'
    BY <2>1, <2>3, NextWriteWritten
  <2>5. Unlinked(p)'
    BY <1>0, <2>1 DEF Unlinked, Writing
  <2>6. FilesPublished' /\ WholeClosed' /\ TargetsWhole' /\ DataPublished'
    BY <2>1, SameFiles, SameData DEF dirVars
  <2> QED
    BY <2>2, <2>4, <2>5, <2>6, StepShape
<1>3. CASE OpenNew(p)
  <2> DEFINE i == idx[p]
             t == infix[p]
             d == data[p][i]
             f == [ver |-> d.ver, at |-> d.at, mtime |-> now,
                   whole |-> FALSE, by |-> p]
  <2>1. /\ pc[p] = "write" /\ pc'[p] = "fill" /\ t \in Time
        /\ d # None /\ file[i][t] = None
        /\ UNCHANGED <<pub, link, plain, tmp, stamp, idx, data, infix, todo, sym>>
    BY <1>0, <1>1, <1>3 DEF OpenNew, optVars, TypeOK, ProcOK, Named
  <2>2. file' = [file EXCEPT ![i][t] = f]
    BY <1>3 DEF OpenNew
  <2>3. f \in File /\ f.ver = d.ver /\ f.whole = FALSE /\ f.by = p
    BY <1>0, <1>1, <2>1 DEF TypeOK, ProcOK, EnvOK, Body, File
  <2>4. f # None
    BY <2>3, NoRecordAssumption
  <2> HIDE DEF f
  <2>5. /\ \A j \in Item : \A u \in Time : j # i \/ u # t => file'[j][u] = file[j][u]
        /\ file'[i][t] = f
    BY <1>0, <1>1, <2>1, <2>2 DEF TypeOK, DirOK
  <2>6. Frame(p)
    BY <1>0, <1>3, <2>1, <2>5 DEF Frame, OpenNew, TypeOK, ProcOK
  <2>7. DataPublished'
    BY <2>1, SameData
  <2>8. FilesPublished'
    <3>1. d.ver \in 1..Current(i)
      BY <1>0, <1>1, <2>1 DEF Shape, DataPublished
    <3> QED
      BY <1>0, <2>1, <2>3, <2>5, <3>1 DEF Shape, FilesPublished, Current
  <2>9. WholeClosed'
    BY <1>0, <2>3, <2>5 DEF Shape, WholeClosed
  <2>10. TargetsWhole'
    <3>1. \A j \in Item : link[j] # t /\ tmp[j] # t
      BY <1>0, <2>1 DEF Unlinked, Writing
    <3> QED
      BY <1>0, <2>1, <2>5, <3>1 DEF Shape, TargetsWhole, Whole, TypeOK, DirOK
  <2>11. Unlinked(p)'
    BY <1>0, <2>1 DEF Unlinked, Writing
  <2>12. Written(p)'
    BY <1>0, <1>1, <2>1, <2>3, <2>4, <2>5 DEF Written, Whole, Installing, Item
  <2> QED
    BY <2>6, <2>7, <2>8, <2>9, <2>10, <2>11, <2>12, StepShape
<1>4. CASE OpenFails(p)
  <2>1. pc[p] = "write" /\ pc'[p] = "clean"
        /\ UNCHANGED <<pub, file, link, plain, tmp, stamp, idx, data, infix, todo, sym>>
    BY <1>0, <1>4 DEF OpenFails, dirVars, optVars, TypeOK, ProcOK
  <2>2. Frame(p)
    BY <1>0, <1>4, <2>1 DEF Frame, OpenFails, TypeOK, ProcOK
  <2>3. Unlinked(p)' /\ Written(p)'
    BY <1>0, <2>1 DEF Unlinked, Written, Writing, Installing
  <2>4. FilesPublished' /\ WholeClosed' /\ TargetsWhole' /\ DataPublished'
    BY <2>1, SameFiles, SameData DEF dirVars
  <2> QED
    BY <2>2, <2>3, <2>4, StepShape
<1>5. CASE WriteAll(p)
  <2>1. pc[p] = "fill" /\ Closes(p, TRUE) /\ NextWrite(p)
        /\ UNCHANGED <<pub, link, tmp, stamp, data, infix, sym>>
    BY <1>5 DEF WriteAll, Closes, optVars
  <2>2. /\ plain' = plain
        /\ \A i \in Item : \A t \in Time \ {infix[p]} : file'[i][t] = file[i][t]
        /\ \A i \in Item \ {idx[p]} : file'[i] = file[i]
        /\ file'[idx[p]][infix[p]] # None
        /\ file'[idx[p]][infix[p]].whole
        /\ FilesPublished' /\ WholeClosed' /\ TargetsWhole'
    BY <2>1, ClosesFiles
  <2>3. Frame(p)
    BY <1>0, <2>1, <2>2 DEF Frame, NextWrite, TypeOK, ProcOK
  <2>4. \A i \in Item : i <= idx[p] /\ data[p][i] # None => Whole(file[i][infix[p]])'
    BY <1>0, <1>1, <2>1, <2>2 DEF Written, Whole, Item
  <2>5. Written(p)'
    BY <2>1, <2>4, NextWriteWritten
  <2>6. Unlinked(p)'
    BY <1>0, <2>1 DEF Unlinked, Writing
  <2>7. DataPublished'
    BY <2>1, SameData
  <2> QED
    BY <2>2, <2>3, <2>5, <2>6, <2>7, StepShape
<1>6. CASE WriteFails(p)
  <2>1. pc[p] = "fill" /\ pc'[p] = "clean" /\ Closes(p, FALSE)
        /\ UNCHANGED <<pub, link, tmp, stamp, idx, data, infix, todo, sym>>
    BY <1>0, <1>6 DEF WriteFails, Closes, optVars, TypeOK, ProcOK
  <2>2. /\ plain' = plain
        /\ \A i \in Item : \A t \in Time \ {infix[p]} : file'[i][t] = file[i][t]
        /\ FilesPublished' /\ WholeClosed' /\ TargetsWhole'
    BY <2>1, ClosesFiles
  <2>3. Frame(p)
    BY <1>0, <1>6, <2>1, <2>2 DEF Frame, WriteFails, TypeOK, ProcOK
  <2>4. Unlinked(p)' /\ Written(p)'
    BY <1>0, <2>1 DEF Unlinked, Written, Writing, Installing
  <2>5. DataPublished'
    BY <2>1, SameData
  <2> QED
    BY <2>2, <2>3, <2>4, <2>5, StepShape
<1>7. CASE Cleanup(p)
  <2>1. pc[p] = "clean" /\ infix[p] \in Time /\ Return(p)
        /\ UNCHANGED <<pub, link, plain, tmp, stamp>>
    BY <1>1, <1>7 DEF Cleanup, Named
  <2>2. /\ \A i \in Item : \A t \in Time \ {infix[p]} : file'[i][t] = file[i][t]
        /\ \A i \in Item : \A t \in Time : file'[i][t] \in {file[i][t], None}
    BY <1>0, <1>1, <1>7 DEF Cleanup, TypeOK, DirOK
  <2>3. Frame(p)
    BY <1>0, <2>1, <2>2 DEF Frame, Return, TypeOK, ProcOK
  <2>4. FilesPublished' /\ WholeClosed'
    BY <1>0, <2>1, <2>2 DEF Shape, FilesPublished, WholeClosed, Current
  <2>5. TargetsWhole'
    <3>1. \A i \in Item : link[i] # infix[p] /\ tmp[i] # infix[p]
      BY <1>0, <2>1 DEF Unlinked, Writing
    <3> QED
      BY <1>0, <2>1, <2>2, <3>1 DEF Shape, TargetsWhole, Whole, TypeOK, DirOK
  <2> QED
    BY <2>1, <2>3, <2>4, <2>5, ReturnShape
<1> QED
  BY <1>2, <1>3, <1>4, <1>5, <1>6, <1>7 DEF Write

\* By the install loop.
LEMMA InstallShape ==
  ASSUME IInv, TypeOK', NEW p \in Proc, Install(p)
  PROVE  Shape'
<1>0. TypeOK /\ Shape /\ Unlinked(p) /\ Written(p)
  BY DEF IInv, Shape, NotYetLinked, WrittenWhole
<1>1. idx[p] \in Item /\ todo[p] \subseteq Item /\ (pc[p] \in Named => infix[p] \in Time)
  BY <1>0 DEF TypeOK, ProcOK, NamedOK
<1>2. CASE RemoveTmp(p)
  <2>1. PICK i \in todo[p] :
           idx' = [idx EXCEPT ![p] = i] /\ tmp' = [tmp EXCEPT ![i] = None]
    BY <1>2 DEF RemoveTmp
  <2>2. /\ pc[p] = "link" /\ sym[p] /\ pc'[p] = "symlink" /\ idx'[p] = i
        /\ UNCHANGED <<pub, file, link, plain, stamp, data, infix, todo, sym>>
    BY <1>0, <1>2, <2>1 DEF RemoveTmp, optVars, TypeOK, ProcOK
  <2>3. \A j \in Item : tmp'[j] \in {tmp[j], None}
    BY <1>0, <1>1, <2>1 DEF TypeOK, DirOK
  <2>4. Frame(p)
    BY <1>0, <1>2, <2>1, <2>2, <2>3 DEF Frame, RemoveTmp, TypeOK, ProcOK
  <2>5. FilesPublished' /\ WholeClosed'
    BY <1>0, <2>2 DEF Shape, FilesPublished, WholeClosed, Current
  <2>6. TargetsWhole'
    BY <1>0, <2>2, <2>3 DEF Shape, TargetsWhole, Whole
  <2>7. Unlinked(p)' /\ Written(p)'
    BY <1>0, <2>2 DEF Unlinked, Written, Whole, Writing, Installing
  <2>8. DataPublished'
    BY <2>2, SameData
  <2> QED
    BY <2>4, <2>5, <2>6, <2>7, <2>8, StepShape
<1>3. CASE MkSymlink(p)
  <2>1. /\ pc[p] = "symlink" /\ sym[p] /\ idx[p] \in todo[p] /\ pc'[p] = "rename"
        /\ infix[p] \in Time /\ Whole(file[idx[p]][infix[p]])
        /\ UNCHANGED <<pub, file, link, plain, stamp, idx, data, infix, todo, sym>>
    BY <1>0, <1>1, <1>3
       DEF MkSymlink, Written, Installing, Named, optVars, TypeOK, ProcOK
  <2>2. \A j \in Item : tmp'[j] = IF j = idx[p] THEN infix[p] ELSE tmp[j]
    BY <1>0, <1>1, <1>3 DEF MkSymlink, TypeOK, DirOK
  <2>3. Frame(p)
    BY <1>0, <1>3, <2>1, <2>2 DEF Frame, MkSymlink, TypeOK, ProcOK
  <2>4. FilesPublished' /\ WholeClosed'
    BY <1>0, <2>1 DEF Shape, FilesPublished, WholeClosed, Current
  <2>5. TargetsWhole'
    BY <1>0, <2>1, <2>2 DEF Shape, TargetsWhole, Whole
  <2>6. Unlinked(p)' /\ Written(p)'
    BY <1>0, <2>1 DEF Unlinked, Written, Whole, Writing, Installing
  <2>7. DataPublished'
    BY <2>1, SameData
  <2> QED
    BY <2>3, <2>4, <2>5, <2>6, <2>7, StepShape
<1>4. CASE RenameTmp(p)
  <2> DEFINE i == idx[p]
  <2>1. /\ pc[p] = "rename" /\ sym[p] /\ pc'[p] = "link" /\ tmp[i] # None
        /\ todo'[p] = todo[p] \ {i}
        /\ UNCHANGED <<pub, file, stamp, data, infix, sym>>
    BY <1>0, <1>4 DEF RenameTmp, Installed, Written, optVars, TypeOK, ProcOK
  <2>2. \A j \in Item : /\ link'[j] = IF j = i THEN tmp[i] ELSE link[j]
                        /\ plain'[j] = IF j = i THEN None ELSE plain[j]
                        /\ tmp'[j] = IF j = i THEN None ELSE tmp[j]
    BY <1>0, <1>1, <1>4 DEF RenameTmp, TypeOK, DirOK
  <2>3. Frame(p)
    BY <1>0, <1>4, <2>1, <2>2 DEF Frame, RenameTmp, Installed, TypeOK, ProcOK
  <2>4. FilesPublished' /\ WholeClosed'
    BY <1>0, <2>1, <2>2 DEF Shape, FilesPublished, WholeClosed, Current
  <2>5. TargetsWhole'
    BY <1>0, <2>1, <2>2 DEF Shape, TargetsWhole, Whole
  <2>6. Unlinked(p)' /\ Written(p)'
    BY <1>0, <2>1 DEF Unlinked, Written, Whole, Writing, Installing
  <2>7. DataPublished'
    BY <2>1, SameData
  <2> QED
    BY <2>3, <2>4, <2>5, <2>6, <2>7, StepShape
<1>5. CASE RenamePlain(p)
  <2>1. PICK i \in todo[p] :
           /\ file[i][infix[p]] # None
           /\ plain' = [plain EXCEPT ![i] = file[i][infix[p]]]
           /\ link' = [link EXCEPT ![i] = None]
           /\ file' = [file EXCEPT ![i][infix[p]] = None]
           /\ Installed(p, i)
    BY <1>5 DEF RenamePlain
  <2>2. /\ pc[p] = "link" /\ ~sym[p] /\ pc'[p] = "link" /\ infix[p] \in Time
        /\ i \in Item /\ Whole(file[i][infix[p]]) /\ todo'[p] = todo[p] \ {i}
        /\ UNCHANGED <<pub, tmp, stamp, data, infix, sym>>
    BY <1>0, <1>1, <1>5, <2>1
       DEF RenamePlain, Installed, Written, Installing, Named, optVars, TypeOK, ProcOK
  <2>3. /\ \A j \in Item : /\ link'[j] = IF j = i THEN None ELSE link[j]
                           /\ plain'[j] = IF j = i THEN file[i][infix[p]] ELSE plain[j]
        /\ \A j \in Item : \A t \in Time :
              file'[j][t] = IF j = i /\ t = infix[p] THEN None ELSE file[j][t]
    BY <1>0, <2>1, <2>2 DEF TypeOK, DirOK
  <2>4. Frame(p)
    BY <1>0, <1>5, <2>1, <2>2, <2>3 DEF Frame, RenamePlain, Installed, TypeOK, ProcOK
  <2>5. \A j \in Item : link[j] # infix[p] /\ tmp[j] # infix[p]
    BY <1>0, <2>2 DEF Unlinked, Installing
  <2>6. FilesPublished' /\ WholeClosed'
    BY <1>0, <2>2, <2>3 DEF Shape, FilesPublished, WholeClosed, Current, Whole
  <2>7. TargetsWhole'
    BY <1>0, <2>2, <2>3, <2>5 DEF Shape, TargetsWhole, WholeClosed, Whole, TypeOK, DirOK
  <2>8. Unlinked(p)'
    BY <2>2, <2>3, <2>5, NoneAssumption DEF Unlinked, Time
  <2>9. Written(p)'
    BY <1>0, <1>1, <2>2, <2>3 DEF Written, Whole, Installing
  <2>10. DataPublished'
    BY <2>2, SameData
  <2> QED
    BY <2>4, <2>6, <2>7, <2>8, <2>9, <2>10, StepShape
<1>6. CASE InstallFails(p)
  <2>1. Return(p) /\ UNCHANGED <<pub, dirVars, stamp>>
    BY <1>6 DEF InstallFails
  <2>2. Frame(p)
    BY <1>0, <2>1 DEF Frame, Return, dirVars, TypeOK, ProcOK
  <2> QED
    BY <2>1, <2>2, SameFiles, ReturnShape
<1>7. CASE InstallDone(p)
  <2>1. pc[p] = "link" /\ pc'[p] = "hook"
        /\ UNCHANGED <<pub, dirVars, stamp, idx, data, infix, todo, sym>>
    BY <1>0, <1>7 DEF InstallDone, optVars, TypeOK, ProcOK
  <2>2. Frame(p)
    BY <1>0, <1>7, <2>1 DEF Frame, InstallDone, dirVars, TypeOK, ProcOK
  <2>3. Unlinked(p)' /\ Written(p)'
    BY <2>1 DEF Unlinked, Written, Writing, Installing
  <2> QED
    BY <2>1, <2>2, <2>3, SameFiles, SameData, StepShape
<1> QED
  BY <1>2, <1>3, <1>4, <1>5, <1>6, <1>7 DEF Install

\* By the hook and by a crash.
LEMMA HookCrashShape ==
  ASSUME IInv, TypeOK', NEW p \in Proc, Hook(p) \/ Crash(p)
  PROVE  Shape'
<1>0. TypeOK /\ Shape
  BY DEF IInv
<1>1. Return(p) /\ UNCHANGED <<pub, link, tmp, stamp>>
  BY DEF Hook, Crash, dirVars
<1>2. CASE UNCHANGED <<file, plain>>
  <2>1. Frame(p)
    BY <1>0, <1>1, <1>2 DEF Frame, Return, TypeOK, ProcOK
  <2> QED
    BY <1>1, <1>2, <2>1, SameFiles, ReturnShape DEF dirVars
<1>3. CASE pc[p] = "fill" /\ Closes(p, FALSE)
  <2>1. /\ plain' = plain
        /\ \A i \in Item : \A t \in Time \ {infix[p]} : file'[i][t] = file[i][t]
        /\ FilesPublished' /\ WholeClosed' /\ TargetsWhole'
    BY <1>1, <1>3, ClosesFiles
  <2>2. Frame(p)
    BY <1>0, <1>1, <2>1 DEF Frame, Return, TypeOK, ProcOK
  <2> QED
    BY <1>1, <2>1, <2>2, ReturnShape
<1> QED
  BY <1>2, <1>3 DEF Hook, Crash, Closes, dirVars

\* By a renewal, the passing of time, and a step that changes nothing.
LEMMA EnvShape ==
  ASSUME IInv, TypeOK', (\E i \in Item : Renew(i)) \/ Tick \/ UNCHANGED vars
  PROVE  Shape'
<1>0. TypeOK /\ Shape
  BY DEF IInv
<1>1. UNCHANGED <<file, link, plain, tmp, stamp, pc, idx, data, infix, todo, sym>>
  BY DEF Renew, Tick, vars, dirVars, optVars
<1>2. \A i \in Item : 1..Current(i) \subseteq 1..Current(i)'
  <2>1. \A i \in Item : Len(pub[i]) \in Nat /\ Len(pub'[i]) \in Nat
    BY <1>0 DEF TypeOK, EnvOK, Version
  <2>2. \A i \in Item : Len(pub[i]) <= Len(pub'[i])
    <3>1. ASSUME NEW k \in Item, Renew(k)
          PROVE  \A i \in Item : Len(pub[i]) <= Len(pub'[i])
      <4>1. PICK r \in Publication : pub' = [pub EXCEPT ![k] = Append(@, r)]
        BY <1>0, <3>1, RenewShape
      <4> QED
        BY <1>0, <2>1, <4>1 DEF TypeOK, EnvOK
    <3> QED
      BY <2>1, <3>1 DEF Tick, vars
  <2> QED
    BY <2>1, <2>2 DEF Current
<1>3. InfixTaken' /\ InfixUnique' /\ NamesOld' /\ WholeClosed' /\ TargetsWhole'
  BY <1>0, <1>1
     DEF Shape, InfixTaken, InfixUnique, NamesOld, WholeClosed, TargetsWhole, Whole
<1>4. DataPublished' /\ FilesPublished'
  BY <1>0, <1>1, <1>2 DEF Shape, DataPublished, FilesPublished
<1>5. NotYetLinked' /\ WrittenWhole'
  BY <1>0, <1>1 DEF Shape, NotYetLinked, WrittenWhole, Unlinked, Written, Whole
<1> QED
  BY <1>3, <1>4, <1>5 DEF Shape

\* By every step of Next, unless two runs share a second.
LEMMA NextIInv ==
  ASSUME SameSecond = FALSE, IInv, [Next]_vars
  PROVE  IInv'
<1>1. TypeOK'
  BY NextTypeOK DEF IInv
<1>2. ASSUME NEW p \in Proc, Write(p)
      PROVE  Shape'
  BY <1>1, <1>2, WriteShape, TakeInfixShape
<1>3. ASSUME NEW p \in Proc, Fetch(p) \/ Install(p) \/ Hook(p) \/ Crash(p)
      PROVE  Shape'
  BY <1>1, <1>3, FetchShape, InstallShape, HookCrashShape
<1>4. CASE (\E i \in Item : Renew(i)) \/ Tick \/ UNCHANGED vars
  BY <1>1, <1>4, EnvShape DEF IInv
<1> QED
  BY <1>1, <1>2, <1>3, <1>4 DEF Next, IInv

-----------------------------------------------------------------------------
\* Unless two runs share a second, the invariant holds throughout.
LEMMA Inductive ==
  ASSUME SameSecond = FALSE
  PROVE  Spec => []IInv
<1>1. Init => IInv
  BY InitTypeOK, InitShape DEF IInv
<1>2. IInv /\ [Next]_vars => IInv'
  BY NextIInv
<1> QED
  BY <1>1, <1>2, PTL DEF Spec

\* Unless two runs for the domain share a second, a reader of the directory only
\* ever finds complete, published artifacts, for any number of concurrent and
\* crashing clients, with and without symlinks.
THEOREM ExposedCompleteHolds ==
  ASSUME SameSecond = FALSE
  PROVE  Spec => []ExposedComplete
<1>1. IInv => ExposedComplete
  <2> SUFFICES ASSUME IInv, NEW i \in Item
               PROVE  /\ link[i] # None => Published(file[i][link[i]], i)
                      /\ plain[i] # None => Published(plain[i], i)
    BY DEF ExposedComplete
  <2>1. link[i] # None => link[i] \in Time
    BY DEF IInv, TypeOK, DirOK
  <2> QED
    BY <2>1 DEF IInv, Shape, TargetsWhole, FilesPublished, Whole, Published
<1> QED
  BY <1>1, Inductive, PTL

-----------------------------------------------------------------------------
\* What a step of p does to the files: it touches only those with p's infix, and
\* those only while no link leads there.
LEMMA FilesTouched ==
  ASSUME IInv, NEW p \in Proc,
         Fetch(p) \/ Write(p) \/ Install(p) \/ Hook(p) \/ Crash(p)
  PROVE  \/ file' = file
         \/ /\ \A i \in Item : \A t \in Time \ {infix[p]} : file'[i][t] = file[i][t]
            /\ \A i \in Item : link[i] # infix[p]
<1>0. TypeOK /\ Unlinked(p)
  BY DEF IInv, Shape, NotYetLinked
<1>1. CASE Fetch(p) \/ Hook(p)
  BY <1>1 DEF Fetch, Start, Stat, Get200, Get304, GetEmpty, GetFail, Hook, dirVars
<1>2. CASE Write(p)
  <2>1. CASE TakeInfix(p) \/ SkipItem(p) \/ OpenFails(p)
    BY <2>1 DEF TakeInfix, SkipItem, OpenFails, dirVars
  <2>2. CASE OpenNew(p) \/ WriteAll(p) \/ WriteFails(p) \/ Cleanup(p)
    <3>1. pc[p] \in Writing
      BY <2>2 DEF OpenNew, WriteAll, WriteFails, Cleanup, Writing
    <3>2. PICK v : file' = [file EXCEPT ![idx[p]][infix[p]] = v]
      BY <2>2 DEF OpenNew, WriteAll, WriteFails, Cleanup
    <3> QED
      BY <1>0, <3>1, <3>2 DEF Unlinked, TypeOK, DirOK
  <2> QED
    BY <1>2, <2>1, <2>2 DEF Write
<1>3. CASE Install(p)
  <2>1. CASE RenamePlain(p)
    <3>1. pc[p] \in Installing /\ ~sym[p]
      BY <2>1 DEF RenamePlain, Installing
    <3>2. PICK i \in todo[p] : file' = [file EXCEPT ![i][infix[p]] = None]
      BY <2>1 DEF RenamePlain
    <3> QED
      BY <1>0, <3>1, <3>2 DEF Unlinked, TypeOK, DirOK
  <2> QED
    BY <1>3, <2>1 DEF Install, RemoveTmp, MkSymlink, RenameTmp, InstallFails,
                      InstallDone, dirVars
<1>4. CASE Crash(p)
  <2>1. CASE pc[p] = "fill"
    <3>1. pc[p] \in Writing
      BY <2>1 DEF Writing
    <3>2. PICK v : file' = [file EXCEPT ![idx[p]][infix[p]] = v]
      BY <1>4, <2>1 DEF Crash
    <3> QED
      BY <1>0, <3>1, <3>2 DEF Unlinked, TypeOK, DirOK
  <2> QED
    BY <1>4, <2>1 DEF Crash
<1> QED
  BY <1>1, <1>2, <1>3, <1>4

\* Unless two runs for the domain share a second, no step of any client (its
\* cleanup and its crash included) changes or removes a file that a link leads
\* to or that no running Execute has named: "the previous version stays".
THEOREM KeepsOldFilesHolds ==
  ASSUME SameSecond = FALSE
  PROVE  Spec => KeepsOldFiles
<1> DEFINE Kept ==
      \A i \in Item, t \in Time :
         /\ file[i][t] # None
         /\ link[i] = t \/ \A p \in Proc : infix[p] # t
         => file'[i][t] = file[i][t]
<1>1. IInv /\ [Next]_vars => [Kept]_vars
  <2> SUFFICES ASSUME IInv, Next, NEW i \in Item, NEW t \in Time,
                      link[i] = t \/ \A p \in Proc : infix[p] # t
               PROVE  file'[i][t] = file[i][t]
    OBVIOUS
  <2>1. ASSUME NEW p \in Proc,
               Fetch(p) \/ Write(p) \/ Install(p) \/ Hook(p) \/ Crash(p)
        PROVE  file'[i][t] = file[i][t]
    <3>1. CASE file' = file
      BY <3>1
    <3>2. CASE /\ \A j \in Item : \A u \in Time \ {infix[p]} : file'[j][u] = file[j][u]
               /\ \A j \in Item : link[j] # infix[p]
      <4>1. t # infix[p]
        BY <3>2
      <4> QED
        BY <3>2, <4>1
    <3> QED
      BY <2>1, <3>1, <3>2, FilesTouched
  <2>2. CASE (\E j \in Item : Renew(j)) \/ Tick
    BY <2>2 DEF Renew, Tick, dirVars
  <2> QED
    BY <2>1, <2>2 DEF Next
<1>2. Spec => [][Kept]_vars
  BY <1>1, Inductive, PTL DEF Spec
<1> QED
  BY <1>2 DEF KeepsOldFiles

=============================================================================
