------------------------- MODULE Refinement_proofs -------------------------
(***************************************************************************)
(* Proofs that the directory Execute works on is the store of CertStore,   *)
(* for any number of processes, and an ordered one for a single process.   *)
(***************************************************************************)
EXTENDS Freshness_proofs

-----------------------------------------------------------------------------
\* What a reader sees.

\* Only the links, what they lead to, and the regular files are seen.
LEMMA ExposedStays ==
    ASSUME NEW i \in Item, link'[i] = link[i], plain'[i] = plain[i],
           link[i] # None => file'[i][link[i]] = file[i][link[i]]
    PROVE  ExposedVersion(i)' = ExposedVersion(i)
  BY DEF ExposedVersion, Resolve

\* Without a collision what is seen is a published version, or nothing.
LEMMA ExposedIs ==
    ASSUME IInv, NEW i \in Item
    PROVE  /\ ExposedVersion(i) \in Nat
           /\ Resolve(i) # None => ExposedVersion(i) = Resolve(i).ver
           /\ Resolve(i) = None => ExposedVersion(i) = 0
<1>1. link[i] # None => Whole(file[i][link[i]])
  BY DEF IInv, Shape, TargetsWhole
<1>2. plain[i] # None => plain[i].whole
  BY DEF IInv, Shape, TargetsWhole
<1>3. Resolve(i) # None <=> link[i] # None \/ plain[i] # None
  BY <1>1 DEF Resolve, Whole
<1>4. Resolve(i) # None => Resolve(i).whole
  BY <1>1, <1>2 DEF Resolve, Whole
<1>5. Resolve(i) # None => Resolve(i).ver \in Nat
  BY ResolveType DEF IInv, File, Version
<1>6. QED
  BY <1>3, <1>4, <1>5 DEF ExposedVersion

\* A reader sees what he saw, and no version was published.
Unseen ==
    /\ pub' = pub
    /\ \A i \in Item : ExposedVersion(i)' = ExposedVersion(i)

\* One name is replaced by a published version, a newer one if ord holds.
Replaced(k, ord) ==
    /\ pub' = pub
    /\ \A i \in Item \ {k} : ExposedVersion(i)' = ExposedVersion(i)
    /\ \E v \in 1..Current(k) : /\ ord => v >= ExposedVersion(k)
                                /\ ExposedVersion(k)' = v

\* The steps that install nothing are not seen.
LEMMA HiddenStep ==
    ASSUME IInv, TypeOK', NEW p \in Proc,
           Fetch(p) \/ Write(p) \/ Install(p) \/ Hook(p) \/ Crash(p),
           ~RenameTmp(p), ~RenamePlain(p)
    PROVE  Unseen
<1>1. UNCHANGED <<pub, link>>
  BY DEF Fetch, Start, Stat, Get200, Get304, GetEmpty, GetFail, Write, TakeInfix, SkipItem,
     OpenNew, OpenFails, WriteAll, WriteFails, Cleanup, Install, RemoveTmp, MkSymlink,
     InstallFails, InstallDone, Hook, Crash, dirVars
<1>2. plain' = plain
  <2>1. CASE WriteAll(p) \/ WriteFails(p) \/ (Crash(p) /\ pc[p] = "fill")
    <3>1. PICK c \in BOOLEAN : Closes(p, c)
      BY <2>1 DEF WriteAll, WriteFails, Crash, Closes
    <3>2. pc[p] = "fill" /\ UNCHANGED <<pub, link, tmp>>
      BY <2>1 DEF WriteAll, WriteFails, Crash
    <3>3. QED
      BY <3>1, <3>2, ClosesFiles
  <2>2. CASE ~(WriteAll(p) \/ WriteFails(p) \/ (Crash(p) /\ pc[p] = "fill"))
    BY <2>2 DEF Fetch, Start, Stat, Get200, Get304, GetEmpty, GetFail, Write, TakeInfix, SkipItem,
       OpenNew, OpenFails, Cleanup, Install, RemoveTmp, MkSymlink, InstallFails, InstallDone,
       Hook, Crash, dirVars
  <2>3. QED
    BY <2>1, <2>2
<1>3. \A i \in Item : link[i] # None => file'[i][link[i]] = file[i][link[i]]
  <2>1. \A i \in Item : link[i] # None => link[i] \in Time
    BY DEF IInv, TypeOK, DirOK
  <2>2. QED
    BY <2>1, FilesTouched
<1>4. QED
  BY <1>1, <1>2, <1>3, ExposedStays DEF Unseen

\* A name is replaced by a symlink to a whole file.
LEMMA RenameTmpReplaces ==
    ASSUME IInv, NEW p \in Proc, RenameTmp(p), NEW ord \in BOOLEAN, ord => RunInv(p)
    PROVE  \E k \in Item : Replaced(k, ord)
<1>1. PICK k \in Item : k = idx[p]
  BY DEF IInv, TypeOK, ProcOK
<1>2. /\ pc[p] = "rename" /\ tmp[k] # None
      /\ link' = [link EXCEPT ![k] = tmp[k]] /\ plain' = [plain EXCEPT ![k] = None]
      /\ UNCHANGED <<pub, file>>
  BY <1>1 DEF RenameTmp
<1>3. /\ link'[k] = tmp[k] /\ \A i \in Item \ {k} : link'[i] = link[i] /\ plain'[i] = plain[i]
  BY <1>2 DEF IInv, TypeOK, DirOK
<1>4. tmp[k] \in Time
  BY <1>2 DEF IInv, TypeOK, DirOK
<1>5. PICK f : f = file[k][tmp[k]]
  OBVIOUS
<1>6. f # None /\ f.whole /\ f.ver \in 1..Current(k)
  BY <1>2, <1>4, <1>5 DEF IInv, Shape, TargetsWhole, Whole, FilesPublished
<1>7. ExposedVersion(k)' = f.ver
  BY <1>2, <1>3, <1>5, <1>6 DEF ExposedVersion, Resolve
<1>8. ASSUME ord PROVE f.ver >= ExposedVersion(k)
  <2>1. tmp[k] = infix[p] /\ pc[p] \in Named
    BY <1>1, <1>2, <1>8 DEF RunInv, ToInstall, Named
  <2>2. data[p][k] # None /\ f.ver = data[p][k].ver
    BY <1>5, <1>6, <1>8, <2>1 DEF RunInv, OwnFiles
  <2>3. Resolve(k) # None => Resolve(k).ver <= f.ver
    BY <1>8, <2>2 DEF RunInv, Answered
  <2>4. f.ver \in Nat
    BY <1>6 DEF IInv, TypeOK, EnvOK, Current
  <2>5. QED
    BY <2>3, <2>4, ExposedIs
<1>9. \A i \in Item \ {k} : ExposedVersion(i)' = ExposedVersion(i)
  BY <1>2, <1>3, ExposedStays
<1>10. QED
  BY <1>2, <1>6, <1>7, <1>8, <1>9 DEF Replaced

\* Or by the whole file itself.
LEMMA RenamePlainReplaces ==
    ASSUME IInv, NEW p \in Proc, RenamePlain(p), NEW ord \in BOOLEAN, ord => RunInv(p)
    PROVE  \E k \in Item : Replaced(k, ord)
<1>1. pc[p] = "link" /\ pub' = pub
  BY DEF RenamePlain
<1>2. PICK k \in todo[p] :
         /\ file[k][infix[p]] # None
         /\ plain' = [plain EXCEPT ![k] = file[k][infix[p]]]
         /\ link' = [link EXCEPT ![k] = None]
         /\ file' = [file EXCEPT ![k][infix[p]] = None]
  BY DEF RenamePlain
<1>3. k \in Item /\ infix[p] \in Time
  BY <1>1, InfixIsTime DEF Named, IInv, TypeOK, ProcOK
<1>4. PICK f : f = file[k][infix[p]]
  OBVIOUS
<1>5. /\ link'[k] = None /\ plain'[k] = f
      /\ \A i \in Item \ {k} : link'[i] = link[i] /\ plain'[i] = plain[i] /\ file'[i] = file[i]
  BY <1>2, <1>3, <1>4 DEF IInv, TypeOK, DirOK
<1>6. f # None /\ f.whole /\ f.ver \in 1..Current(k)
  BY <1>1, <1>2, <1>3, <1>4
     DEF IInv, Shape, WrittenWhole, Written, Whole, FilesPublished, Installing
<1>7. ExposedVersion(k)' = f.ver
  BY <1>5, <1>6 DEF ExposedVersion, Resolve
<1>8. ASSUME ord PROVE f.ver >= ExposedVersion(k)
  <2>1. data[p][k] # None /\ f.ver = data[p][k].ver
    BY <1>1, <1>3, <1>4, <1>6, <1>8 DEF RunInv, OwnFiles, Named
  <2>2. Resolve(k) # None => Resolve(k).ver <= f.ver
    BY <1>3, <1>8, <2>1 DEF RunInv, Answered
  <2>3. f.ver \in Nat
    BY <1>6
  <2>4. QED
    BY <1>3, <2>2, <2>3, ExposedIs
<1>9. \A i \in Item \ {k} : ExposedVersion(i)' = ExposedVersion(i)
  BY <1>5, ExposedStays
<1>10. QED
  BY <1>1, <1>3, <1>6, <1>7, <1>8, <1>9 DEF Replaced

\* A version is published.
PublishedNext(k) ==
    /\ Current(k)' = Current(k) + 1
    /\ \A i \in Item \ {k} : Current(i)' = Current(i)
    /\ \A i \in Item : ExposedVersion(i)' = ExposedVersion(i)

\* What a step may look like to a reader and the server.
LEMMA SeenStep ==
    ASSUME IInv, TypeOK', [Next]_vars, NEW ord \in BOOLEAN, ord => \A p \in Proc : RunInv(p)
    PROVE  Unseen \/ \E k \in Item : Replaced(k, ord) \/ PublishedNext(k)
<1>1. ASSUME NEW p \in Proc, Fetch(p) \/ Write(p) \/ Install(p) \/ Hook(p) \/ Crash(p)
      PROVE  Unseen \/ \E k \in Item : Replaced(k, ord)
  <2>1. CASE RenameTmp(p)
    BY <2>1, RenameTmpReplaces
  <2>2. CASE RenamePlain(p)
    BY <2>2, RenamePlainReplaces
  <2>3. CASE ~RenameTmp(p) /\ ~RenamePlain(p)
    BY <1>1, <2>3, HiddenStep
  <2>4. QED
    BY <2>1, <2>2, <2>3
<1>2. ASSUME NEW k \in Item, Renew(k) PROVE PublishedNext(k)
  <2>1. UNCHANGED <<file, link, plain>>
    BY <1>2 DEF Renew, dirVars
  <2>2. PICK r \in Publication : pub' = [pub EXCEPT ![k] = Append(@, r)]
    BY <1>2, RenewShape DEF IInv
  <2>3. /\ pub[k] \in Seq(Publication) /\ pub'[k] = Append(pub[k], r)
        /\ \A i \in Item \ {k} : pub'[i] = pub[i]
    BY <2>2 DEF IInv, TypeOK, EnvOK
  <2>4. Len(pub'[k]) = Len(pub[k]) + 1
    BY <2>3
  <2>5. \A i \in Item : ExposedVersion(i)' = ExposedVersion(i)
    BY <2>1, ExposedStays
  <2>6. QED
    BY <2>3, <2>4, <2>5 DEF PublishedNext, Current
<1>3. CASE Tick \/ UNCHANGED vars
  <2>1. UNCHANGED <<pub, file, link, plain>>
    BY <1>3 DEF Tick, vars, dirVars
  <2>2. QED
    BY <2>1, ExposedStays DEF Unseen
<1>4. QED
  BY <1>1, <1>2, <1>3 DEF Next

-----------------------------------------------------------------------------
\* The refinements.

\* The empty directory is the empty store.
LEMMA InitStore == Init => Store!Init /\ OrderedStore!Init
<1> SUFFICES ASSUME Init PROVE Store!Init /\ OrderedStore!Init
  OBVIOUS
<1>1. \A i \in Item : Current(i) = 1 /\ ExposedVersion(i) = 0
  BY DEF Init, Current, ExposedVersion
<1>2. QED
  BY <1>1 DEF Store!Init, OrderedStore!Init

\* Every step is a step of the store, or not seen.
LEMMA StepStore ==
    ASSUME SameSecond = FALSE, IInv, [Next]_vars
    PROVE  [Store!Next]_<<[i \in Item |-> Current(i)], [i \in Item |-> ExposedVersion(i)]>>
<1>1. TypeOK'
  BY NextTypeOK DEF IInv
<1>2. Unseen \/ \E k \in Item : Replaced(k, FALSE) \/ PublishedNext(k)
  BY <1>1, SeenStep
<1>3. CASE Unseen
  BY <1>3 DEF Unseen, Current
<1>4. ASSUME NEW k \in Item, Replaced(k, FALSE)
      PROVE  Store!Replace(k)
  BY <1>4 DEF Replaced, Store!Replace, Current
<1>5. ASSUME NEW k \in Item, PublishedNext(k)
      PROVE  Store!Publish(k)
  BY <1>5 DEF PublishedNext, Store!Publish
<1>6. QED
  BY <1>2, <1>3, <1>4, <1>5 DEF Store!Next

\* With one process, of the ordered store.
LEMMA StepOrderedStore ==
    ASSUME SameSecond = FALSE, IInv, AloneInv, [Next]_vars
    PROVE  [OrderedStore!Next]_<<[i \in Item |-> Current(i)], [i \in Item |-> ExposedVersion(i)]>>
<1>1. TypeOK' /\ \A p \in Proc : RunInv(p)
  BY NextTypeOK DEF IInv, AloneInv
<1>2. Unseen \/ \E k \in Item : Replaced(k, TRUE) \/ PublishedNext(k)
  BY <1>1, SeenStep
<1>3. CASE Unseen
  BY <1>3 DEF Unseen, Current
<1>4. ASSUME NEW k \in Item, Replaced(k, TRUE)
      PROVE  OrderedStore!Replace(k)
  BY <1>4 DEF Replaced, OrderedStore!Replace, Current
<1>5. ASSUME NEW k \in Item, PublishedNext(k)
      PROVE  OrderedStore!Publish(k)
  BY <1>5 DEF PublishedNext, OrderedStore!Publish
<1>6. QED
  BY <1>2, <1>3, <1>4, <1>5 DEF OrderedStore!Next

\* Unless two runs for the domain share a second, the directory implements the
\* store: each name shows nothing or one whole published version, and a step of any
\* client, its crash included, replaces at most one name.
THEOREM RefinesStoreHolds ==
    ASSUME SameSecond = FALSE
    PROVE  Spec => RefinesStore
<1>1. Init => Store!Init
  BY InitStore
<1>2. IInv /\ [Next]_vars =>
         [Store!Next]_<<[i \in Item |-> Current(i)], [i \in Item |-> ExposedVersion(i)]>>
  BY StepStore
<1>3. QED
  BY <1>1, <1>2, Inductive, PTL DEF Spec, RefinesStore, Store!Spec

\* With one client at a time no name ever goes back to an older version, whatever
\* earlier runs left behind: half-written requests, temporary links, old files.
THEOREM RefinesOrderedStoreHolds ==
    ASSUME SameSecond = FALSE, \A p, q \in Proc : p = q
    PROVE  Spec => RefinesOrderedStore
<1>1. Init => OrderedStore!Init
  BY InitStore
<1>2. IInv /\ AloneInv /\ [Next]_vars =>
         [OrderedStore!Next]_<<[i \in Item |-> Current(i)], [i \in Item |-> ExposedVersion(i)]>>
  BY StepOrderedStore
<1>3. QED
  BY <1>1, <1>2, Inductive, AloneInvHolds, PTL DEF Spec, RefinesOrderedStore, OrderedStore!Spec

=============================================================================
