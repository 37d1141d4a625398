------------------------ MODULE Housekeeping_proofs ------------------------
(***************************************************************************)
(* Proofs about Execute with the recommended clean-up of old files.  The   *)
(* clean-up breaks links, so nothing of Execute's invariant about the      *)
(* directory is left; the invariant of one run is, as long as no clean-up  *)
(* falls into it.                                                          *)
(***************************************************************************)
EXTENDS Housekeeping, Freshness_proofs

\* The inductive invariant: a run that no clean-up disturbed is as it would be
\* without clean-ups.
PurgeInv ==
    /\ TypeOK /\ History
    /\ purged \in [Proc -> BOOLEAN]
    /\ \A p \in Proc : pc[p] = "idle" => ~purged[p]
    /\ \A p \in Proc : ~purged[p] => RunInv(p)

\* The removal of a file respects the types.
LEMMA PurgeTypeOK ==
    ASSUME TypeOK, NEW i \in Item, NEW t \in Time, Purge(i, t)
    PROVE  TypeOK'
<1>1. file' = [file EXCEPT ![i][t] = None]
  BY DEF Purge
<1>2. file' \in [Item -> [Time -> File \cup {None}]]
  BY <1>1, FileUpdate DEF TypeOK, DirOK
<1>3. UNCHANGED <<now, pub, link, plain, tmp, stamp, pc, idx, ims, data, seen, infix, todo,
                  force, sym>>
  BY DEF Purge, optVars
<1>4. DirOK'
  BY <1>2, <1>3 DEF TypeOK, DirOK
<1>5. ProcOK' /\ EnvOK' /\ NamedOK'
  BY <1>3 DEF TypeOK, ProcOK, EnvOK, NamedOK
<1>6. QED
  BY <1>4, <1>5 DEF TypeOK

\* And the dates of what is left.
LEMMA PurgeHistory ==
    ASSUME TypeOK, History, NEW i \in Item, NEW t \in Time, Purge(i, t)
    PROVE  History'
<1>1. UNCHANGED <<now, pub, link, plain, tmp, stamp, pc, data, infix>>
  BY DEF Purge
<1>2. \A j \in Item, u \in Time : file'[j][u] \in {file[j][u], None}
  BY DEF Purge, TypeOK, DirOK
<1>3. PubSorted' /\ DatesKept' /\ DataDated' /\ InfixTaken' /\ LinksOld'
  BY <1>1 DEF History, PubSorted, DatesKept, DataDated, Dated, Current, InfixTaken, LinksOld
<1>4. NamesOld'
  BY <1>1, <1>2 DEF History, NamesOld
<1>5. FilesDated'
  BY <1>1, <1>2 DEF History, FilesDated, Dated, Current
<1>6. QED
  BY <1>3, <1>4, <1>5 DEF History

\* A process comes back to "idle" only by the return of Execute.
LEMMA IdleByReturn ==
    ASSUME TypeOK, NEW p \in Proc, pc[p] # "idle", pc'[p] = "idle",
           Fetch(p) \/ Write(p) \/ Install(p) \/ Hook(p) \/ Crash(p)
    PROVE  Return(p)
<1>1. CASE Fetch(p)
  BY <1>1, NextFetchIs DEF Fetch, Start, Stat, Get200, Get304, GetEmpty, GetFail, TypeOK, ProcOK
<1>2. CASE Write(p)
  BY <1>2, NextWriteIs DEF Write, TakeInfix, SkipItem, OpenNew, OpenFails, WriteAll, WriteFails,
     Cleanup, TypeOK, ProcOK
<1>3. CASE Install(p)
  BY <1>3 DEF Install, RemoveTmp, MkSymlink, RenameTmp, RenamePlain, InstallFails, InstallDone,
     Installed, TypeOK, ProcOK
<1>4. QED
  BY <1>1, <1>2, <1>3 DEF Hook, Crash

\* The steps of Execute, seen by the runs that no clean-up disturbed.
LEMMA StepPurgeInv ==
    ASSUME SameSecond = FALSE, \A p, q \in Proc : p = q, PurgeInv, Step
    PROVE  PurgeInv'
<1>1. TypeOK /\ TypeOK' /\ History /\ History'
  BY NextTypeOK, NextHistory DEF PurgeInv, Step
<1>2. /\ purged' = [p \in Proc |-> purged[p] /\ pc'[p] # "idle"]
      /\ Next
  BY DEF Step
<1>3. purged' \in [Proc -> BOOLEAN] /\ \A p \in Proc : pc'[p] = "idle" => ~purged'[p]
  BY <1>2
<1>4. ASSUME NEW p \in Proc, ~purged'[p]
      PROVE  RunInv(p)'
  <2>1. ~purged[p] \/ (pc[p] # "idle" /\ pc'[p] = "idle")
    BY <1>2, <1>4 DEF PurgeInv
  <2>2. CASE \E q \in Proc : Fetch(q) \/ Write(q) \/ Install(q) \/ Hook(q) \/ Crash(q)
    <3>1. Fetch(p) \/ Write(p) \/ Install(p) \/ Hook(p) \/ Crash(p)
      BY <2>2
    <3>2. CASE ~purged[p]
      BY <1>1, <3>1, <3>2, StepRunInv DEF PurgeInv
    <3>3. CASE pc[p] # "idle" /\ pc'[p] = "idle"
      BY <1>1, <3>1, <3>3, IdleByReturn, ReturnRunInv
    <3>4. QED
      BY <2>1, <3>2, <3>3
  <2>3. CASE (\E i \in Item : Renew(i)) \/ Tick
    <3>1. Later
      BY <1>1, <2>3, EnvIsLater
    <3>2. ~purged[p]
      BY <2>1, <3>1 DEF Later
    <3>3. QED
      BY <1>1, <3>1, <3>2, LaterRunInv DEF PurgeInv
  <2>4. QED
    BY <1>2, <2>2, <2>3 DEF Next
<1>5. QED
  BY <1>1, <1>3, <1>4 DEF PurgeInv

\* The clean-up disturbs every run that is under way.
LEMMA PurgePurgeInv ==
    ASSUME PurgeInv, NEW i \in Item, NEW t \in Time, Purge(i, t)
    PROVE  PurgeInv'
<1>1. TypeOK' /\ History'
  BY PurgeTypeOK, PurgeHistory DEF PurgeInv
<1>2. /\ purged' = [p \in Proc |-> pc[p] # "idle"]
      /\ UNCHANGED <<pc, idx, data, seen>>
  BY DEF Purge
<1>3. ASSUME NEW p \in Proc, ~purged'[p]
      PROVE  RunInv(p)'
  <2>1. pc[p] = "idle" /\ RunInv(p)
    BY <1>2, <1>3 DEF PurgeInv
  <2>2. /\ idx[p] = 1
        /\ \A j \in Item : data[p][j] = None /\ seen[p][j] = None
    BY <2>1, RunNumbers DEF RunInv, Unfetched, PurgeInv
  <2>3. QED
    BY <1>2, <2>1, <2>2, IdleRunInv
<1>4. QED
  BY <1>1, <1>2, <1>3 DEF PurgeInv

\* The invariant holds throughout.
LEMMA PurgeInvHolds ==
    ASSUME SameSecond = FALSE, \A p, q \in Proc : p = q
    PROVE  PurgeSpec => []PurgeInv
<1>1. PurgeInit => PurgeInv
  <2>1. PurgeInit => TypeOK /\ History /\ \A p \in Proc : RunInv(p)
    BY InitTypeOK, InitHistory, InitRunInv DEF PurgeInit
  <2>2. QED
    BY <2>1 DEF PurgeInit, PurgeInv
<1>2. PurgeInv /\ [PurgeNext]_allVars => PurgeInv'
  <2>1. ASSUME PurgeInv, UNCHANGED allVars PROVE PurgeInv'
    <3>1. UNCHANGED vars /\ purged' = purged
      BY <2>1 DEF allVars
    <3>2. TypeOK' /\ History'
      BY <2>1, <3>1, NextTypeOK, NextHistory DEF PurgeInv
    <3>3. Later
      BY <2>1, <3>1, <3>2, EnvIsLater DEF PurgeInv
    <3>4. \A p \in Proc : ~purged'[p] => RunInv(p)'
      BY <2>1, <3>1, <3>3, LaterRunInv DEF PurgeInv
    <3>5. pc' = pc
      BY <3>3 DEF Later
    <3>6. QED
      BY <2>1, <3>1, <3>2, <3>4, <3>5 DEF PurgeInv
  <2>2. QED
    BY <2>1, StepPurgeInv, PurgePurgeInv DEF PurgeNext
<1>3. QED
  BY <1>1, <1>2, PTL DEF PurgeSpec

\* With the clean-up, too, every variable keeps its type, for any number of
\* processes.
THEOREM PurgeTypeCorrect == PurgeSpec => []TypeOK
<1>1. PurgeInit => TypeOK
  BY InitTypeOK DEF PurgeInit
<1>2. TypeOK /\ [PurgeNext]_allVars => TypeOK'
  <2>1. UNCHANGED allVars => UNCHANGED vars
    BY DEF allVars
  <2>2. QED
    BY <2>1, NextTypeOK, PurgeTypeOK DEF PurgeNext, Step
<1>3. QED
  BY <1>1, <1>2, PTL DEF PurgeSpec

\* A client that runs alone repairs what earlier clean-ups broke: if none falls
\* into its run, every name the server answered for leads to a fresh file when it
\* calls its hook, whatever links were dangling before.
THEOREM RestoresPurgedHolds ==
    ASSUME SameSecond = FALSE, \A p, q \in Proc : p = q
    PROVE  PurgeSpec => []RestoresPurged
<1>1. PurgeInv => RestoresPurged
  BY RunIsFresh DEF PurgeInv, RestoresPurged
<1>2. QED
  BY <1>1, PurgeInvHolds, PTL

\* And if it was forced, and the server had one generation of all items, they are
\* all of that generation.
THEOREM ForcedRunMatchesHolds ==
    ASSUME SameSecond = FALSE, \A p, q \in Proc : p = q
    PROVE  PurgeSpec => []ForcedRunMatches
<1>1. PurgeInv => ForcedRunMatches
  BY RunMatches DEF PurgeInv, ForcedRunMatches
<1>2. QED
  BY <1>1, PurgeInvHolds, PTL

=============================================================================
