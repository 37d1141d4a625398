----------------------------- MODULE Pool_proofs -----------------------------
(***************************************************************************)
(* Proofs about the worker pool of cert-proxy-client, for any number of    *)
(* workers and domains, from the start of the client to its end.           *)
(***************************************************************************)
EXTENDS Pool, ClientStart_proofs

\* A worker that has a domain, those with an error to send, the domains that failed.
Busy(w) == wpc[w] \in {"exec", "lock", "hook"}
Reporting == {w \in Worker : wpc[w] = "report"}
Failed == {d \in DOMAIN outcome : outcome[d] = "failed"}

\* While the domains are gathered there is no pool yet.
BeforePool ==
    main \in StartLocations =>
       /\ StartInv
       /\ \A w \in Worker : wpc[w] = "off"

\* And until the requests are enqueued there is nothing to do.
BeforeWork ==
    main \in StartLocations \cup {"enqueue"} =>
       /\ feeder = "none" /\ queue = <<>> /\ pending = {} /\ ~qclosed
       /\ outcome = <<>> /\ collector = "none" /\ count = 0 /\ ~eclosed
       /\ mutex = None
       /\ \A w \in Worker : wpc[w] \in {"off", "recv"} /\ wdom[w] = None

\* Where main is from the requests on, if the client has not ended.
Working == {"wait", "workers", "result", "shared"}

\* From the requests on: the domains, the workers and the collector.
Phases ==
    /\ inp \in Inputs /\ IsFiniteSet(cns)
    /\ \A w \in Worker : w > jobs => wpc[w] = "off"
    /\ main \in {"enqueue"} \cup Working \/ eclosed =>
          cns = Wanted /\ jobs = Least(inp.jobs, Cardinality(cns))
    /\ main \in Working \/ eclosed => DOMAIN outcome = cns
    /\ main = "wait" => collector = "none" /\ ~eclosed
    /\ main = "workers" => collector = "recv" /\ ~eclosed
    /\ main = "result" => collector = "recv" /\ eclosed
    /\ main = "shared" => collector = "done"
    /\ collector = "done" => eclosed /\ main \in {"shared"} \cup Exits
    /\ collector = "done" /\ main \in {"shared", "exit0"} => count = 0
    /\ eclosed => /\ \A w \in Worker : wpc[w] \in {"off", "done"}
                  /\ \A w \in 1..jobs : wpc[w] = "done"

\* The worker whose hook runs has the lock.
LockHeld == \A w \in Worker : wpc[w] = "hook" <=> mutex = w

\* Every worker at work has a domain of its own.
Assigned ==
    \A w \in Worker : Busy(w) =>
       /\ wdom[w] \in DOMAIN outcome
       /\ outcome[wdom[w]] = "taken"
       /\ \A v \in Worker : Busy(v) /\ wdom[v] = wdom[w] => v = w

\* What waits for a worker waits in one place, once.
Waiting ==
    /\ \A d \in pending : d \in DOMAIN outcome /\ outcome[d] = "pending"
    /\ \A i \in 1..Len(queue) :
          /\ queue[i] \in DOMAIN outcome
          /\ outcome[queue[i]] = "pending"
          /\ queue[i] \notin pending
          /\ \A j \in 1..Len(queue) : queue[i] = queue[j] => i = j

\* No domain is lost.
NoneLost ==
    \A d \in DOMAIN outcome :
       /\ outcome[d] = "pending" => d \in pending \/ \E i \in 1..Len(queue) : queue[i] = d
       /\ outcome[d] = "taken" => \E w \in Worker : Busy(w) /\ wdom[w] = d

\* A worker leaves only when the feeder has sent everything and all is taken.
ClosedMeansSent ==
    /\ Alive /\ qclosed => feeder = "done"
    /\ feeder = "done" => pending = {}
    /\ \A w \in Worker : wpc[w] = "done" => queue = <<>> /\ feeder = "done"

\* Every failure was counted or is about to be.
Counted == count + Cardinality(Reporting) = Cardinality(Failed)

\* The inductive invariant.
IInv ==
    /\ TypeOK
    /\ BeforePool
    /\ BeforeWork
    /\ Phases
    /\ LockHeld
    /\ Assigned
    /\ Waiting
    /\ NoneLost
    /\ ClosedMeansSent
    /\ Counted

-----------------------------------------------------------------------------
\* Facts about the state.

\* The outcomes are of all domains, or of none as long as there are no requests.
LEMMA OutcomeType ==
    ASSUME TypeOK
    PROVE  /\ DOMAIN outcome \in {{}, cns}
           /\ outcome \in [DOMAIN outcome -> {"pending", "taken", "ok", "failed"}]
<1>1. PICK S \in {{}, cns} : outcome \in [S -> {"pending", "taken", "ok", "failed"}]
  BY DEF TypeOK
<1>2. QED
  BY <1>1

\* The empty function.
LEMMA NoOutcome ==
    /\ DOMAIN <<>> = {}
    /\ <<>> \in [{} -> {"pending", "taken", "ok", "failed"}]
<1>1. DOMAIN <<>> = {}
  OBVIOUS
<1>2. <<>> = [d \in {} |-> "ok"]
  OBVIOUS
<1>3. QED
  BY <1>1, <1>2

\* Workers are positive numbers.
LEMMA WorkersArePositive == Worker \subseteq Nat \ {0} /\ None \notin Worker
  BY MaxJobsAssumption, NoneAssumption DEF Worker

\* What is counted is finite.
LEMMA CountedFinite ==
    ASSUME IInv
    PROVE  /\ IsFiniteSet(Reporting) /\ Cardinality(Reporting) \in Nat
           /\ IsFiniteSet(Failed) /\ Cardinality(Failed) \in Nat
<1>1. IsFiniteSet(Worker)
  BY MaxJobsAssumption, FS_Interval DEF Worker
<1>2. IsFiniteSet(Reporting)
  BY <1>1, FS_Subset DEF Reporting
<1>3. IsFiniteSet(DOMAIN outcome)
  BY OutcomeType, FS_EmptySet DEF IInv, Phases
<1>4. IsFiniteSet(Failed)
  BY <1>3, FS_Subset DEF Failed
<1>5. QED
  BY <1>2, <1>4, FS_CardinalityType

\* The parts of the invariant that are not about main.
WorkInv ==
    /\ LockHeld
    /\ Assigned
    /\ Waiting
    /\ NoneLost
    /\ Counted

\* They stay when the workers and their work stay.
LEMMA WorkFrame ==
    ASSUME WorkInv, UNCHANGED <<pending, queue, wpc, wdom, mutex, outcome, count>>
    PROVE  WorkInv'
<1> USE DEF WorkInv
<1>1. LockHeld'
  BY DEF LockHeld
<1>2. Assigned'
  BY DEF Assigned, Busy
<1>3. Waiting'
  BY DEF Waiting
<1>4. NoneLost'
  BY DEF NoneLost, Busy
<1>5. Counted'
  BY DEF Counted, Reporting, Failed
<1>6. QED
  BY <1>1, <1>2, <1>3, <1>4, <1>5

-----------------------------------------------------------------------------
\* The initial states.

\* There is no pool before the client starts.
LEMMA InitIInv == Init => IInv
<1> SUFFICES ASSUME Init PROVE IInv
  OBVIOUS
<1> USE DEF Init
<1>1. inp \in Input /\ StartInit
  BY InputsAssumption DEF StartInit
<1>2. StartInv /\ main = "flags" /\ cns = {} /\ inp \in Inputs
  BY <1>1, StartInvInit DEF StartInit
<1>3. TypeOK
  <2>1. jobs \in 0..MaxJobs /\ Len(queue) <= jobs /\ queue \in Seq(cns)
    BY MaxJobsAssumption
  <2>2. \E S \in {{}, cns} : outcome \in [S -> {"pending", "taken", "ok", "failed"}]
    BY NoOutcome
  <2>3. QED
    BY <1>2, <2>1, <2>2 DEF TypeOK, StartInv, StartLocations
<1>4. BeforePool
  BY <1>2 DEF BeforePool
<1>5. BeforeWork
  BY DEF BeforeWork
<1>6. Phases
  BY <1>2 DEF Phases, Working, StartInv
<1>7. LockHeld
  BY WorkersArePositive DEF LockHeld
<1>8. Assigned
  BY DEF Assigned, Busy
<1>9. Waiting /\ NoneLost
  BY NoOutcome DEF Waiting, NoneLost
<1>10. ClosedMeansSent
  BY DEF ClosedMeansSent
<1>11. Counted
  <2>1. Reporting = {} /\ Failed = {}
    BY NoOutcome DEF Reporting, Failed
  <2>2. QED
    BY <2>1, FS_EmptySet DEF Counted
<1>12. QED
  BY <1>3, <1>4, <1>5, <1>6, <1>7, <1>8, <1>9, <1>10, <1>11 DEF IInv

-----------------------------------------------------------------------------
\* The main goroutine.

\* The start is over when main leaves its locations.
LEMMA StartStep == ASSUME IInv, Start PROVE IInv'
<1>1. /\ StartNext
      /\ UNCHANGED <<jobs, pending, feeder, queue, qclosed, wpc, wdom, mutex, outcome,
                     eclosed, collector, count>>
  BY DEF Start, poolVars, queueVars, workVars, errVars
<1>2. main \in StartLocations
  BY <1>1 DEF StartNext, ParseFlags, FlagsRejected, Inform, ShowManual, Usage, AddArgs,
     ReadSecret, Connect, CheckCertbase, ReadCNs, SetupTLS, FetchCNs, FetchFails, Check,
     StartLocations
<1>3. StartInv' /\ inp' = inp
  <2>1. StartInv
    BY <1>2 DEF IInv, BeforePool
  <2>2. inp' = inp
    BY <1>1 DEF StartNext, ParseFlags, FlagsRejected, Inform, ShowManual, Usage, AddArgs,
       ReadSecret, Connect, CheckCertbase, ReadCNs, SetupTLS, FetchCNs, FetchFails, Check, Exit
  <2>3. QED
    BY <1>1, <2>1, <2>2, StartInvNext
<1>4. /\ feeder = "none" /\ queue = <<>> /\ pending = {} /\ ~qclosed
      /\ outcome = <<>> /\ collector = "none" /\ count = 0 /\ ~eclosed
      /\ mutex = None
      /\ \A w \in Worker : wpc[w] = "off" /\ wdom[w] = None
  BY <1>2 DEF IInv, BeforePool, BeforeWork
<1>5. TypeOK'
  <2>1. (queue \in Seq(cns))' /\ wdom' \in [Worker -> cns' \cup {None}]
    BY <1>1, <1>4 DEF IInv, TypeOK
  <2>2. (\E S \in {{}, cns} : outcome \in [S -> {"pending", "taken", "ok", "failed"}])'
    BY <1>1, <1>4, NoOutcome
  <2>3. QED
    BY <1>1, <1>3, <1>4, <2>1, <2>2 DEF IInv, TypeOK, StartInv
<1>6. BeforePool' /\ BeforeWork'
  BY <1>1, <1>3, <1>4 DEF BeforePool, BeforeWork
<1>7. Phases'
  <2>1. main' \in StartLocations \cup Exits /\ IsFiniteSet(cns')
    BY <1>3 DEF StartInv
  <2>2. QED
    BY <1>1, <1>3, <1>4, <2>1 DEF IInv, Phases, Working, StartLocations, Exits
<1>8. WorkInv'
  BY <1>1, WorkFrame DEF IInv, WorkInv
<1>9. ClosedMeansSent'
  BY <1>1, <1>4 DEF ClosedMeansSent
<1>10. QED
  BY <1>5, <1>6, <1>7, <1>8, <1>9 DEF IInv, WorkInv

\* The smaller of two numbers.
LEMMA LeastBounds ==
    ASSUME NEW a \in Nat, NEW b \in Nat
    PROVE  Least(a, b) \in Nat /\ Least(a, b) <= a /\ Least(a, b) <= b
  BY DEF Least

\* New: as many workers as jobs, waiting for requests.
LEMMA NewPoolStep == ASSUME IInv, NewPool PROVE IInv'
<1>1. /\ main = "new" /\ main' = "enqueue"
      /\ jobs' = Least(inp.jobs, Cardinality(cns))
      /\ wpc' = [w \in Worker |-> IF w <= jobs' THEN "recv" ELSE "off"]
      /\ UNCHANGED <<inp, cns, base, shown, pending, feeder, queue, qclosed, wdom, mutex,
                     outcome, eclosed, collector, count>>
  BY DEF NewPool, given, queueVars, errVars
<1>2. /\ feeder = "none" /\ queue = <<>> /\ pending = {} /\ ~qclosed
      /\ outcome = <<>> /\ collector = "none" /\ count = 0 /\ ~eclosed
      /\ mutex = None
      /\ \A w \in Worker : wdom[w] = None
      /\ StartInv
  BY <1>1 DEF IInv, BeforePool, BeforeWork, StartLocations
<1>3. jobs' \in 0..MaxJobs
  <2>1. inp.jobs \in Nat /\ inp.jobs <= MaxJobs
    BY InputsAssumption DEF IInv, Phases, Input
  <2>2. Cardinality(cns) \in Nat
    BY FS_CardinalityType DEF IInv, Phases
  <2>3. QED
    BY <1>1, <2>1, <2>2, LeastBounds, MaxJobsAssumption
<1>4. TypeOK'
  <2>1. wpc' \in [Worker -> {"off", "recv", "exec", "lock", "hook", "report", "done"}]
    BY <1>1
  <2>2. (Len(queue) <= jobs)'
    BY <1>1, <1>2, <1>3
  <2>3. (\E S \in {{}, cns} : outcome \in [S -> {"pending", "taken", "ok", "failed"}])'
    BY <1>1 DEF IInv, TypeOK
  <2>4. StartOK'
    BY <1>1 DEF IInv, TypeOK, StartOK
  <2>5. QED
    BY <1>1, <1>3, <2>1, <2>2, <2>3, <2>4 DEF IInv, TypeOK
<1>5. \A w \in Worker : wpc'[w] \in {"recv", "off"}
  BY <1>1
<1>6. BeforePool' /\ BeforeWork'
  BY <1>1, <1>2, <1>5 DEF BeforePool, BeforeWork, StartLocations
<1>7. Phases'
  <2>1. cns = Wanted
    BY <1>1, <1>2 DEF StartInv, Gathered
  <2>2. Wanted' = Wanted
    BY <1>1 DEF Wanted, AddItemsFromFile
  <2>3. \A w \in Worker : w > jobs' => wpc'[w] = "off"
    BY <1>1, <1>3, WorkersArePositive
  <2>4. QED
    BY <1>1, <1>2, <2>1, <2>2, <2>3 DEF IInv, Phases, Working, Exits
<1>8. LockHeld'
  BY <1>1, <1>2, <1>5, WorkersArePositive DEF LockHeld
<1>9. Assigned'
  BY <1>5 DEF Assigned, Busy
<1>10. Waiting' /\ NoneLost'
  BY <1>1, <1>2, NoOutcome DEF Waiting, NoneLost
<1>11. ClosedMeansSent'
  BY <1>1, <1>2, <1>5 DEF ClosedMeansSent
<1>12. Counted'
  <2>1. Reporting' = {} /\ Failed' = {}
    BY <1>1, <1>2, <1>5, NoOutcome DEF Reporting, Failed
  <2>2. QED
    BY <1>1, <1>2, <2>1, FS_EmptySet DEF Counted
<1>13. QED
  BY <1>4, <1>6, <1>7, <1>8, <1>9, <1>10, <1>11, <1>12 DEF IInv

\* EnqueueTasks: every domain is with the feeder.
LEMMA EnqueueTasksStep == ASSUME IInv, EnqueueTasks PROVE IInv'
<1>1. /\ main = "enqueue" /\ main' = "wait"
      /\ pending' = cns /\ feeder' = "send"
      /\ outcome' = [d \in cns |-> "pending"]
      /\ UNCHANGED <<inp, cns, base, shown, jobs, queue, qclosed, wpc, wdom, mutex,
                     eclosed, collector, count>>
  BY DEF EnqueueTasks, mainVars, given, errVars
<1>2. /\ queue = <<>> /\ ~qclosed /\ collector = "none" /\ count = 0 /\ ~eclosed
      /\ mutex = None
      /\ \A w \in Worker : wpc[w] \in {"off", "recv"}
  BY <1>1 DEF IInv, BeforeWork
<1>3. DOMAIN outcome' = cns /\ \A d \in cns : outcome'[d] = "pending"
  BY <1>1
<1>4. TypeOK'
  <2>1. (\E S \in {{}, cns} : outcome \in [S -> {"pending", "taken", "ok", "failed"}])'
    BY <1>1
  <2>2. StartOK'
    BY <1>1 DEF IInv, TypeOK, StartOK
  <2>3. QED
    BY <1>1, <2>1, <2>2 DEF IInv, TypeOK
<1>5. BeforePool' /\ BeforeWork'
  BY <1>1 DEF BeforePool, BeforeWork, StartLocations
<1>6. Phases'
  <2>1. Wanted' = Wanted
    BY <1>1 DEF Wanted, AddItemsFromFile
  <2>2. QED
    BY <1>1, <1>2, <1>3, <2>1 DEF IInv, Phases, Working, Exits
<1>7. LockHeld'
  BY <1>1 DEF IInv, LockHeld
<1>8. Assigned'
  BY <1>1, <1>2 DEF Assigned, Busy
<1>9. Waiting' /\ NoneLost'
  BY <1>1, <1>2, <1>3 DEF Waiting, NoneLost
<1>10. ClosedMeansSent'
  BY <1>1, <1>2 DEF ClosedMeansSent
<1>11. Counted'
  <2>1. Reporting' = {} /\ Failed' = {}
    BY <1>1, <1>2, <1>3 DEF Reporting, Failed
  <2>2. QED
    BY <1>1, <1>2, <2>1, FS_EmptySet DEF Counted
<1>12. QED
  BY <1>4, <1>5, <1>6, <1>7, <1>8, <1>9, <1>10, <1>11 DEF IInv

\* The later steps of main, which leave the workers and their work alone.
LEMMA MainStep ==
    ASSUME IInv, EnqueueFails \/ Wait \/ WorkersDone \/ Result \/ SharedHook
    PROVE  IInv'
<1>1. /\ UNCHANGED <<inp, cns, base, shown, jobs, pending, feeder, queue, wpc, wdom, mutex,
                     outcome, count>>
      /\ main \in {"enqueue"} \cup Working
  BY DEF EnqueueFails, Wait, WorkersDone, Result, SharedHook, mainVars, given, queueVars,
     workVars, errVars, Working
<1>2. WorkInv'
  BY <1>1, WorkFrame DEF IInv, WorkInv
<1>3. Wanted' = Wanted
  BY <1>1 DEF Wanted, AddItemsFromFile
<1>4. /\ main' \in {"workers", "result", "shared"} \cup Exits
      /\ qclosed' \in BOOLEAN /\ eclosed' \in BOOLEAN
      /\ collector' \in {"none", "recv", "done"}
  BY DEF IInv, TypeOK, EnqueueFails, Wait, WorkersDone, Result, SharedHook, mainVars, given,
     queueVars, workVars, errVars, Exits
<1>5. TypeOK'
  <2>1. (\E S \in {{}, cns} : outcome \in [S -> {"pending", "taken", "ok", "failed"}])'
    BY <1>1 DEF IInv, TypeOK
  <2>2. StartOK'
    BY <1>1 DEF IInv, TypeOK, StartOK
  <2>3. QED
    BY <1>1, <1>4, <2>1, <2>2 DEF IInv, TypeOK
<1>6. BeforePool' /\ BeforeWork'
  BY <1>4 DEF BeforePool, BeforeWork, StartLocations, Exits
<1>7. Phases'
  <2> USE <1>1, <1>3 DEF IInv, Phases, Working, Exits
  <2>1. CASE EnqueueFails
    <3>1. ~eclosed /\ collector = "none"
      BY <2>1 DEF EnqueueFails, BeforeWork
    <3>2. QED
      BY <2>1, <3>1 DEF EnqueueFails, errVars
  <2>2. CASE Wait
    BY <2>2 DEF Wait
  <2>3. CASE WorkersDone
    <3>1. \A w \in Worker : w \in Nat /\ w > 0 /\ jobs \in Nat
      BY WorkersArePositive DEF TypeOK
    <3>2. \A w \in Worker : wpc[w] \in {"off", "done"}
      BY <2>3, <3>1 DEF WorkersDone
    <3>3. QED
      BY <2>3, <3>2 DEF WorkersDone
  <2>4. CASE Result
    BY <2>4 DEF Result
  <2>5. CASE SharedHook
    BY <2>5 DEF SharedHook, errVars
  <2>6. QED
    BY <2>1, <2>2, <2>3, <2>4, <2>5
<1>8. ClosedMeansSent'
  BY <1>1 DEF IInv, ClosedMeansSent, Alive, Exits, EnqueueFails, Wait, WorkersDone, Result,
     SharedHook, queueVars
<1>9. QED
  BY <1>2, <1>5, <1>6, <1>7, <1>8 DEF IInv, WorkInv

-----------------------------------------------------------------------------
\* The feeder.

\* A domain goes from the feeder to the queue.
LEMMA FeedStep == ASSUME IInv, Feed PROVE IInv'
<1>1. /\ Alive /\ feeder = "send" /\ Len(queue) < jobs
      /\ UNCHANGED <<inp, cns, base, shown, jobs, main, feeder, qclosed, wpc, wdom, mutex,
                     outcome, eclosed, collector, count>>
  BY DEF Feed, mainVars, given, workVars, errVars
<1>2. PICK d \in pending : queue' = Append(queue, d) /\ pending' = pending \ {d}
  BY DEF Feed
<1>3. /\ queue \in Seq(cns) /\ d \in cns /\ Len(queue) \in Nat
      /\ jobs \in Nat
  BY <1>2 DEF IInv, TypeOK
<1>4. /\ queue' \in Seq(cns) /\ Len(queue') = Len(queue) + 1
      /\ queue'[Len(queue) + 1] = d
      /\ \A i \in 1..Len(queue) : queue'[i] = queue[i]
  BY <1>2, <1>3
<1>5. TypeOK'
  <2>1. (\E S \in {{}, cns} : outcome \in [S -> {"pending", "taken", "ok", "failed"}])'
    BY <1>1 DEF IInv, TypeOK
  <2>2. StartOK'
    BY <1>1 DEF IInv, TypeOK, StartOK
  <2>3. (Len(queue) <= jobs)'
    BY <1>1, <1>3, <1>4
  <2>4. QED
    BY <1>1, <1>2, <1>4, <2>1, <2>2, <2>3 DEF IInv, TypeOK
<1>6. main \notin StartLocations \cup {"enqueue"}
  BY <1>1 DEF IInv, BeforeWork
<1>7. BeforePool' /\ BeforeWork'
  BY <1>1, <1>6 DEF BeforePool, BeforeWork
<1>8. Phases'
  <2>1. Wanted' = Wanted
    BY <1>1 DEF Wanted, AddItemsFromFile
  <2>2. QED
    BY <1>1, <2>1 DEF IInv, Phases, Working
<1>9. LockHeld' /\ Assigned'
  BY <1>1 DEF IInv, LockHeld, Assigned, Busy
<1>10. Waiting'
  <2>1. \A e \in pending' : e \in DOMAIN outcome' /\ outcome'[e] = "pending"
    BY <1>1, <1>2 DEF IInv, Waiting
  <2>2. ASSUME NEW i \in 1..Len(queue')
        PROVE  /\ queue'[i] \in DOMAIN outcome'
               /\ outcome'[queue'[i]] = "pending"
               /\ queue'[i] \notin pending'
               /\ \A j \in 1..Len(queue') : queue'[i] = queue'[j] => i = j
    <3>1. \A j \in 1..Len(queue') : j \in 1..Len(queue) \/ j = Len(queue) + 1
      BY <1>3, <1>4
    <3>2. \A j \in 1..Len(queue) : queue[j] # d
      BY <1>2 DEF IInv, Waiting
    <3>3. CASE i = Len(queue) + 1
      BY <1>1, <1>2, <1>4, <3>1, <3>2, <3>3 DEF IInv, Waiting
    <3>4. CASE i \in 1..Len(queue)
      BY <1>1, <1>2, <1>4, <3>1, <3>2, <3>4 DEF IInv, Waiting
    <3>5. QED
      BY <3>1, <3>3, <3>4
  <2>3. QED
    BY <2>1, <2>2 DEF Waiting
<1>11. NoneLost'
  <2>1. ASSUME NEW e \in DOMAIN outcome', outcome'[e] = "pending"
        PROVE  e \in pending' \/ \E i \in 1..Len(queue') : queue'[i] = e
    <3>1. e \in pending \/ \E i \in 1..Len(queue) : queue[i] = e
      BY <1>1, <2>1 DEF IInv, NoneLost
    <3>2. CASE e = d
      BY <1>3, <1>4, <3>2
    <3>3. CASE e # d
      BY <1>2, <1>3, <1>4, <3>1, <3>3
    <3>4. QED
      BY <3>2, <3>3
  <2>2. QED
    BY <1>1, <2>1 DEF IInv, NoneLost, Busy
<1>12. ClosedMeansSent'
  BY <1>1 DEF IInv, ClosedMeansSent, Alive
<1>13. Counted'
  BY <1>1 DEF IInv, Counted, Reporting, Failed
<1>14. QED
  BY <1>5, <1>7, <1>8, <1>9, <1>10, <1>11, <1>12, <1>13 DEF IInv

\* The feeder closes the queue when it has sent everything.
LEMMA CloseQueueStep == ASSUME IInv, CloseQueue PROVE IInv'
<1>1. /\ Alive /\ feeder = "send" /\ pending = {} /\ qclosed' = TRUE /\ feeder' = "done"
      /\ UNCHANGED <<inp, cns, base, shown, jobs, main, pending, queue, wpc, wdom, mutex,
                     outcome, eclosed, collector, count>>
  BY DEF CloseQueue, mainVars, given, workVars, errVars
<1>2. TypeOK'
  <2>1. (\E S \in {{}, cns} : outcome \in [S -> {"pending", "taken", "ok", "failed"}])'
    BY <1>1 DEF IInv, TypeOK
  <2>2. StartOK'
    BY <1>1 DEF IInv, TypeOK, StartOK
  <2>3. QED
    BY <1>1, <2>1, <2>2 DEF IInv, TypeOK
<1>3. main \notin StartLocations \cup {"enqueue"}
  BY <1>1 DEF IInv, BeforeWork
<1>4. BeforePool' /\ BeforeWork'
  BY <1>1, <1>3 DEF BeforePool, BeforeWork
<1>5. Phases'
  <2>1. Wanted' = Wanted
    BY <1>1 DEF Wanted, AddItemsFromFile
  <2>2. QED
    BY <1>1, <2>1 DEF IInv, Phases, Working
<1>6. WorkInv'
  BY <1>1, WorkFrame DEF IInv, WorkInv
<1>7. ClosedMeansSent'
  BY <1>1 DEF IInv, ClosedMeansSent, Alive
<1>8. QED
  BY <1>2, <1>4, <1>5, <1>6, <1>7 DEF IInv, WorkInv

-----------------------------------------------------------------------------
\* The workers.

\* What a worker's step leaves alone, and where main is meanwhile.
WorkerStep(w, label) ==
    /\ Alive
    /\ wpc[w] \notin {"off", "done"}
    /\ main \notin StartLocations \cup {"enqueue"}
    /\ wpc' = [wpc EXCEPT ![w] = label]
    /\ UNCHANGED <<inp, cns, base, shown, jobs, main, pending, feeder, qclosed, eclosed, collector>>

\* A worker's step is no business of main.
LEMMA WorkerFrame ==
    ASSUME IInv, NEW w \in Worker,
           NEW label \in {"recv", "exec", "lock", "hook", "report", "done"},
           WorkerStep(w, label), DOMAIN outcome' = DOMAIN outcome
    PROVE  /\ BeforePool' /\ BeforeWork' /\ Phases'
           /\ wpc'[w] = label /\ \A v \in Worker \ {w} : wpc'[v] = wpc[v]
           /\ wpc' \in [Worker -> {"off", "recv", "exec", "lock", "hook", "report", "done"}]
           /\ StartOK'
           /\ label # "done" => \A v \in Worker : wpc'[v] = "done" => wpc[v] = "done"
<1> USE DEF WorkerStep
<1>1. /\ wpc'[w] = label /\ \A v \in Worker \ {w} : wpc'[v] = wpc[v]
      /\ wpc' \in [Worker -> {"off", "recv", "exec", "lock", "hook", "report", "done"}]
  BY DEF IInv, TypeOK
<1>2. BeforePool' /\ BeforeWork'
  BY DEF BeforePool, BeforeWork
<1>3. ~eclosed /\ collector # "done"
  BY DEF IInv, Phases
<1>4. Phases'
  <2>1. Wanted' = Wanted
    BY DEF Wanted, AddItemsFromFile
  <2>2. \A v \in Worker : v > jobs => wpc'[v] = "off"
    BY <1>1 DEF IInv, Phases
  <2>3. QED
    BY <1>3, <2>1, <2>2 DEF IInv, Phases, Working
<1>5. StartOK'
  BY DEF IInv, TypeOK, StartOK
<1>6. QED
  BY <1>1, <1>2, <1>4, <1>5

\* A domain goes from the queue to a worker.
LEMMA ReceiveStep == ASSUME IInv, NEW w \in Worker, Receive(w) PROVE IInv'
<1>1. /\ Alive /\ wpc[w] = "recv" /\ queue # <<>>
      /\ queue' = Tail(queue)
      /\ wdom' = [wdom EXCEPT ![w] = Head(queue)]
      /\ outcome' = [outcome EXCEPT ![Head(queue)] = "taken"]
      /\ wpc' = [wpc EXCEPT ![w] = "exec"]
      /\ UNCHANGED <<inp, cns, base, shown, jobs, main, pending, feeder, qclosed, mutex,
                     eclosed, collector, count>>
  BY DEF Receive, mainVars, given, errVars
<1> DEFINE d == Head(queue)
<1>2. main \notin StartLocations \cup {"enqueue"}
  BY <1>1 DEF IInv, BeforeWork
<1>3. WorkerStep(w, "exec")
  BY <1>1, <1>2 DEF WorkerStep
<1>4. /\ queue \in Seq(cns) /\ Len(queue) \in Nat /\ Len(queue) > 0
      /\ d = queue[1] /\ d \in cns /\ jobs \in Nat
  BY <1>1 DEF IInv, TypeOK
<1>5. /\ queue' \in Seq(cns) /\ Len(queue') = Len(queue) - 1
      /\ \A i \in 1..Len(queue') : i + 1 \in 1..Len(queue) /\ queue'[i] = queue[i + 1]
  BY <1>1, <1>4
<1>6. d \in DOMAIN outcome /\ outcome[d] = "pending" /\ d \notin pending
  BY <1>4 DEF IInv, Waiting
<1>7. \A i \in 1..Len(queue') : queue'[i] # d
  <2>1. \A i, j \in 1..Len(queue) : queue[i] = queue[j] => i = j
    BY DEF IInv, Waiting
  <2>2. ASSUME NEW i \in 1..Len(queue') PROVE queue'[i] # d
    <3>1. i + 1 \in 1..Len(queue) /\ queue'[i] = queue[i + 1] /\ 1 \in 1..Len(queue)
      BY <1>4, <1>5
    <3>2. i + 1 # 1
      OBVIOUS
    <3>3. queue[i + 1] # queue[1]
      BY <2>1, <3>1, <3>2
    <3>4. QED
      BY <1>4, <3>1, <3>3
  <2>3. QED
    BY <2>2
<1> HIDE DEF d
<1>8. /\ wdom' = [wdom EXCEPT ![w] = d] /\ outcome' = [outcome EXCEPT ![d] = "taken"]
  BY <1>1 DEF d
<1>9. /\ DOMAIN outcome' = DOMAIN outcome /\ outcome'[d] = "taken"
      /\ \A e \in DOMAIN outcome \ {d} : outcome'[e] = outcome[e]
      /\ wdom'[w] = d /\ \A v \in Worker \ {w} : wdom'[v] = wdom[v]
  BY <1>6, <1>8 DEF IInv, TypeOK
<1>10. /\ BeforePool' /\ BeforeWork' /\ Phases' /\ StartOK'
       /\ wpc'[w] = "exec" /\ \A v \in Worker \ {w} : wpc'[v] = wpc[v]
       /\ wpc' \in [Worker -> {"off", "recv", "exec", "lock", "hook", "report", "done"}]
  BY <1>3, <1>9, WorkerFrame
<1>11. TypeOK'
  <2>1. (\E S \in {{}, cns} : outcome \in [S -> {"pending", "taken", "ok", "failed"}])'
    BY <1>1, <1>8, OutcomeType DEF IInv
  <2>2. (Len(queue) <= jobs)'
    BY <1>1, <1>4, <1>5 DEF IInv, TypeOK
  <2>3. wdom' \in [Worker -> cns' \cup {None}]
    BY <1>1, <1>4, <1>8 DEF IInv, TypeOK
  <2>4. QED
    BY <1>1, <1>5, <1>10, <2>1, <2>2, <2>3 DEF IInv, TypeOK
<1>12. LockHeld'
  BY <1>1, <1>10 DEF IInv, LockHeld
<1>13. \A v \in Worker : Busy(v) => wdom[v] # d
  BY <1>6 DEF IInv, Assigned
<1>14. \A v \in Worker \ {w} : Busy(v)' <=> Busy(v)
  BY <1>10 DEF Busy
<1>15. Busy(w)' /\ ~Busy(w)
  BY <1>1, <1>10 DEF Busy
<1>16. Assigned'
  <2> SUFFICES ASSUME NEW v \in Worker, Busy(v)'
               PROVE  /\ wdom'[v] \in DOMAIN outcome'
                      /\ outcome'[wdom'[v]] = "taken"
                      /\ \A u \in Worker : Busy(u)' /\ wdom'[u] = wdom'[v] => u = v
    BY DEF Assigned
  <2>1. CASE v = w
    BY <1>6, <1>9, <1>13, <1>14, <2>1
  <2>2. CASE v # w
    BY <1>9, <1>13, <1>14, <2>2 DEF IInv, Assigned
  <2>3. QED
    BY <2>1, <2>2
<1>17. Waiting'
  <2>1. \A e \in pending' : e \in DOMAIN outcome' /\ outcome'[e] = "pending"
    BY <1>1, <1>6, <1>9 DEF IInv, Waiting
  <2>2. ASSUME NEW i \in 1..Len(queue')
        PROVE  /\ queue'[i] \in DOMAIN outcome'
               /\ outcome'[queue'[i]] = "pending"
               /\ queue'[i] \notin pending'
    BY <1>1, <1>5, <1>7, <1>9 DEF IInv, Waiting
  <2>3. ASSUME NEW i \in 1..Len(queue'), NEW j \in 1..Len(queue'), queue'[i] = queue'[j]
        PROVE  i = j
    <3>1. i + 1 = j + 1
      BY <1>5, <2>3 DEF IInv, Waiting
    <3>2. QED
      BY <3>1
  <2>4. QED
    BY <2>1, <2>2, <2>3 DEF Waiting
<1>18. NoneLost'
  <2>1. ASSUME NEW e \in DOMAIN outcome', outcome'[e] = "pending"
        PROVE  e \in pending' \/ \E i \in 1..Len(queue') : queue'[i] = e
    <3>1. e # d /\ outcome[e] = "pending"
      BY <1>9, <2>1
    <3>2. CASE e \in pending
      BY <1>1, <3>2
    <3>3. CASE \E i \in 1..Len(queue) : queue[i] = e
      <4>1. PICK i \in 1..Len(queue) : queue[i] = e
        BY <3>3
      <4>2. i # 1
        BY <1>4, <3>1, <4>1
      <4>3. i - 1 \in 1..Len(queue') /\ (i - 1) + 1 = i
        BY <1>4, <1>5, <4>2
      <4>4. queue'[i - 1] = e
        BY <1>5, <4>1, <4>3
      <4>5. QED
        BY <4>3, <4>4
    <3>4. QED
      BY <1>9, <3>1, <3>2, <3>3 DEF IInv, NoneLost
  <2>2. ASSUME NEW e \in DOMAIN outcome', outcome'[e] = "taken"
        PROVE  \E v \in Worker : Busy(v)' /\ wdom'[v] = e
    <3>1. CASE e = d
      BY <1>9, <1>15, <3>1
    <3>2. CASE e # d
      BY <1>9, <1>14, <1>15, <2>2, <3>2 DEF IInv, NoneLost
    <3>3. QED
      BY <3>1, <3>2
  <2>3. QED
    BY <2>1, <2>2 DEF NoneLost
<1>19. ClosedMeansSent'
  BY <1>1, <1>10 DEF IInv, ClosedMeansSent, Alive
<1>20. Counted'
  <2>1. Reporting' = Reporting
    BY <1>1, <1>10 DEF Reporting
  <2>2. Failed' = Failed
    BY <1>6, <1>9 DEF Failed
  <2>3. QED
    BY <1>1, <2>1, <2>2 DEF IInv, Counted
<1>21. QED
  BY <1>10, <1>11, <1>12, <1>16, <1>17, <1>18, <1>19, <1>20 DEF IInv

\* The steps of a worker that touch neither its domain nor what became of it: it
\* leaves, prepares its hook, starts it.
LEMMA WorkerOnlyStep ==
    ASSUME IInv, NEW w \in Worker, Leave(w) \/ ExecuteHook(w) \/ Lock(w)
    PROVE  IInv'
<1>1. /\ Alive
      /\ UNCHANGED <<inp, cns, base, shown, jobs, main, pending, feeder, queue, qclosed, wdom,
                     outcome, eclosed, collector, count>>
  BY DEF Leave, ExecuteHook, Lock, mainVars, given, queueVars, errVars
<1>2. PICK label \in {"lock", "hook", "done"} :
         /\ wpc' = [wpc EXCEPT ![w] = label]
         /\ label = "done" => wpc[w] = "recv" /\ queue = <<>> /\ qclosed /\ mutex' = mutex
         /\ label = "lock" => wpc[w] = "exec" /\ mutex' = mutex
         /\ label = "hook" => wpc[w] = "lock" /\ mutex = None /\ mutex' = w
  <2>1. CASE Leave(w)
    BY <2>1 DEF Leave
  <2>2. CASE ExecuteHook(w)
    BY <2>2 DEF ExecuteHook
  <2>3. CASE Lock(w)
    BY <2>3 DEF Lock
  <2>4. QED
    BY <2>1, <2>2, <2>3
<1>3. main \notin StartLocations \cup {"enqueue"}
  BY <1>2 DEF IInv, BeforeWork
<1>4. WorkerStep(w, label)
  BY <1>1, <1>2, <1>3 DEF WorkerStep
<1>5. /\ BeforePool' /\ BeforeWork' /\ Phases' /\ StartOK'
      /\ wpc'[w] = label /\ \A v \in Worker \ {w} : wpc'[v] = wpc[v]
      /\ wpc' \in [Worker -> {"off", "recv", "exec", "lock", "hook", "report", "done"}]
  <2>1. label \in {"recv", "exec", "lock", "hook", "report", "done"}
    OBVIOUS
  <2>2. DOMAIN outcome' = DOMAIN outcome
    BY <1>1
  <2>3. QED
    BY <1>4, <2>1, <2>2, WorkerFrame
<1>6. TypeOK'
  <2>1. (\E S \in {{}, cns} : outcome \in [S -> {"pending", "taken", "ok", "failed"}])'
    BY <1>1 DEF IInv, TypeOK
  <2>2. mutex' \in Worker \cup {None}
    BY <1>2 DEF IInv, TypeOK
  <2>3. QED
    BY <1>1, <1>5, <2>1, <2>2 DEF IInv, TypeOK
<1>7. LockHeld'
  BY <1>2, <1>5, WorkersArePositive DEF IInv, LockHeld
<1>8. \A v \in Worker : Busy(v)' <=> Busy(v)
  BY <1>2, <1>5 DEF Busy
<1>9. Assigned'
  BY <1>1, <1>8 DEF IInv, Assigned
<1>10. Waiting' /\ NoneLost'
  BY <1>1, <1>8 DEF IInv, Waiting, NoneLost
<1>11. ClosedMeansSent'
  BY <1>1, <1>2, <1>5 DEF IInv, ClosedMeansSent, Alive
<1>12. Counted'
  <2>1. Reporting' = Reporting
    BY <1>2, <1>5 DEF Reporting
  <2>2. QED
    BY <1>1, <2>1 DEF IInv, Counted, Failed
<1>13. QED
  BY <1>5, <1>6, <1>7, <1>9, <1>10, <1>11, <1>12 DEF IInv

\* Execute returns: the domain is settled, and a failure is to be reported.
LEMMA SettleStep ==
    ASSUME IInv, NEW w \in Worker, ExecuteFails(w) \/ ExecuteNoHook(w) \/ HookReturns(w)
    PROVE  IInv'
<1>1. /\ Alive
      /\ UNCHANGED <<inp, cns, base, shown, jobs, main, pending, feeder, queue, qclosed,
                     eclosed, collector, count>>
  BY DEF ExecuteFails, ExecuteNoHook, HookReturns, mainVars, given, queueVars, errVars
<1>2. PICK r \in {"ok", "failed"} : Settle(w, r)
  BY DEF ExecuteFails, ExecuteNoHook, HookReturns
<1>3. \/ wpc[w] = "exec" /\ mutex' = mutex
      \/ wpc[w] = "hook" /\ mutex' = None
  BY DEF ExecuteFails, ExecuteNoHook, HookReturns
<1> DEFINE d == wdom[w]
           label == IF r = "ok" THEN "recv" ELSE "report"
<1>4. /\ outcome' = [outcome EXCEPT ![d] = r]
      /\ wpc' = [wpc EXCEPT ![w] = label]
      /\ wdom' = [wdom EXCEPT ![w] = None]
  BY <1>2 DEF Settle
<1>5. Busy(w)
  BY <1>3 DEF Busy
<1>6. /\ d \in DOMAIN outcome /\ outcome[d] = "taken"
      /\ \A v \in Worker : Busy(v) /\ wdom[v] = d => v = w
  BY <1>5 DEF IInv, Assigned
<1>7. /\ label \in {"recv", "report"}
      /\ label = "report" <=> r = "failed"
  OBVIOUS
<1> HIDE DEF d, label
<1>8. /\ DOMAIN outcome' = DOMAIN outcome /\ outcome'[d] = r
      /\ \A e \in DOMAIN outcome \ {d} : outcome'[e] = outcome[e]
      /\ \A v \in Worker \ {w} : wdom'[v] = wdom[v]
  BY <1>4, <1>6 DEF IInv, TypeOK
<1>9. main \notin StartLocations \cup {"enqueue"}
  BY <1>3 DEF IInv, BeforeWork
<1>10. WorkerStep(w, label)
  BY <1>1, <1>3, <1>4, <1>9 DEF WorkerStep
<1>11. /\ BeforePool' /\ BeforeWork' /\ Phases' /\ StartOK'
       /\ wpc'[w] = label /\ \A v \in Worker \ {w} : wpc'[v] = wpc[v]
       /\ wpc' \in [Worker -> {"off", "recv", "exec", "lock", "hook", "report", "done"}]
  <2>1. label \in {"recv", "exec", "lock", "hook", "report", "done"}
    BY <1>7
  <2>2. QED
    BY <1>8, <1>10, <2>1, WorkerFrame
<1>12. TypeOK'
  <2>1. (\E S \in {{}, cns} : outcome \in [S -> {"pending", "taken", "ok", "failed"}])'
    BY <1>1, <1>4, OutcomeType DEF IInv
  <2>2. mutex' \in Worker \cup {None}
    BY <1>3 DEF IInv, TypeOK
  <2>3. wdom' \in [Worker -> cns' \cup {None}]
    BY <1>1, <1>4 DEF IInv, TypeOK
  <2>4. QED
    BY <1>1, <1>11, <2>1, <2>2, <2>3 DEF IInv, TypeOK
<1>13. LockHeld'
  BY <1>3, <1>7, <1>11, WorkersArePositive DEF IInv, LockHeld
<1>14. ~Busy(w)' /\ \A v \in Worker \ {w} : Busy(v)' <=> Busy(v)
  BY <1>7, <1>11 DEF Busy
<1>15. Assigned'
  <2> SUFFICES ASSUME NEW v \in Worker, Busy(v)'
               PROVE  /\ wdom'[v] \in DOMAIN outcome'
                      /\ outcome'[wdom'[v]] = "taken"
                      /\ \A u \in Worker : Busy(u)' /\ wdom'[u] = wdom'[v] => u = v
    BY DEF Assigned
  <2>1. v # w /\ Busy(v) /\ wdom[v] # d
    BY <1>6, <1>14
  <2>2. QED
    BY <1>8, <1>14, <2>1 DEF IInv, Assigned
<1>16. Waiting'
  <2>1. \A e \in pending : e # d
    BY <1>6 DEF IInv, Waiting
  <2>2. \A i \in 1..Len(queue) : queue[i] # d
    BY <1>6 DEF IInv, Waiting
  <2>3. QED
    BY <1>1, <1>8, <2>1, <2>2 DEF IInv, Waiting
<1>17. NoneLost'
  <2> SUFFICES ASSUME NEW e \in DOMAIN outcome', outcome'[e] \in {"pending", "taken"}
               PROVE  /\ outcome'[e] = "pending" =>
                            e \in pending' \/ \E i \in 1..Len(queue') : queue'[i] = e
                      /\ outcome'[e] = "taken" =>
                            \E v \in Worker : Busy(v)' /\ wdom'[v] = e
    BY DEF NoneLost
  <2>1. e # d /\ e \in DOMAIN outcome /\ outcome'[e] = outcome[e]
    BY <1>8
  <2>2. CASE outcome[e] = "pending"
    BY <1>1, <2>1, <2>2 DEF IInv, NoneLost
  <2>3. CASE outcome[e] = "taken"
    <3>1. PICK v \in Worker : Busy(v) /\ wdom[v] = e
      BY <2>1, <2>3 DEF IInv, NoneLost
    <3>2. v # w
      BY <2>1, <3>1 DEF d
    <3>3. Busy(v)' /\ wdom'[v] = e
      BY <1>8, <1>14, <3>1, <3>2
    <3>4. QED
      BY <2>1, <2>3, <3>3
  <2>4. QED
    BY <2>1, <2>2, <2>3
<1>18. ClosedMeansSent'
  BY <1>1, <1>7, <1>11 DEF IInv, ClosedMeansSent, Alive
<1>19. Counted'
  <2>1. w \notin Reporting /\ d \notin Failed
    BY <1>3, <1>6 DEF Reporting, Failed
  <2>2. CASE r = "ok"
    <3>1. Reporting' = Reporting
      BY <1>3, <1>7, <1>11, <2>2 DEF Reporting
    <3>2. Failed' = Failed
      BY <1>6, <1>8, <2>2 DEF Failed
    <3>3. QED
      BY <1>1, <3>1, <3>2 DEF IInv, Counted
  <2>3. CASE r = "failed"
    <3>1. Reporting' = Reporting \cup {w}
      BY <1>7, <1>11, <2>3 DEF Reporting
    <3>2. Failed' = Failed \cup {d}
      BY <1>6, <1>8, <2>3 DEF Failed
    <3>3. Cardinality(Reporting') = Cardinality(Reporting) + 1
      BY <2>1, <3>1, CountedFinite, FS_AddElement
    <3>4. Cardinality(Failed') = Cardinality(Failed) + 1
      BY <2>1, <3>2, CountedFinite, FS_AddElement
    <3>5. count + Cardinality(Reporting) = Cardinality(Failed) /\ count \in Nat
      BY DEF IInv, Counted, TypeOK
    <3>6. count' + Cardinality(Reporting') = Cardinality(Failed')
      BY <1>1, <3>3, <3>4, <3>5, CountedFinite
    <3>7. QED
      BY <3>6 DEF Counted
  <2>4. QED
    BY <2>2, <2>3
<1>20. QED
  BY <1>11, <1>12, <1>13, <1>15, <1>16, <1>17, <1>18, <1>19 DEF IInv

\* A failure reaches the collector.
LEMMA ReportStep == ASSUME IInv, NEW w \in Worker, Report(w) PROVE IInv'
<1>1. /\ Alive /\ wpc[w] = "report" /\ count' = count + 1
      /\ wpc' = [wpc EXCEPT ![w] = "recv"]
      /\ UNCHANGED <<inp, cns, base, shown, jobs, main, pending, feeder, queue, qclosed, wdom,
                     mutex, outcome, eclosed, collector>>
  BY DEF Report, mainVars, given, queueVars
<1>2. main \notin StartLocations \cup {"enqueue"}
  BY <1>1 DEF IInv, BeforeWork
<1>3. WorkerStep(w, "recv")
  BY <1>1, <1>2 DEF WorkerStep
<1>4. /\ BeforePool' /\ BeforeWork' /\ Phases' /\ StartOK'
      /\ wpc'[w] = "recv" /\ \A v \in Worker \ {w} : wpc'[v] = wpc[v]
      /\ wpc' \in [Worker -> {"off", "recv", "exec", "lock", "hook", "report", "done"}]
  <2>1. DOMAIN outcome' = DOMAIN outcome
    BY <1>1
  <2>2. QED
    BY <1>3, <2>1, WorkerFrame
<1>5. TypeOK'
  <2>1. (\E S \in {{}, cns} : outcome \in [S -> {"pending", "taken", "ok", "failed"}])'
    BY <1>1 DEF IInv, TypeOK
  <2>2. count' \in Nat
    BY <1>1 DEF IInv, TypeOK
  <2>3. QED
    BY <1>1, <1>4, <2>1, <2>2 DEF IInv, TypeOK
<1>6. LockHeld'
  BY <1>1, <1>4 DEF IInv, LockHeld
<1>7. \A v \in Worker : Busy(v)' <=> Busy(v)
  BY <1>1, <1>4 DEF Busy
<1>8. Assigned'
  BY <1>1, <1>7 DEF IInv, Assigned
<1>9. Waiting' /\ NoneLost'
  BY <1>1, <1>7 DEF IInv, Waiting, NoneLost
<1>10. ClosedMeansSent'
  BY <1>1, <1>4 DEF IInv, ClosedMeansSent, Alive
<1>11. Counted'
  <2>1. w \in Reporting /\ Reporting' = Reporting \ {w}
    BY <1>1, <1>4 DEF Reporting
  <2>2. Cardinality(Reporting') = Cardinality(Reporting) - 1
    BY <2>1, CountedFinite, FS_RemoveElement
  <2>3. Failed' = Failed
    BY <1>1 DEF Failed
  <2>4. count + Cardinality(Reporting) = Cardinality(Failed) /\ count \in Nat
    BY DEF IInv, Counted, TypeOK
  <2>5. QED
    BY <1>1, <2>2, <2>3, <2>4, CountedFinite DEF Counted
<1>12. QED
  BY <1>4, <1>5, <1>6, <1>8, <1>9, <1>10, <1>11 DEF IInv

-----------------------------------------------------------------------------
\* The invariant and what follows from it.

\* Every step, and every stuttering step, preserves the invariant.
LEMMA NextIInv == ASSUME IInv, [Next]_vars PROVE IInv'
<1>1. CASE Main
  BY <1>1, StartStep, NewPoolStep, EnqueueTasksStep, MainStep DEF Main
<1>2. CASE Feeder
  BY <1>2, FeedStep, CloseQueueStep DEF Feeder
<1>3. CASE \E w \in Worker : Work(w)
  BY <1>3, ReceiveStep, WorkerOnlyStep, SettleStep, ReportStep DEF Work
<1>4. CASE UNCHANGED vars
  <2>1. UNCHANGED <<main, inp, cns, base, shown, jobs, pending, feeder, queue, qclosed, wpc,
                    wdom, mutex, outcome, eclosed, collector, count>>
    BY <1>4 DEF vars, startVars, poolVars, queueVars, workVars, errVars
  <2>2. TypeOK'
    <3>1. (\E S \in {{}, cns} : outcome \in [S -> {"pending", "taken", "ok", "failed"}])'
      BY <2>1 DEF IInv, TypeOK
    <3>2. StartOK'
      BY <2>1 DEF IInv, TypeOK, StartOK
    <3>3. QED
      BY <2>1, <3>1, <3>2 DEF IInv, TypeOK
  <2>3. StartInv => StartInv'
    BY <2>1, StartInvStutter
  <2>4. BeforePool' /\ BeforeWork'
    BY <2>1, <2>3 DEF IInv, BeforePool, BeforeWork
  <2>5. Phases'
    <3>1. Wanted' = Wanted
      BY <2>1 DEF Wanted, AddItemsFromFile
    <3>2. QED
      BY <2>1, <3>1 DEF IInv, Phases
  <2>6. WorkInv'
    BY <2>1, WorkFrame DEF IInv, WorkInv
  <2>7. ClosedMeansSent'
    BY <2>1 DEF IInv, ClosedMeansSent, Alive
  <2>8. QED
    BY <2>2, <2>4, <2>5, <2>6, <2>7 DEF IInv, WorkInv
<1>5. QED
  BY <1>1, <1>2, <1>3, <1>4 DEF Next

\* The invariant holds in every reachable state.
LEMMA IInvHolds == Spec => []IInv
<1>1. Init => IInv
  BY InitIInv
<1>2. IInv /\ [Next]_vars => IInv'
  BY NextIInv
<1>3. QED
  BY <1>1, <1>2, PTL DEF Spec

\* The state of the client is of its type from its start to its end, for any list
\* of domains and any -jobs: the queue never holds more than its capacity, and
\* every request in it is for a domain that was asked for.
THEOREM TypeCorrect == Spec => []TypeOK
<1>1. IInv => TypeOK
  BY DEF IInv
<1>2. QED
  BY <1>1, IInvHolds, PTL

\* At most one hook runs at any time, the shared one only when all workers have
\* left: the mutex of cert.Req.Execute and Wait serialise them.
THEOREM HooksExclusiveHolds == Spec => []HooksExclusive
<1>1. IInv => HooksExclusive
  BY DEF IInv, HooksExclusive, LockHeld, Phases
<1>2. QED
  BY <1>1, IInvHolds, PTL

\* The channel of the errors is closed only when no worker can send on it any more:
\* no worker panics.
THEOREM NoSendOnClosedHolds == Spec => []NoSendOnClosed
<1>1. IInv => NoSendOnClosed
  BY DEF IInv, NoSendOnClosed, Phases
<1>2. QED
  BY <1>1, IInvHolds, PTL

\* Wait returns the number of domains that failed.
THEOREM AllErrorsCountedHolds == Spec => []AllErrorsCounted
<1>1. ASSUME IInv PROVE AllErrorsCounted
  <2> USE <1>1
  <2> SUFFICES ASSUME main = "result" PROVE count = Cardinality(Failed)
    BY DEF AllErrorsCounted, Failed
  <2>1. Reporting = {}
    BY DEF IInv, Phases, Reporting
  <2>2. count \in Nat /\ count + Cardinality(Reporting) = Cardinality(Failed)
    BY DEF IInv, TypeOK, Counted
  <2>3. QED
    BY <2>1, <2>2, FS_EmptySet
<1>2. IInv => AllErrorsCounted
  BY <1>1
<1>3. QED
  BY <1>2, IInvHolds, PTL

\* The requests are made only with a sound address, directory and set of names,
\* whatever the command line, the list of domains and the answer of the server.
THEOREM RequestsAreSoundHolds == Spec => []RequestsAreSound
<1>1. ASSUME IInv PROVE RequestsAreSound
  <2> USE <1>1
  <2>1. CASE main \in {"fetch", "new"}
    BY <2>1, StartInvSound DEF IInv, BeforePool, StartLocations
  <2>2. CASE main \notin {"fetch", "new"}
    BY <2>2 DEF RequestsAreSound
  <2>3. QED
    BY <2>1, <2>2
<1>2. IInv => RequestsAreSound
  BY <1>1
<1>3. QED
  BY <1>2, IInvHolds, PTL

\* With -jobs above 0 every domain is settled when the last worker has left, and
\* all failures are counted.
LEMMA AllSettled ==
    ASSUME IInv, \A i \in Inputs : i.jobs > 0, eclosed
    PROVE  /\ DOMAIN outcome = Wanted /\ count = Cardinality(Failed)
           /\ \A d \in Wanted : outcome[d] \in {"ok", "failed"}
<1>1. /\ cns = Wanted /\ DOMAIN outcome = cns
      /\ inp \in Inputs /\ IsFiniteSet(cns)
      /\ jobs = Least(inp.jobs, Cardinality(cns))
      /\ \A w \in Worker : wpc[w] \in {"off", "done"}
      /\ \A w \in 1..jobs : wpc[w] = "done"
  BY DEF IInv, Phases
<1>2. count = Cardinality(Failed)
  <2>1. Reporting = {}
    BY <1>1 DEF Reporting
  <2>2. count \in Nat /\ count + Cardinality(Reporting) = Cardinality(Failed)
    BY DEF IInv, TypeOK, Counted
  <2>3. QED
    BY <2>1, <2>2, FS_EmptySet
<1>3. ASSUME NEW d \in Wanted PROVE outcome[d] \in {"ok", "failed"}
  <2>1. 1 \in Worker /\ wpc[1] = "done"
    <3>1. inp.jobs \in Nat /\ inp.jobs > 0
      BY <1>1, InputsAssumption DEF Input
    <3>2. Cardinality(cns) \in Nat /\ Cardinality(cns) # 0
      BY <1>1, <1>3, FS_CardinalityType, FS_EmptySet
    <3>3. jobs \in Nat /\ jobs > 0 /\ jobs <= MaxJobs
      BY <1>1, <3>1, <3>2, MaxJobsAssumption DEF Least, IInv, TypeOK
    <3>4. QED
      BY <1>1, <3>3, MaxJobsAssumption DEF Worker
  <2>2. queue = <<>> /\ pending = {}
    BY <2>1 DEF IInv, ClosedMeansSent
  <2>3. outcome[d] # "pending"
    BY <1>1, <2>2 DEF IInv, NoneLost
  <2>4. outcome[d] # "taken"
    BY <1>1 DEF IInv, NoneLost, Busy
  <2>5. QED
    BY <1>1, <2>3, <2>4, OutcomeType DEF IInv
<1>4. QED
  BY <1>1, <1>2, <1>3

\* With -jobs above 0, a client that ends its work without an error has executed
\* every domain asked for, and none failed.  (With -jobs 0 there is no worker, and
\* the property fails.)
THEOREM SuccessMeansDoneHolds ==
    ASSUME \A i \in Inputs : i.jobs > 0
    PROVE  Spec => []SuccessMeansDone
<1>1. ASSUME IInv PROVE SuccessMeansDone
  <2> USE <1>1
  <2> SUFFICES ASSUME main \in {"shared", "exit0"}, collector = "done", NEW d \in Wanted
               PROVE  d \in DOMAIN outcome /\ outcome[d] = "ok"
    BY DEF SuccessMeansDone
  <2>1. eclosed /\ count = 0
    BY DEF IInv, Phases
  <2>2. /\ DOMAIN outcome = Wanted /\ Cardinality(Failed) = 0
        /\ outcome[d] \in {"ok", "failed"}
    BY <2>1, AllSettled
  <2>3. Failed = {}
    BY <2>2, CountedFinite, FS_EmptySet
  <2>4. QED
    BY <2>2, <2>3 DEF Failed
<1>2. IInv => SuccessMeansDone
  BY <1>1
<1>3. QED
  BY <1>2, IInvHolds, PTL

-----------------------------------------------------------------------------
\* Names and pages, from the start to the end.

\* What the start has found stays as it is afterwards.
LEMMA StartFrame ==
    ASSUME Next, ~Start
    PROVE  UNCHANGED given /\ (main' = "flags" <=> main = "flags")
<1>1. CASE Main
  BY <1>1 DEF Main, NewPool, EnqueueTasks, EnqueueFails, Wait, WorkersDone, Result,
     SharedHook, mainVars, Exits
<1>2. CASE Feeder
  BY <1>2 DEF Feeder, Feed, CloseQueue, mainVars
<1>3. CASE \E w \in Worker : Work(w)
  BY <1>3 DEF Work, Receive, Leave, ExecuteFails, ExecuteNoHook, ExecuteHook, Lock,
     HookReturns, Report, mainVars
<1>4. QED
  BY <1>1, <1>2, <1>3 DEF Next

\* The domains are valid, and the page is the one described.
StartKept == Validated /\ ManualAsDescribed

LEMMA StartKeptInit == Init => StartKept
  BY DEF Init, StartInit, StartKept, Validated, ManualAsDescribed

LEMMA StartKeptNext == ASSUME IInv, StartKept, [Next]_vars PROVE StartKept'
<1>1. CASE Start
  <2>1. inp \in Input
    BY DEF IInv, TypeOK, StartOK
  <2>2. QED
    BY <1>1, <2>1, ValidatedNext, ManualNext DEF Start, StartKept
<1>2. CASE UNCHANGED given /\ (main' = "flags" <=> main = "flags")
  BY <1>2 DEF given, StartKept, Validated, ManualAsDescribed
<1>3. CASE UNCHANGED vars
  BY <1>2, <1>3 DEF vars, startVars, given
<1>4. QED
  BY <1>1, <1>2, <1>3, StartFrame

LEMMA StartKeptHolds == Spec => []StartKept
<1>1. Init => StartKept
  BY StartKeptInit
<1>2. IInv /\ StartKept /\ [Next]_vars => StartKept'
  BY StartKeptNext
<1>3. QED
  BY <1>1, <1>2, IInvHolds, PTL DEF Spec

\* Every domain the client works on is one directory directly below -certbase, and
\* so is every name of a client below -ccd: whatever text the command line, the
\* file and the server's list contain, what ValidateDomain lets through does not
\* climb, vanish or split when filepath.Join takes it apart.
THEOREM NamesStayBelowHolds == Spec => []NamesStayBelow
<1>1. IInv /\ StartKept => NamesStayBelow
  BY ValidatedBelow DEF IInv, TypeOK, StartKept
<1>2. QED
  BY <1>1, IInvHolds, StartKeptHolds, PTL

\* For every command line, "man" as its first word shows a page exactly if its
\* arguments describe one, and shows one of those described.
THEOREM ManualAsDescribedHolds == Spec => []ManualAsDescribed
<1>1. StartKept => ManualAsDescribed
  BY DEF StartKept
<1>2. QED
  BY <1>1, StartKeptHolds, PTL

-----------------------------------------------------------------------------
\* The way to the end.

\* The workers that were started and the feeder are there as long as main waits.
Running ==
    /\ main \in {"enqueue"} \cup Working => \A w \in 1..jobs : wpc[w] # "off"
    /\ main \in Working => feeder # "none"
    /\ feeder = "done" => qclosed

LEMMA RunningInit == Init => Running
  BY DEF Init, StartInit, Running, Working

LEMMA RunningNext == ASSUME IInv, Running, [Next]_vars PROVE Running'
<1>0. /\ jobs \in Nat /\ 1..jobs \subseteq Worker
      /\ wpc \in [Worker -> {"off", "recv", "exec", "lock", "hook", "report", "done"}]
  BY MaxJobsAssumption DEF IInv, TypeOK, Worker
<1>1. CASE Start
  <2>1. main' \in StartLocations \cup Exits /\ UNCHANGED <<feeder, qclosed>>
    <3>1. main \in StartLocations
      BY <1>1 DEF Start, StartNext, ParseFlags, FlagsRejected, Inform, ShowManual, Usage,
         AddArgs, ReadSecret, Connect, CheckCertbase, ReadCNs, SetupTLS, FetchCNs,
         FetchFails, Check, StartLocations
    <3>2. StartInv'
      BY <1>1, <3>1, StartInvNext DEF IInv, BeforePool, Start
    <3>3. QED
      BY <1>1, <3>2 DEF StartInv, Start, poolVars, queueVars
  <2>2. main' \notin {"enqueue"} \cup Working
    BY <2>1 DEF Working, StartLocations, Exits
  <2>3. QED
    BY <2>1, <2>2 DEF Running
<1>2. CASE NewPool
  <2>1. jobs' \in 0..MaxJobs
    BY <1>2, NewPoolStep DEF IInv, TypeOK
  <2>2. 1..jobs' \subseteq Worker
    BY <2>1, MaxJobsAssumption DEF Worker
  <2>3. \A w \in 1..jobs' : wpc'[w] = "recv"
    BY <1>2, <2>1, <2>2 DEF NewPool
  <2>4. QED
    BY <1>2, <2>3 DEF NewPool, Running, Working, queueVars
<1>3. CASE EnqueueTasks
  BY <1>3 DEF EnqueueTasks, Running, Working, mainVars
<1>4. CASE EnqueueFails \/ Wait \/ WorkersDone \/ Result \/ SharedHook
  BY <1>4 DEF EnqueueFails, Wait, WorkersDone, Result, SharedHook, Running, Working, mainVars,
     queueVars, workVars, Exits
<1>5. CASE Feeder
  BY <1>5 DEF Feeder, Feed, CloseQueue, Running, mainVars, workVars
<1>6. ASSUME NEW w \in Worker, Work(w) PROVE Running'
  <2>1. /\ UNCHANGED <<main, jobs, feeder, qclosed>>
        /\ \E at \in {"recv", "exec", "lock", "hook", "report", "done"} :
              wpc' = [wpc EXCEPT ![w] = at]
    BY <1>6 DEF Work, Receive, Leave, ExecuteFails, ExecuteNoHook, ExecuteHook, Lock,
       HookReturns, Report, Settle, mainVars, queueVars
  <2>2. \A v \in Worker : wpc[v] # "off" => wpc'[v] # "off"
    BY <1>0, <2>1
  <2>3. QED
    BY <1>0, <2>1, <2>2 DEF Running
<1>7. CASE UNCHANGED vars
  BY <1>7 DEF vars, startVars, poolVars, queueVars, workVars, Running
<1>8. QED
  BY <1>1, <1>2, <1>3, <1>4, <1>5, <1>6, <1>7 DEF Next, Main

LEMMA RunningHolds == Spec => []Running
<1>1. Init => Running
  BY RunningInit
<1>2. IInv /\ Running /\ [Next]_vars => Running'
  BY RunningNext
<1>3. QED
  BY <1>1, <1>2, IInvHolds, PTL DEF Spec

\* With any number of workers and domains the goroutines of the client never wait
\* for each other in a circle: until it has ended, one of them can go on.
THEOREM NeverStuckHolds == Spec => []NeverStuck
<1>1. ASSUME IInv, Running PROVE NeverStuck
  <2> USE <1>1
  <2> SUFFICES ASSUME Alive, ~MainMoves PROVE FeederMoves \/ \E w \in Worker : Moves(w)
    BY DEF NeverStuck
  <2>1. main = "workers" /\ collector = "recv" /\ ~eclosed
    BY DEF MainMoves, IInv, Phases
  <2>2. PICK w \in 1..jobs : wpc[w] # "done"
    BY <2>1 DEF MainMoves
  <2>3. w \in Worker /\ jobs \in Nat /\ jobs > 0
    BY MaxJobsAssumption DEF IInv, TypeOK, Worker
  <2>4. wpc[w] \in {"recv", "exec", "lock", "hook", "report"}
    BY <2>1, <2>2, <2>3 DEF Running, Working, IInv, TypeOK
  <2>5. CASE wpc[w] \in {"exec", "hook", "report"}
    BY <2>1, <2>3, <2>5 DEF Moves
  <2>6. CASE wpc[w] = "lock"
    <3>1. CASE mutex = None
      BY <2>3, <2>6, <3>1 DEF Moves
    <3>2. CASE mutex \in Worker
      <4>1. wpc[mutex] = "hook"
        BY <3>2 DEF IInv, LockHeld
      <4>2. Moves(mutex)
        BY <4>1 DEF Moves
      <4>3. QED
        BY <3>2, <4>2
    <3>3. QED
      BY <3>1, <3>2 DEF IInv, TypeOK
  <2>7. CASE wpc[w] = "recv"
    <3>1. CASE queue # <<>> \/ qclosed
      BY <2>3, <2>7, <3>1 DEF Moves
    <3>2. CASE queue = <<>> /\ ~qclosed
      <4>1. feeder = "send"
        BY <2>1, <3>2 DEF Running, Working, IInv, TypeOK
      <4>2. Len(queue) < jobs
        BY <2>3, <3>2
      <4>3. QED
        BY <4>1, <4>2 DEF FeederMoves
    <3>3. QED
      BY <3>1, <3>2
  <2>8. QED
    BY <2>4, <2>5, <2>6, <2>7
<1>2. IInv /\ Running => NeverStuck
  BY <1>1
<1>3. QED
  BY <1>2, IInvHolds, RunningHolds, PTL

\* Main's steps, one place after the other.
LEMMA MainGoesOn == ASSUME Main PROVE Ahead(MainWay, main, main')
<1>1. /\ DOMAIN MainWay = 1..16
      /\ MainWay[1] = "flags" /\ MainWay[2] = "secret" /\ MainWay[3] = "connect"
      /\ MainWay[4] = "certbase" /\ MainWay[5] = "cnfile" /\ MainWay[6] = "tls"
      /\ MainWay[7] = "fetch" /\ MainWay[8] = "new" /\ MainWay[9] = "enqueue"
      /\ MainWay[10] = "wait" /\ MainWay[11] = "workers" /\ MainWay[12] = "result"
      /\ MainWay[13] = "shared" /\ MainWay[14] = "exit0" /\ MainWay[15] = "exit1"
      /\ MainWay[16] = "exit2"
  BY DEF MainWay
<1>2. ASSUME NEW i \in 1..16, NEW j \in 1..16, i < j
      PROVE  Ahead(MainWay, MainWay[i], MainWay[j])
  BY <1>1, <1>2 DEF Ahead
<1>3. ASSUME NEW i \in 1..13, main = MainWay[i], main' \in Exits
      PROVE  Ahead(MainWay, main, main')
  <2>1. /\ i < 14 /\ i < 15 /\ i < 16
        /\ i \in 1..16 /\ 14 \in 1..16 /\ 15 \in 1..16 /\ 16 \in 1..16
    OBVIOUS
  <2>2. \A j \in {14, 15, 16} : Ahead(MainWay, MainWay[i], MainWay[j])
    BY <1>2, <2>1
  <2>3. QED
    BY <1>1, <1>3, <2>2 DEF Exits
<1>4. ASSUME NEW i \in 1..12, main = MainWay[i], main' = MainWay[i + 1]
      PROVE  Ahead(MainWay, main, main')
  <2>1. i < i + 1 /\ i \in 1..16 /\ i + 1 \in 1..16
    OBVIOUS
  <2>2. QED
    BY <1>2, <1>4, <2>1
<1>5. \/ \E i \in 1..13 : main = MainWay[i] /\ main' \in Exits
      \/ \E i \in 1..12 : main = MainWay[i] /\ main' = MainWay[i + 1]
      \/ main = MainWay[6] /\ main' = MainWay[8]
      \/ main = MainWay[11] /\ main' = MainWay[12]
      \/ main = MainWay[12] /\ main' = MainWay[13]
  <2>1. /\ 1 + 1 = 2 /\ 2 + 1 = 3 /\ 3 + 1 = 4 /\ 4 + 1 = 5 /\ 5 + 1 = 6 /\ 6 + 1 = 7
        /\ 7 + 1 = 8 /\ 8 + 1 = 9 /\ 9 + 1 = 10 /\ 10 + 1 = 11
        /\ {1, 2, 3, 4, 5, 6, 7, 8, 9, 10, 11, 12} \subseteq 1..12
        /\ {1, 2, 3, 4, 5, 6, 7, 8, 9, 10, 11, 12, 13} \subseteq 1..13
    OBVIOUS
  <2>2. CASE Start
    <3>1. CASE ParseFlags
      <4>1. main = "flags" /\ main' \in {"secret"} \cup Exits
        BY <3>1 DEF ParseFlags, FlagsRejected, Inform, ShowManual, Usage, AddArgs, Exit,
           Display, Exits
      <4>2. QED
        BY <1>1, <2>1, <4>1
    <3>2. CASE ReadSecret
      BY <1>1, <2>1, <3>2 DEF ReadSecret, Check, Exits
    <3>3. CASE Connect
      BY <1>1, <2>1, <3>3 DEF Connect, Check, Exits
    <3>4. CASE CheckCertbase
      BY <1>1, <2>1, <3>4 DEF CheckCertbase, Check, Exits
    <3>5. CASE ReadCNs
      BY <1>1, <2>1, <3>5 DEF ReadCNs, Exits
    <3>6. CASE SetupTLS
      <4>1. main = "tls" /\ main' \in {"fetch", "new"} \cup Exits
        BY <3>6 DEF SetupTLS, TLSFailure, Exits
      <4>2. QED
        BY <1>1, <2>1, <4>1 DEF Exits
    <3>7. CASE FetchCNs
      BY <1>1, <2>1, <3>7 DEF FetchCNs, Exits
    <3>8. CASE FetchFails
      BY <1>1, <2>1, <3>8 DEF FetchFails, Exit, Exits
    <3>9. QED
      BY <2>2, <3>1, <3>2, <3>3, <3>4, <3>5, <3>6, <3>7, <3>8 DEF Start, StartNext
  <2>3. CASE NewPool
    BY <1>1, <2>1, <2>3 DEF NewPool
  <2>4. CASE EnqueueTasks
    BY <1>1, <2>1, <2>4 DEF EnqueueTasks
  <2>5. CASE EnqueueFails
    BY <1>1, <2>1, <2>5 DEF EnqueueFails, Exits
  <2>6. CASE Wait
    BY <1>1, <2>1, <2>6 DEF Wait
  <2>7. CASE WorkersDone
    BY <1>1, <2>7 DEF WorkersDone
  <2>8. CASE Result
    <3>1. main = "result" /\ main' \in {"shared"} \cup Exits
      BY <2>8 DEF Result, Exits
    <3>2. QED
      BY <1>1, <2>1, <3>1
  <2>9. CASE SharedHook
    BY <1>1, <2>1, <2>9 DEF SharedHook, Exits
  <2>10. QED
    BY <2>2, <2>3, <2>4, <2>5, <2>6, <2>7, <2>8, <2>9 DEF Main
<1>6. QED
  <2>1. 6 \in 1..15 /\ 8 \in 1..15 /\ 6 < 8 /\ 11 \in 1..15 /\ 12 \in 1..15 /\ 11 < 12
        /\ 13 \in 1..15 /\ 12 < 13
    OBVIOUS
  <2>2. /\ Ahead(MainWay, MainWay[6], MainWay[8]) /\ Ahead(MainWay, MainWay[11], MainWay[12])
        /\ Ahead(MainWay, MainWay[12], MainWay[13])
    BY <1>2, <2>1
  <2>3. QED
    BY <1>3, <1>4, <1>5, <2>2

\* The steps of a worker that has received its domain.
LEMMA WorkerGoesOn ==
    ASSUME IInv, NEW w \in Worker,
           NEW at \in {"lock", "hook", "report", "recv", "done"}, wpc' = [wpc EXCEPT ![w] = at],
           \/ wpc[w] = "exec" /\ at \in {"lock", "report", "recv"}
           \/ wpc[w] = "lock" /\ at = "hook"
           \/ wpc[w] = "hook" /\ at \in {"report", "recv"}
           \/ wpc[w] = "report" /\ at = "recv"
           \/ wpc[w] = "recv" /\ at = "done"
    PROVE  /\ Ahead(WorkerWay, wpc[w], wpc'[w])
           /\ \A v \in Worker \ {w} : wpc'[v] = wpc[v]
<1>1. wpc'[w] = at /\ \A v \in Worker \ {w} : wpc'[v] = wpc[v]
  BY DEF IInv, TypeOK
<1>2. /\ DOMAIN WorkerWay = 1..6
      /\ WorkerWay[1] = "exec" /\ WorkerWay[2] = "lock" /\ WorkerWay[3] = "hook"
      /\ WorkerWay[4] = "report" /\ WorkerWay[5] = "recv" /\ WorkerWay[6] = "done"
  BY DEF WorkerWay
<1>3. ASSUME NEW i \in 1..6, NEW j \in 1..6, i < j
      PROVE  Ahead(WorkerWay, WorkerWay[i], WorkerWay[j])
  BY <1>2, <1>3 DEF Ahead
<1>4. /\ Ahead(WorkerWay, WorkerWay[1], WorkerWay[2])
      /\ Ahead(WorkerWay, WorkerWay[1], WorkerWay[4])
      /\ Ahead(WorkerWay, WorkerWay[1], WorkerWay[5])
      /\ Ahead(WorkerWay, WorkerWay[2], WorkerWay[3])
      /\ Ahead(WorkerWay, WorkerWay[3], WorkerWay[4])
      /\ Ahead(WorkerWay, WorkerWay[3], WorkerWay[5])
      /\ Ahead(WorkerWay, WorkerWay[4], WorkerWay[5])
      /\ Ahead(WorkerWay, WorkerWay[5], WorkerWay[6])
  BY <1>3
<1>5. Ahead(WorkerWay, wpc[w], at)
  BY <1>2, <1>4
<1>6. QED
  BY <1>1, <1>5

\* With any number of workers and domains every step takes the client closer to its
\* end: no domain is given back once it is taken, nothing is done a second time.
\* With NeverStuck that means that the client ends.
THEOREM ProgressHolds == Spec => Progress
<1>1. ASSUME IInv, Next PROVE Closer
  <2> USE <1>1
  <2>1. CASE Main
    BY <2>1, MainGoesOn DEF Closer
  <2>2. CASE Feed
    <3>1. PICK d \in pending : pending' = pending \ {d}
      BY <2>2 DEF Feed
    <3>2. pending' # pending /\ pending' \subseteq pending
      BY <3>1
    <3>3. Untaken' = Untaken /\ main' = main /\ wpc' = wpc /\ feeder' = feeder
      BY <2>2 DEF Feed, Untaken, workVars
    <3>4. QED
      BY <3>2, <3>3 DEF Closer
  <2>3. CASE CloseQueue
    BY <2>3 DEF CloseQueue, Closer, Untaken, workVars
  <2>4. ASSUME NEW w \in Worker, Receive(w) PROVE Closer
    <3> DEFINE d == Head(queue)
    <3>1. main' = main /\ outcome' = [outcome EXCEPT ![d] = "taken"] /\ queue # <<>>
      BY <2>4 DEF Receive
    <3>2. d \in DOMAIN outcome /\ outcome[d] = "pending"
      <4>1. 1 \in 1..Len(queue) /\ d = queue[1]
        BY <3>1 DEF IInv, TypeOK
      <4>2. QED
        BY <4>1 DEF IInv, Waiting
    <3> HIDE DEF d
    <3>3. Untaken' = Untaken \ {d} /\ d \in Untaken
      BY <3>1, <3>2 DEF Untaken
    <3>4. QED
      BY <3>1, <3>3 DEF Closer
  <2>5. ASSUME NEW w \in Worker, Leave(w) \/ ExecuteHook(w) \/ Lock(w) \/ Report(w)
        PROVE  Closer
    <3>1. PICK at \in {"lock", "hook", "recv", "done"} :
            /\ wpc' = [wpc EXCEPT ![w] = at]
            /\ \/ wpc[w] = "exec" /\ at = "lock"
               \/ wpc[w] = "lock" /\ at = "hook"
               \/ wpc[w] = "report" /\ at = "recv"
               \/ wpc[w] = "recv" /\ at = "done"
      BY <2>5 DEF Leave, ExecuteHook, Lock, Report
    <3>2. /\ Ahead(WorkerWay, wpc[w], wpc'[w])
          /\ \A v \in Worker \ {w} : wpc'[v] = wpc[v]
      BY <3>1, WorkerGoesOn
    <3>3. main' = main /\ UNCHANGED <<pending, feeder>> /\ Untaken' = Untaken
      BY <2>5 DEF Leave, ExecuteHook, Lock, Report, queueVars, Untaken
    <3>4. QED
      BY <3>2, <3>3 DEF Closer
  <2>6. ASSUME NEW w \in Worker, ExecuteFails(w) \/ ExecuteNoHook(w) \/ HookReturns(w)
        PROVE  Closer
    <3>1. PICK r \in {"ok", "failed"} : Settle(w, r)
      BY <2>6 DEF ExecuteFails, ExecuteNoHook, HookReturns
    <3>2. wpc[w] \in {"exec", "hook"} /\ main' = main /\ UNCHANGED <<pending, feeder>>
      BY <2>6 DEF ExecuteFails, ExecuteNoHook, HookReturns, queueVars
    <3>3. /\ Ahead(WorkerWay, wpc[w], wpc'[w])
          /\ \A v \in Worker \ {w} : wpc'[v] = wpc[v]
      BY <3>1, <3>2, WorkerGoesOn DEF Settle
    <3>4. wdom[w] \in DOMAIN outcome /\ outcome[wdom[w]] = "taken"
      BY <3>2 DEF IInv, Assigned, Busy
    <3>5. Untaken' = Untaken
      BY <3>1, <3>4 DEF Settle, Untaken
    <3>6. QED
      BY <3>2, <3>3, <3>5 DEF Closer
  <2>7. QED
    BY <2>1, <2>2, <2>3, <2>4, <2>5, <2>6 DEF Next, Feeder, Work
<1>2. IInv /\ [Next]_vars => [Closer]_vars
  BY <1>1
<1>3. QED
  BY <1>2, IInvHolds, PTL DEF Spec, Progress

-----------------------------------------------------------------------------
\* What is promised.

\* A step that Batch does not see.
LEMMA UnseenStep ==
    ASSUME Wanted' = Wanted, Results' = Results, (collector' = "done") = (collector = "done"),
           Sum' = Sum, Status' = Status
    PROVE  UNCHANGED Promise!batchVars
  BY DEF Promise!batchVars

\* One that touches neither the outcomes nor the sum nor the end.
LEMMA UnseenFrame ==
    ASSUME UNCHANGED <<inp, outcome, count>>, collector' # "done", collector # "done",
           Status' = Status
    PROVE  UNCHANGED Promise!batchVars
<1>1. Wanted' = Wanted
  BY DEF Wanted, AddItemsFromFile
<1>2. Results' = Results /\ Sum' = Sum
  BY DEF Results, Sum
<1>3. QED
  BY <1>1, <1>2, UnseenStep

\* Main's steps.
LEMMA MainKeepsPromise ==
    ASSUME IInv, \A i \in Inputs : i.jobs > 0, Main
    PROVE  [Promise!Next]_(Promise!batchVars)
<1>1. UNCHANGED inp /\ Wanted' = Wanted
  <2>1. UNCHANGED inp
    BY DEF Main, Start, StartNext, ParseFlags, FlagsRejected, Inform, ShowManual, Usage,
       AddArgs, ReadSecret, Connect, CheckCertbase, ReadCNs, SetupTLS, FetchCNs, FetchFails,
       Check, Exit, NewPool, EnqueueTasks, EnqueueFails, Wait, WorkersDone, Result,
       SharedHook, mainVars, given
  <2>2. QED
    BY <2>1 DEF Wanted, AddItemsFromFile
<1>2. ASSUME outcome = <<>>, collector # "done", main \notin Exits,
             main' \in Exits, UNCHANGED <<outcome, collector, count>>
      PROVE  Promise!Next
  <2>1. Results = <<>> /\ Results' = Results
    BY <1>2, NoOutcome DEF Results
  <2>2. Sum = 0 /\ Sum' = 0 /\ Status = "running" /\ Status' = main'
    BY <1>2 DEF Sum, Status, Alive
  <2>3. Promise!End
    BY <1>1, <1>2, <2>1, <2>2 DEF Promise!End, Exits
  <2>4. QED
    BY <2>3 DEF Promise!Next
<1>3. CASE Start
  <2>1. main \in StartLocations
    BY <1>3 DEF Start, StartNext, ParseFlags, FlagsRejected, Inform, ShowManual, Usage,
       AddArgs, ReadSecret, Connect, CheckCertbase, ReadCNs, SetupTLS, FetchCNs,
       FetchFails, Check, StartLocations
  <2>2. /\ outcome = <<>> /\ collector # "done" /\ main \notin Exits
        /\ UNCHANGED <<outcome, collector, count>>
    BY <1>3, <2>1 DEF IInv, BeforeWork, StartLocations, Exits, Start, poolVars, workVars,
       errVars
  <2>3. CASE main' \in Exits
    BY <1>2, <2>2, <2>3
  <2>4. CASE main' \notin Exits
    BY <1>1, <2>2, <2>4, UnseenFrame DEF Status, Alive
  <2>5. QED
    BY <2>3, <2>4
<1>4. CASE EnqueueFails
  BY <1>2, <1>4 DEF EnqueueFails, workVars, errVars, Exits, IInv, BeforeWork
<1>5. CASE NewPool \/ Wait \/ WorkersDone
  <2>1. collector # "done" /\ UNCHANGED <<outcome, count>> /\ collector' # "done"
    BY <1>5 DEF NewPool, Wait, WorkersDone, workVars, errVars, IInv, Phases, Exits
  <2>2. main \notin Exits /\ main' \notin Exits
    BY <1>5 DEF NewPool, Wait, WorkersDone, Exits
  <2>3. QED
    BY <1>1, <2>1, <2>2, UnseenFrame DEF Status, Alive
<1>6. CASE EnqueueTasks
  <2>1. /\ outcome = <<>> /\ collector # "done" /\ cns = Wanted
        /\ outcome' = [d \in cns |-> "pending"] /\ UNCHANGED <<collector, count>>
        /\ main = "enqueue" /\ main' = "wait"
    BY <1>6 DEF EnqueueTasks, errVars, IInv, BeforeWork, Phases
  <2>2. Results = <<>> /\ Results' = [d \in Wanted |-> "open"]
    BY <2>1, NoOutcome DEF Results
  <2>3. Sum' = Sum /\ Status = "running" /\ Status' = "running"
    BY <2>1 DEF Sum, Status, Alive, Exits
  <2>4. Promise!TakeOn
    BY <1>1, <2>1, <2>2, <2>3 DEF Promise!TakeOn
  <2>5. QED
    BY <2>4 DEF Promise!Next
<1>7. CASE Result
  <2>1. /\ main = "result" /\ eclosed /\ collector = "recv" /\ collector' = "done"
        /\ UNCHANGED <<outcome, count>>
        /\ main' = IF count # 0 THEN "exit1" ELSE IF inp.shared THEN "shared" ELSE "exit0"
    BY <1>7 DEF Result, workVars
  <2>2. /\ DOMAIN outcome = Wanted /\ count = Cardinality(Failed)
        /\ \A d \in Wanted : outcome[d] \in {"ok", "failed"}
    BY <2>1, AllSettled
  <2>3. Results = outcome /\ Results' = Results
    BY <2>1, <2>2, OutcomeType DEF Results, IInv
  <2>4. Sum' = Cardinality({d \in Wanted : Results[d] = "failed"})
    BY <2>1, <2>2, <2>3 DEF Sum, Failed
  <2>5. /\ Status = "running"
        /\ Status' \in IF Sum' # 0 THEN {"exit1"} ELSE {"running", "exit0"}
    BY <2>1 DEF Sum, Status, Alive, Exits
  <2>6. \A S : Promise!Cardinality(S) = Cardinality(S)
    BY Zenon DEF Promise!Cardinality, Cardinality
  <2>7. Promise!Conclude
    BY <1>1, <2>1, <2>2, <2>3, <2>4, <2>5, <2>6 DEF Promise!Conclude
  <2>8. QED
    BY <2>7 DEF Promise!Next
<1>8. CASE SharedHook
  <2>1. /\ main = "shared" /\ main' \in Exits /\ collector = "done" /\ count = 0
        /\ UNCHANGED <<outcome, collector, count>>
    BY <1>8 DEF SharedHook, workVars, errVars, IInv, Phases, Exits
  <2>2. Sum = 0 /\ Sum' = 0 /\ Results' = Results /\ Status = "running" /\ Status' = main'
    BY <2>1 DEF Sum, Results, Status, Alive, Exits
  <2>3. Promise!End
    BY <1>1, <2>1, <2>2 DEF Promise!End, Exits
  <2>4. QED
    BY <2>3 DEF Promise!Next
<1>9. QED
  BY <1>3, <1>4, <1>5, <1>6, <1>7, <1>8 DEF Main

\* The steps of the workers.
LEMMA WorkKeepsPromise ==
    ASSUME IInv, NEW w \in Worker, Work(w)
    PROVE  [Promise!Next]_(Promise!batchVars)
<1>1. /\ UNCHANGED <<inp, main, collector>> /\ Alive
      /\ Wanted' = Wanted
  <2>1. UNCHANGED <<inp, main, collector>> /\ Alive
    BY DEF Work, Receive, Leave, ExecuteFails, ExecuteNoHook, ExecuteHook, Lock, HookReturns,
       Report, mainVars, given, errVars
  <2>2. QED
    BY <2>1 DEF Wanted, AddItemsFromFile
<1>2. Status = "running" /\ Status' = "running"
  BY <1>1 DEF Status, Alive
<1>3. CASE Leave(w) \/ ExecuteHook(w) \/ Lock(w) \/ Report(w)
  <2>1. UNCHANGED outcome /\ (count' = count \/ collector = "recv")
    BY <1>3 DEF Leave, ExecuteHook, Lock, Report, workVars, errVars
  <2>2. Results' = Results /\ Sum' = Sum
    BY <1>1, <2>1 DEF Results, Sum
  <2>3. QED
    BY <1>1, <1>2, <2>2, UnseenStep
<1>4. CASE Receive(w)
  <2> DEFINE d == Head(queue)
  <2>1. outcome' = [outcome EXCEPT ![d] = "taken"] /\ count' = count /\ queue # <<>>
    BY <1>4 DEF Receive, errVars
  <2>2. d \in DOMAIN outcome /\ outcome[d] = "pending"
    <3>1. 1 \in 1..Len(queue) /\ d = queue[1]
      BY <2>1 DEF IInv, TypeOK
    <3>2. QED
      BY <3>1 DEF IInv, Waiting
  <2> HIDE DEF d
  <2>3. /\ DOMAIN outcome' = DOMAIN outcome /\ outcome'[d] = "taken"
        /\ \A e \in DOMAIN outcome \ {d} : outcome'[e] = outcome[e]
    BY <2>1, <2>2, OutcomeType DEF IInv
  <2>4. Results' = Results
    BY <2>2, <2>3 DEF Results
  <2>5. Sum' = Sum
    BY <1>1, <2>1 DEF Sum
  <2>6. QED
    BY <1>1, <1>2, <2>4, <2>5, UnseenStep
<1>5. CASE ExecuteFails(w) \/ ExecuteNoHook(w) \/ HookReturns(w)
  <2> DEFINE d == wdom[w]
  <2>1. PICK r \in {"ok", "failed"} : Settle(w, r)
    BY <1>5 DEF ExecuteFails, ExecuteNoHook, HookReturns
  <2>2. wpc[w] \in {"exec", "hook"} /\ count' = count
    BY <1>5 DEF ExecuteFails, ExecuteNoHook, HookReturns, errVars
  <2>3. d \in DOMAIN outcome /\ outcome[d] = "taken"
    BY <2>2 DEF IInv, Assigned, Busy
  <2>4. outcome' = [outcome EXCEPT ![d] = r]
    BY <2>1 DEF Settle
  <2> HIDE DEF d
  <2>5. /\ DOMAIN outcome' = DOMAIN outcome /\ outcome'[d] = r
        /\ \A e \in DOMAIN outcome \ {d} : outcome'[e] = outcome[e]
    BY <2>3, <2>4, OutcomeType DEF IInv
  <2>6. DOMAIN Results = DOMAIN outcome /\ Results[d] = "open"
    BY <2>3 DEF Results
  <2>7. Results' = [Results EXCEPT ![d] = r]
    BY <2>3, <2>5 DEF Results
  <2>8. collector # "done"
    <3>1. ~eclosed
      BY <2>2 DEF IInv, Phases
    <3>2. QED
      BY <3>1 DEF IInv, Phases
  <2>9. Sum' = Sum
    BY <1>1, <2>2 DEF Sum
  <2>10. Promise!Settle(d)
    BY <1>1, <1>2, <2>6, <2>7, <2>8, <2>9 DEF Promise!Settle
  <2>11. QED
    BY <2>3, <2>6, <2>10 DEF Promise!Next
<1>6. QED
  BY <1>3, <1>4, <1>5 DEF Work

\* With -jobs above 0, any number of workers implements the promise of Batch: every
\* domain asked for is settled once, the conclusion waits for all of them and
\* counts each failure, and only a run without one ends with 0.
THEOREM RefinesBatchHolds ==
    ASSUME \A i \in Inputs : i.jobs > 0
    PROVE  Spec => RefinesBatch
<1>1. Init => Promise!Init
  <2> SUFFICES ASSUME Init PROVE Promise!Init
    OBVIOUS
  <2>1. outcome = <<>> /\ collector = "none" /\ main = "flags"
    BY DEF Init, StartInit
  <2>2. Results = <<>>
    BY <2>1, NoOutcome DEF Results
  <2>3. QED
    BY <2>1, <2>2 DEF Promise!Init, Sum, Status, Alive, Exits
<1>2. ASSUME IInv, [Next]_vars PROVE [Promise!Next]_(Promise!batchVars)
  <2> USE <1>2
  <2>1. CASE Main
    BY <2>1, MainKeepsPromise
  <2>2. CASE Feeder \/ UNCHANGED vars
    <3>1. UNCHANGED <<inp, main, collector, outcome, count>>
      BY <2>2 DEF Feeder, Feed, CloseQueue, mainVars, given, vars, startVars, poolVars,
         workVars, errVars
    <3>2. Wanted' = Wanted /\ Results' = Results /\ Sum' = Sum /\ Status' = Status
      BY <3>1 DEF Wanted, AddItemsFromFile, Results, Sum, Status, Alive
    <3>3. QED
      BY <3>1, <3>2, UnseenStep
  <2>3. CASE \E w \in Worker : Work(w)
    BY <2>3, WorkKeepsPromise
  <2>4. QED
    BY <2>1, <2>2, <2>3 DEF Next
<1>3. IInv /\ [Next]_vars => [Promise!Next]_(Promise!batchVars)
  BY <1>2
<1>4. QED
  BY <1>1, <1>3, IInvHolds, PTL DEF Spec, RefinesBatch, Promise!Spec

=============================================================================
