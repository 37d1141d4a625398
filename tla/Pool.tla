-------------------------------- MODULE Pool --------------------------------
(***************************************************************************)
(* The worker pool of cert-proxy-client and the main function that drives  *)
(* it: the goroutines (main, the feeder, the workers, the error collector),*)
(* the two channels, the wait group and the mutex that serialises the      *)
(* hooks.  A call of cert.Req.Execute is one step that fails, succeeds, or *)
(* goes on to take the lock for its hook; module Execute has the rest.     *)
(***************************************************************************)
EXTENDS ClientStart, Naturals, FiniteSets

CONSTANT
    MaxJobs         \* bound on the values of -jobs

ASSUME MaxJobsAssumption == MaxJobs \in Nat
ASSUME InputsAssumption == \A i \in Inputs : i \in Input /\ i.jobs <= MaxJobs
ASSUME NoneAssumption == None \notin Nat

VARIABLES
    jobs,       \* opt.Jobs after the cap: the number of workers
    pending,    \* the requests the feeder has not sent yet
    feeder,     \* where the feeder is
    queue,      \* the buffered channel of requests
    qclosed,    \* is it closed?
    wpc,        \* wpc[w]: where worker w is
    wdom,       \* wdom[w]: the domain of the request it works on
    mutex,      \* the worker that holds the hook lock
    eclosed,    \* is the errors channel closed?
    collector,  \* where the collector of Wait is
    count,      \* the number of errors it received
    outcome     \* outcome[d]: what became of domain d, once there are requests

given == <<inp, cns, base, shown>>
mainVars == <<given, jobs>>
queueVars == <<pending, feeder, queue, qclosed>>
workVars == <<wpc, wdom, mutex, outcome>>
errVars == <<eclosed, collector, count>>
poolVars == <<jobs, queueVars, workVars, errVars>>
vars == <<startVars, poolVars>>

Worker == 1..MaxJobs

TypeOK ==
    /\ StartOK
    /\ main \in StartLocations \cup Exits \cup
               {"enqueue", "wait", "workers", "result", "shared"}
    /\ jobs \in 0..MaxJobs
    /\ pending \subseteq cns
    /\ feeder \in {"none", "send", "done"}
    /\ queue \in Seq(cns)
    /\ Len(queue) <= jobs
    /\ qclosed \in BOOLEAN
    /\ wpc \in [Worker -> {"off", "recv", "exec", "lock", "hook", "report", "done"}]
    /\ wdom \in [Worker -> cns \cup {None}]
    /\ mutex \in Worker \cup {None}
    /\ eclosed \in BOOLEAN
    /\ collector \in {"none", "recv", "done"}
    /\ count \in Nat
    /\ \E S \in {{}, cns} : outcome \in [S -> {"pending", "taken", "ok", "failed"}]

Init ==
    /\ StartInit
    /\ jobs = 0
    /\ pending = {}
    /\ feeder = "none"
    /\ queue = <<>>
    /\ qclosed = FALSE
    /\ wpc = [w \in Worker |-> "off"]
    /\ wdom = [w \in Worker |-> None]
    /\ mutex = None
    /\ eclosed = FALSE
    /\ collector = "none"
    /\ count = 0
    /\ outcome = <<>>

\* os.Exit and log.Fatal end every goroutine.
Alive == main \notin Exits

-----------------------------------------------------------------------------
\* The main goroutine.

Start == StartNext /\ UNCHANGED poolVars

\* Mutant of Least: max for min.
Greatest(a, b) == IF a <= b THEN b ELSE a

Least(a, b) == IF a <= b THEN a ELSE b

NewPool ==
    /\ main = "new"
    /\ jobs' = Least(inp.jobs, Cardinality(cns))
    /\ wpc' = [w \in Worker |-> IF w <= jobs' THEN "recv" ELSE "off"]
    /\ main' = "enqueue"
    /\ UNCHANGED <<given, queueVars, wdom, mutex, outcome, errVars>>

\* All requests are built, in the order of a Go map, before the feeder starts.
EnqueueTasks ==
    /\ main = "enqueue"
    /\ pending' = cns
    /\ outcome' = [d \in cns |-> "pending"]
    /\ feeder' = "send"
    /\ main' = "wait"
    /\ UNCHANGED <<mainVars, queue, qclosed, wpc, wdom, mutex, errVars>>

\* NewReq fails for some domain: the queue is closed, main gives up.
EnqueueFails ==
    /\ main = "enqueue"
    /\ cns # {}
    /\ qclosed' = TRUE
    /\ main' = "exit1"
    /\ UNCHANGED <<mainVars, pending, feeder, queue, workVars, errVars>>

\* Mutant of Wait: the collector is not started.
WaitUncollected ==
    /\ main = "wait"
    /\ main' = "workers"
    /\ UNCHANGED <<mainVars, queueVars, workVars, errVars>>

\* Wait starts the collector of the errors.
Wait ==
    /\ main = "wait"
    /\ collector' = "recv"
    /\ main' = "workers"
    /\ UNCHANGED <<mainVars, queueVars, workVars, eclosed, count>>

\* Mutant of WorkersDone: the errors channel is closed without waiting.
CloseEarly ==
    /\ main = "workers"
    /\ eclosed' = TRUE
    /\ main' = "result"
    /\ UNCHANGED <<mainVars, queueVars, workVars, collector, count>>

\* pool.wg.Wait() returns and the errors channel is closed.
WorkersDone ==
    /\ main = "workers"
    /\ \A w \in 1..jobs : wpc[w] = "done"
    /\ eclosed' = TRUE
    /\ main' = "result"
    /\ UNCHANGED <<mainVars, queueVars, workVars, collector, count>>

\* The collector has seen the close and hands its sum to main.
Result ==
    /\ main = "result"
    /\ collector = "recv" /\ eclosed
    /\ collector' = "done"
    /\ main' = IF count # 0 THEN "exit1"
               ELSE IF inp.shared THEN "shared" ELSE "exit0"
    /\ UNCHANGED <<mainVars, queueVars, workVars, eclosed, count>>

SharedHook ==
    /\ main = "shared"
    /\ main' \in {"exit0", "exit1"}
    /\ UNCHANGED <<mainVars, queueVars, workVars, errVars>>

-----------------------------------------------------------------------------
\* The feeder of EnqueueTasks.

Feed ==
    /\ Alive
    /\ feeder = "send"
    /\ Len(queue) < jobs
    /\ \E d \in pending :
          /\ queue' = Append(queue, d)
          /\ pending' = pending \ {d}
    /\ UNCHANGED <<mainVars, main, feeder, qclosed, workVars, errVars>>

\* Mutant of CloseQueue: the feeder ends without closing the queue.
LeaveQueueOpen ==
    /\ Alive
    /\ feeder = "send"
    /\ pending = {}
    /\ feeder' = "done"
    /\ UNCHANGED <<mainVars, main, pending, queue, qclosed, workVars, errVars>>

CloseQueue ==
    /\ Alive
    /\ feeder = "send"
    /\ pending = {}
    /\ qclosed' = TRUE
    /\ feeder' = "done"
    /\ UNCHANGED <<mainVars, main, pending, queue, workVars, errVars>>

-----------------------------------------------------------------------------
\* The workers.

Receive(w) ==
    /\ Alive
    /\ wpc[w] = "recv"
    /\ queue # <<>>
    /\ queue' = Tail(queue)
    /\ wdom' = [wdom EXCEPT ![w] = Head(queue)]
    /\ outcome' = [outcome EXCEPT ![Head(queue)] = "taken"]
    /\ wpc' = [wpc EXCEPT ![w] = "exec"]
    /\ UNCHANGED <<mainVars, main, pending, feeder, qclosed, mutex, errVars>>

\* Mutant of Leave: a worker that finds the queue empty leaves.
LeaveEarly(w) ==
    /\ Alive
    /\ wpc[w] = "recv"
    /\ queue = <<>>
    /\ wpc' = [wpc EXCEPT ![w] = "done"]
    /\ UNCHANGED <<mainVars, main, queueVars, wdom, mutex, outcome, errVars>>

\* The range over the queue ends; wg.Done().
Leave(w) ==
    /\ Alive
    /\ wpc[w] = "recv"
    /\ queue = <<>> /\ qclosed
    /\ wpc' = [wpc EXCEPT ![w] = "done"]
    /\ UNCHANGED <<mainVars, main, queueVars, wdom, mutex, outcome, errVars>>

\* Execute returns r for worker w.
Settle(w, r) ==
    /\ outcome' = [outcome EXCEPT ![wdom[w]] = r]
    /\ wpc' = [wpc EXCEPT ![w] = IF r = "ok" THEN "recv" ELSE "report"]
    /\ wdom' = [wdom EXCEPT ![w] = None]

\* Mutant of ExecuteFails: the request goes back into the queue.
ExecuteRetries(w) ==
    /\ Alive
    /\ wpc[w] = "exec"
    /\ Len(queue) < jobs
    /\ queue' = Append(queue, wdom[w])
    /\ outcome' = [outcome EXCEPT ![wdom[w]] = "pending"]
    /\ wpc' = [wpc EXCEPT ![w] = "recv"]
    /\ wdom' = [wdom EXCEPT ![w] = None]
    /\ UNCHANGED <<mainVars, main, pending, feeder, qclosed, mutex, errVars>>

\* Execute fails to fetch, write or install.
ExecuteFails(w) ==
    /\ Alive
    /\ wpc[w] = "exec"
    /\ Settle(w, "failed")
    /\ UNCHANGED <<mainVars, main, queueVars, mutex, errVars>>

\* Execute has installed everything and there is no hook.
ExecuteNoHook(w) ==
    /\ Alive
    /\ wpc[w] = "exec"
    /\ ~inp.hook
    /\ Settle(w, "ok")
    /\ UNCHANGED <<mainVars, main, queueVars, mutex, errVars>>

\* Execute has installed everything and prepares the hook.
ExecuteHook(w) ==
    /\ Alive
    /\ wpc[w] = "exec"
    /\ inp.hook
    /\ wpc' = [wpc EXCEPT ![w] = "lock"]
    /\ UNCHANGED <<mainVars, main, queueVars, wdom, mutex, outcome, errVars>>

\* Mutant of Lock: the lock is not waited for.
LockIgnored(w) ==
    /\ Alive
    /\ wpc[w] = "lock"
    /\ mutex' = w
    /\ wpc' = [wpc EXCEPT ![w] = "hook"]
    /\ UNCHANGED <<mainVars, main, queueVars, wdom, outcome, errVars>>

Lock(w) ==
    /\ Alive
    /\ wpc[w] = "lock"
    /\ mutex = None
    /\ mutex' = w
    /\ wpc' = [wpc EXCEPT ![w] = "hook"]
    /\ UNCHANGED <<mainVars, main, queueVars, wdom, outcome, errVars>>

\* The hook ends, the lock is released, its status is Execute's result.
HookReturns(w) ==
    /\ Alive
    /\ wpc[w] = "hook"
    /\ mutex' = None
    /\ \E r \in {"ok", "failed"} : Settle(w, r)
    /\ UNCHANGED <<mainVars, main, queueVars, errVars>>

\* Mutant of Report: the collector keeps the last value, not the sum.
ReportLast(w) ==
    /\ Alive
    /\ wpc[w] = "report"
    /\ collector = "recv" /\ ~eclosed
    /\ count' = 1
    /\ wpc' = [wpc EXCEPT ![w] = "recv"]
    /\ UNCHANGED <<mainVars, main, queueVars, wdom, mutex, outcome, eclosed, collector>>

\* pool.errors <- 1 meets the collector on the unbuffered channel.
Report(w) ==
    /\ Alive
    /\ wpc[w] = "report"
    /\ collector = "recv" /\ ~eclosed
    /\ count' = count + 1
    /\ wpc' = [wpc EXCEPT ![w] = "recv"]
    /\ UNCHANGED <<mainVars, main, queueVars, wdom, mutex, outcome, eclosed, collector>>

-----------------------------------------------------------------------------
Main == \/ Start \/ NewPool \/ EnqueueTasks \/ EnqueueFails
        \/ Wait \/ WorkersDone \/ Result \/ SharedHook
Feeder == Feed \/ CloseQueue
Work(w) == \/ Receive(w) \/ Leave(w) \/ ExecuteFails(w) \/ ExecuteNoHook(w)
           \/ ExecuteHook(w) \/ Lock(w) \/ HookReturns(w) \/ Report(w)

Next == Main \/ Feeder \/ \E w \in Worker : Work(w)

Spec == Init /\ [][Next]_vars

\* Every goroutine that can go on does so.  That an Execute or a hook ends at
\* all is the -timeout of the requests and the hook's own duty.
Fairness == WF_vars(Main) /\ WF_vars(Feeder) /\ \A w \in Worker : WF_vars(Work(w))

FairSpec == Spec /\ Fairness

-----------------------------------------------------------------------------
\* Properties.

\* At most one hook runs at any time: the workers' hooks exclude each other, and
\* the shared hook starts only when no worker is at work any more.
HooksExclusive ==
    /\ \A v, w \in Worker : wpc[v] = "hook" /\ wpc[w] = "hook" => v = w
    /\ main = "shared" => \A w \in Worker : wpc[w] \in {"off", "done"}

\* When Wait has returned without error (the shared hook runs or the client
\* exits with 0 after work) every domain asked for was executed, and none failed:
\* none is skipped as invalid, lost on the way to a worker, or its failure lost
\* between a worker and the collector.
SuccessMeansDone ==
    main \in {"shared", "exit0"} /\ collector = "done" =>
       \A d \in Wanted : d \in DOMAIN outcome /\ outcome[d] = "ok"

\* No worker is at or before its send when the errors channel is closed (the
\* send would panic).
NoSendOnClosed ==
    eclosed => \A w \in Worker : wpc[w] \in {"off", "done"}

\* The number of errors main prints is the number of domains that failed.
AllErrorsCounted ==
    main = "result" => count = Cardinality({d \in DOMAIN outcome : outcome[d] = "failed"})

\* The client ends, whatever fails: no goroutine that main waits for is stuck.
Terminates == <>(main \in Exits)

\* What each goroutine waits for, where it has to wait.
MainMoves ==
    /\ main = "workers" => \A w \in 1..jobs : wpc[w] = "done"
    /\ main = "result" => collector = "recv" /\ eclosed
FeederMoves == feeder = "send" /\ (pending = {} \/ Len(queue) < jobs)
Moves(w) ==
    /\ wpc[w] \notin {"off", "done"}
    /\ wpc[w] = "recv" => queue # <<>> \/ qclosed
    /\ wpc[w] = "lock" => mutex = None
    /\ wpc[w] = "report" => collector = "recv" /\ ~eclosed

\* Until the client has ended some goroutine can go on: the feeder's full queue,
\* the workers' empty one, the hook lock, the unbuffered channel of the errors and
\* main's wait for all of them never close a circle (worker.go:46-119).
NeverStuck == Alive => MainMoves \/ FeederMoves \/ \E w \in Worker : Moves(w)

\* The ways of main and of a worker with one request; a's place is before b's.
MainWay == <<"flags", "secret", "connect", "certbase", "cnfile", "tls", "fetch", "new",
             "enqueue", "wait", "workers", "result", "shared", "exit0", "exit1", "exit2">>
WorkerWay == <<"exec", "lock", "hook", "report", "recv", "done">>
Ahead(way, a, b) == \E i, j \in DOMAIN way : i < j /\ way[i] = a /\ way[j] = b

\* The domains no worker has received yet.
Untaken == {d \in DOMAIN outcome : outcome[d] = "pending"}

\* Main goes on; or a worker takes a domain; or the feeder or a single worker goes
\* on, while all others stand still.
Closer ==
    \/ Ahead(MainWay, main, main')
    \/ main' = main /\ Untaken' # Untaken /\ Untaken' \subseteq Untaken
    \/ /\ main' = main /\ Untaken' = Untaken
       /\ \/ /\ wpc' = wpc /\ pending' \subseteq pending
             /\ \/ feeder' = feeder /\ pending' # pending
                \/ feeder = "send" /\ feeder' = "done"
          \/ /\ UNCHANGED <<pending, feeder>>
             /\ \E w \in Worker :
                   /\ Ahead(WorkerWay, wpc[w], wpc'[w])
                   /\ \A v \in Worker \ {w} : wpc'[v] = wpc[v]

\* Every step brings the client closer to its end, and a domain a worker has taken
\* never goes back.  So there are finitely many steps, in whatever order they are
\* taken, and no request is executed twice.  About the loops of worker.go:52, 89
\* and 106, which have no retry.
Progress == [][Closer]_vars

\* What the client promises, in terms of the pool: a domain is open until Execute
\* has returned for it, and the sum is that of the collector.
Results == [d \in DOMAIN outcome |->
              IF outcome[d] \in {"pending", "taken"} THEN "open" ELSE outcome[d]]
Sum == IF collector = "done" THEN count ELSE 0
Status == IF Alive THEN "running" ELSE main

Promise == INSTANCE Batch WITH
    wanted <- Wanted, result <- Results, concluded <- collector = "done",
    failures <- Sum, status <- Status

\* The goroutines implement Batch: whatever the number of workers and the order in
\* which they come by, each domain asked for is settled once and for all, the
\* conclusion waits for the last one and counts every failure, and only a run
\* without one ends with 0 (main.go, worker.go:43-122).
RefinesBatch == Promise!Spec

\* "Wait until all jobs are done" (worker.go:99).
WaitMeansDone ==
    main \in {"shared", "exit0"} => \A d \in DOMAIN outcome : outcome[d] \notin {"pending", "taken"}

=============================================================================
