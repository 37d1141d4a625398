# cert-proxy in TLA+

cert-proxy distributes X.509 certificates.  `cert-proxy-server` serves the files
an ACME client keeps below `-certbase`; `cert-proxy-client`, started by a timer,
fetches them for its domains, puts them below its own `-certbase` and calls
hooks.  This directory holds TLA+ modules for the parts of both programs where
processes, goroutines, crashes and renewals interleave, TLC runs that check them
on small instances, and TLAPS proofs that hold for all instances.

## Inventory

| Part | State | Operations | Hard behaviour |
|---|---|---|---|
| `cert.Req.Execute` (client) | the bodies fetched, the infix, the directory of a domain (`NAME-INFIX.EXT`, the link `NAME.EXT`, `NAME.EXT.tmp`) | stat, GET, write, replace, hook | overlapping clients, kills and errors between any two system calls, renewals between stat, GET and write |
| `worker.Pool` and `main` (client) | request queue, errors channel, wait group, hook mutex | NewPool, EnqueueTasks, Wait, the shared hook | four kinds of goroutines, an unbuffered channel, closing channels, `log.Fatal` |
| handlers (server) | none of their own; authorization files and certificate files are read afresh per request | routing, authn, authz, serve, list | lists edited and files replaced in the middle of a request |
| `createPKCS12` (server) | none | stat and three reads, then encoding | the files of a domain are replaced one by one |
| client start (`parseFlags`, `main`) | the domains, the base address | flags, manual, secret, address, `-cnfile`, credentials, the server's list | every check before the first request; names from three sources |
| server start and shutdown | listener, serve goroutine, `served`, signal context, connections | parseFlags, Serve, select, Shutdown | a signal at any stage, a Serve that starts late or fails, requests running at the deadline |
| lists, names, manual pages, credentials | none | pure functions | name rules against `filepath.Join`, the argument table of `man` |
| redaction, secrets in logs, umask, generator of the manual pages | none | output, build | none concurrent |

How they interact: a worker calls `Execute`, which talks to the server's handlers
over HTTP and to the file system; workers share the mutex and the errors channel;
`main` meets them in `Wait`.  Server and client share nothing but the protocol:
`Last-Modified`, `If-Modified-Since` and the status codes.  What makes the parts
correct:

* Execute: a reader of the directory always finds complete published artifacts;
  old files are left alone; a successful run leaves the names up to date.
* Pool: every domain is executed once and counted; hooks exclude each other; the
  client ends.
* Server: private material only for authorized clients; the time stamp of a
  response is not ahead of the certificate in it.
* Client start: a domain's directory lies directly below `-certbase`; requests go
  to an https address with the endpoint in its path; no domain that was asked for
  is dropped silently.
* Server life: running requests are waited for, but not forever; the exit status
  is 0 only if somebody asked for the end.

`PROJECT.json` lists all components, also those left out, the hazards with the
properties that cover them, and the source lines of each definition.

## Modules

* **CertStore**: the abstract specification of a client directory: each stable
  name holds nothing or one complete published version; a step replaces one
  name.  With `Ordered` a name never goes back to an older version.
* **Batch**: the abstract specification of the client as its caller sees it: it takes
  on the domains it is asked for, settles each once, draws the sum when all are
  settled, and ends with 0 only if the sum is 0.
* **Execute**: `cert.Req.Execute` for one domain.  A process (element of `Proc`)
  is one call of Execute with its client.  `pc`, `idx`, `ims`, `data`, `infix`,
  `todo` are the local variables; `file`, `link`, `plain`, `tmp` the directory.
  One action per system call that reads or changes the directory and per HTTP
  answer; `OpenFails`, `WriteFails`, `InstallFails`, `GetFail` are the error
  paths, `Crash` a kill at any point (the client's context is never cancelled,
  so SIGINT is a kill); a loss of power is something else, see below.  Contents
  are abstracted to the version that was published; times are seconds, as in the
  infix and in HTTP dates.  A version has a `date`, which the server compares with
  `If-Modified-Since`: that of its own file or, for an item in `Made` (a bundle the
  server makes), that of the certificate, which stays when only the key or the
  chain is replaced.  The server's clock is `Lead` seconds behind the client's.
  `stamp` and `seen` are history variables.  `SameSecond` says whether two runs may
  compute the same infix.  `GetEmpty` is a 200 answer without a body, which the code
  treats like a 304.
* **Housekeeping**: Execute with one more step, `Purge`: the `find ... -delete` that
  the repository's README recommends for left-over files.
* **Names**, **Manual**, **Shared**: the packages `internal/list`, `man` and
  `internal/shared` as operators.  A text is a sequence of symbols, a symbol being
  a character with a meaning of its own (`.`, `/`, `#`, `*`, white space) or a run of
  others.  `strings.Split` and `filepath.Join` go through a name by recursive
  functions.  A registry of manual pages is the sequence of its pages in the order
  they were registered, which is the order within each section's list in the code.
  A file with credentials is one of four kinds.
* **ClientStart**: `parseFlags` and `main` of the client up to the list of domains.
  `inp` is the command line and what the client finds (files, address, the server's
  list); `main` is where the program is; `cns` and `base` are `CNs` and
  `opt.Connect`; `shown` is the manual page looked up.  One action per check, in the
  order of the code.  An address is the record of what `url.Parse` finds in it; its
  host may be a port alone, which the code accepts.  The client ends with status 0,
  1 (`log.Fatal`), or 2 (an error in the flags, a panic on a bad pool of CAs).
* **Pool**: extends ClientStart with the rest of `main`: the cap of `-jobs`, the pool,
  the shared hook and the exit; the feeder, the workers and the collector of
  `Wait`.  A call of Execute is one step up to the hook.  `Promise` is Batch seen
  through this state: a domain is open until Execute has returned for it, the sum is
  the collector's.
* **Lifecycle**: the server from its flags to its exit.  `main`, `serve` and `conn` are
  the main goroutine, the goroutine in `srv.Serve` and the connections; `ctx` the
  signal context, `served` the channel.  `http.Server` is modelled by what `main`
  relies on: Serve tracks its listener or finds the server shut down already;
  Shutdown closes the listener, waits for Serve to let go of it, then polls,
  closing idle connections and new ones that stay silent for 5 seconds, until
  none is left or `shutdownCtx` ends.  A signal that is not caught kills.
  `timedOut` is a history variable.
* **Server**: `newMux`, `authn`, `authz`, `serve`, `createPKCS12`, one step per
  file access, with an administrator (`EditList`), an ACME client (`Renew`) and an
  operator who adds and removes the files in `Optional` (`AddFile`, `RemoveFile`).  A
  new file has the date of its writing or, if it was copied with it, an older one
  (`NewDates`); the certificate is taken to be written anew.
  `granted` and `calm` are history variables.  Paths are sequences of segments;
  all shapes up to one segment too many are tried, with all kinds of clients.
* **MCExecute**, **MCPool**: the model values, and the inputs of the client, for TLC.
  Housekeeping, Server and Lifecycle are run as they are.
* **Execute_proofs**, **Freshness_proofs**, **Refinement_proofs**: the theorems about
  Execute: integrity of the directory, freshness after a run, refinement of CertStore.
* **Housekeeping_proofs**, **Pool_proofs** (with **ClientStart_proofs**, the lemmas about
  the start of the client), **Server_proofs**, **Lifecycle_proofs**: the theorems about the
  module of that name.

Operators commented as "Mutant of X" are faulty variants of X used to confirm
that the properties can fail; no specification uses them.

## Runs

| Run | Shows |
|---|---|
| `execute_items` | One client at a time, requests of two items, symlinks, renewals, errors, empty answers, crashes and clean-ups.  `RestoresPurged`: a run finds out that a name dangles and fetches it again.  `ForcedRunMatches`: after a renewal in the middle of a request, a forced run leaves items of one generation. |
| `execute_order` | One client at a time, one item, three runs, three versions.  `RefinesOrderedStore`: the directory implements CertStore with `Ordered`, also when a killed run left `NAME.tmp` behind and another one, without symlinks, passed it by.  `SuccessIsFresh`: at the hook each name is at least as new as the server's answer, with three exceptions: the server replaced it between the fetch and the write; it did so within the time by which the client's clock is ahead; or it is a bundle whose certificate has stayed the same. The item is such a bundle and the client's clock is ahead, so all three occur. |
| `execute_shared` | Two clients, symlinks, with renewals.  `ExposedComplete`; `KeepsOldFiles`: a file that is linked to, or that belongs to no running client, is never touched; `RefinesStore`: the directory implements CertStore; with overlapping clients versions may go back, and the code does not promise otherwise. |
| `execute_collision` | Violation: with two runs in one second, the cleanup after the failed `O_EXCL` open removes the file in use. |
| `execute_stale` | Violation: the client's own write time as `If-Modified-Since` hides a renewal between fetch and write. |
| `execute_purge` | Violation: the recommended clean-up also removes the files in use. |
| `pool_runs` | The client as a whole, Execute apart.  `NamesStayBelow` over every list line of up to four symbols, `ManualAsDescribed` over every command line of up to three words, `RequestsAreSound` over every form of address; then, with up to three domains, `HooksExclusive`, `SuccessMeansDone`, `NoSendOnClosed`, `AllErrorsCounted`; `NeverStuck`: until the end some goroutine can go on; `Progress`: every step brings the end closer and gives no domain back; `RefinesBatch`; and `Terminates` under fairness. |
| `pool_no_jobs` | Violation: `-jobs 0` succeeds without fetching anything. |
| `server_auth` | `PrivateOnlyIfListed` over all requests, with lists edited at any time. |
| `server_content` | Files are replaced, the chain and the operator's bundle also added and removed, at any time.  `StampNotAheadOfContent`; `CalmMeansCurrent`: an answer during which the files stayed as they were is what the store holds, for a generated bundle in its three parts, and so is what a 304 confirms.  The store itself may be of two generations, and then a bundle is, too. |
| `lifecycle` | `GracefulExit`, `Exit0OnlyIfAsked`, and `EndsWhenDone` under fairness, for all ways to start, two signals and three connections. |
| `server_stale_bundle` | Violation: the time stamp of a generated bundle is that of `cert.pem` alone. |

The findings in `PROJECT.json` quote the sentences the violations contradict.
Two more disagreements have no run: an authorization file that exists but cannot
be read is answered 500 (`auth.go:50`), where `man/cert-proxy.7.md:82` says that all
failures are 401; and `-cnfile -` is documented as standard input (`init.go:107`), but
`list.go:28` opens a file of that name.

Bounds.  `MaxTime` bounds the clock and with it the number of infixes, so the
number of runs that write: two suffice for a run after a crashed one
(`execute_items`); three are needed for a left-over `NAME.tmp` to outlive a
successful run (`execute_order`) and for two overlapping clients after an earlier
one (`execute_shared`); three versions let two renewals meet a run.  `Age` 1 lets
the clean-up take a file as soon as the clock has moved on.  `MaxVer` 2 gives an
old and a new version.  In `execute_order` the item is in `Made` and `Lead` is 1, so
that a version can hide for each of the three reasons; elsewhere `Made` is empty and
`Lead` 0, as nothing else looks at the dates.  In `server_content` `Optional` is the
chain and `bundle.p12`, a part whose absence ends the making of a bundle and the file
that takes its place; in the other runs it is empty.  Two items show what happens between items; the four of PEM add nothing new, as items are treated alike.  Three domains and
two workers, with a queue of two, let the feeder block, workers wait for the lock
and errors queue up.  The inputs of the client are families that vary one part
each (module MCPool); those about names and arguments end before the pool starts,
as later steps do not look at them.  Four symbols are enough for every pair of
neighbours in the rules for names, three words for the flags, the terminator and
two arguments of `man`.  Two signals show the second one killing the server; three
connections can be in different states at the poll.  One handler suffices for
the server, as handlers share no state but the file system, which the environment changes between any two of its steps.  Two
processes are interchangeable, hence the symmetry set; it is used for safety
only.

Deadlock is checked everywhere except for the pool and the life of the server,
which end; there a stuck goroutine would violate `Terminates` or `EndsWhenDone`.

Fairness.  Pool: weak fairness of `main`, of the feeder and of each worker.
The Go scheduler runs every goroutine that can proceed.  That Execute ends is due
to `-timeout` (default 60 s for each request); that a hook ends is up to the hook.
With `-timeout 0` or a hook that hangs the client does not end, and nothing here
says it does.  Lifecycle: weak fairness of `main`, of Serve's first step, of its
bookkeeping after Accept, and of its return once the listener is closed.  The
deadline of Shutdown is strongly fair: it is looked at between any two polls, and
time passes.  Nothing is assumed of clients, requests or signals, so `EndsWhenDone`
holds with requests that never end.

## Proofs

The theorems hold for every value of the constants that satisfies the named
`ASSUME`s: any number of clients, items, domains, workers, handlers, connections
and any bounds.  TLC evaluates the `ASSUME`s on the instances of the runs.  They
are the typing of the constants (`None` is no number, process, request or file; the
bounds are numbers; the inputs of the client are inputs with at most `MaxJobs`
jobs; `Made` consists of items, `Optional` of files, and `Lead` is any integer).  A few
theorems have a hypothesis of their own:

* `SameSecond = FALSE` (Execute, Housekeeping): no two runs for a domain compute the
  same infix.  It is used in one place, where a new infix is later than all names
  there are (`TakeInfixShape` in Execute_proofs, and the same step in
  Freshness_proofs).  `execute_collision` shows that it cannot be dropped.
* One process (`\A p, q \in Proc : p = q`): runs do not overlap, though there may be
  any number of them, each killed at any point.  It is used for the properties that
  overlapping runs break: a name goes back when the run that fetched first installs
  last.
* `-jobs` above 0 for `SuccessMeansDone` and `RefinesBatch`; `pool_no_jobs` shows what
  happens otherwise.

Every invariant below was also checked with TLC, as an invariant of the instance of
its run (that of Pool on the inputs that start workers, `-jobs 0` included, and on
the families about the set-up and the addresses).

| Module | Theorem | Property | Hypotheses |
|---|---|---|---|
| Execute_proofs | `TypeCorrect` | `TypeOK` | |
| | `ExposedCompleteHolds` | `ExposedComplete` | `SameSecond = FALSE` |
| | `KeepsOldFilesHolds` | `KeepsOldFiles` | `SameSecond = FALSE` |
| Refinement_proofs | `RefinesStoreHolds` | `RefinesStore` | `SameSecond = FALSE` |
| | `RefinesOrderedStoreHolds` | `RefinesOrderedStore` | `SameSecond = FALSE`, one process |
| Freshness_proofs | `SuccessIsFreshHolds` | `SuccessIsFresh` | `SameSecond = FALSE`, one process |
| Housekeeping_proofs | `PurgeTypeCorrect` | `TypeOK` of Execute under `PurgeSpec` | |
| | `RestoresPurgedHolds` | `RestoresPurged` | `SameSecond = FALSE`, one process |
| | `ForcedRunMatchesHolds` | `ForcedRunMatches` | `SameSecond = FALSE`, one process |
| Pool_proofs | `TypeCorrect` | `TypeOK` | |
| | `HooksExclusiveHolds` | `HooksExclusive` | |
| | `NoSendOnClosedHolds` | `NoSendOnClosed` | |
| | `AllErrorsCountedHolds` | `AllErrorsCounted` | |
| | `RequestsAreSoundHolds` | `RequestsAreSound` | |
| | `NamesStayBelowHolds` | `NamesStayBelow` | |
| | `ManualAsDescribedHolds` | `ManualAsDescribed` | |
| | `SuccessMeansDoneHolds` | `SuccessMeansDone` | `-jobs` above 0 |
| | `NeverStuckHolds` | `NeverStuck` | |
| | `ProgressHolds` | `Progress` | |
| | `RefinesBatchHolds` | `RefinesBatch` | `-jobs` above 0 |
| Server_proofs | `TypeCorrect` | `TypeOK` | |
| | `PrivateOnlyIfListedHolds` | `PrivateOnlyIfListed` | |
| | `StampNotAheadOfContentHolds` | `StampNotAheadOfContent` | |
| | `CalmMeansCurrentHolds` | `CalmMeansCurrent` | |
| Lifecycle_proofs | `TypeCorrect` | `TypeOK` | |
| | `GracefulExitHolds` | `GracefulExit` | |
| | `Exit0OnlyIfAskedHolds` | `Exit0OnlyIfAsked` | |

**Execute: the directory.**  `ExposedComplete` is not inductive: it does not say that a
file about to be linked is whole, nor that a cleanup hits only its owner's file.
`IInv` adds, as named parts: infixes are unique and no later than `stamp`
(`InfixUnique`, `InfixTaken`, `NamesOld`); only published versions are fetched and
stored (`DataPublished`, `FilesPublished`); link targets, including those of
`NAME.tmp` of any process, are whole and closed (`TargetsWhole`, `WholeClosed`); no
link leads to a file its owner may still remove or rename (`NotYetLinked`); what the
write loop has left behind and what is still to be installed is whole
(`WrittenWhole`).  `Frame` states what any step of a process leaves alone, so that
only the acting process has to be looked at; then there is a lemma per loop and a
case per action.

**Execute: the versions.**  `SuccessIsFresh` relates the answers a run got to what is
exposed at its hook, many steps later.  `History` is what holds at all times,
whoever wrote the files: versions are published in order, and a body was fetched
before its successor was published (`PubSorted`, `FilesDated`, `DataDated`); the date
of a later version is that of an earlier one, for a bundle, or no earlier than the
publication that followed the latter, on the server's clock (`DatesKept`).
`RunInv(p)` follows one run: the header is the modification time of what is exposed
(`HeaderIsMtime`), a 304 therefore says that this is fresh or hidden for one of the
three reasons of `SuccessIsFresh` (`Answered`), the infixed files hold what was fetched (`OwnFiles`),
none of them is missing when it is its turn (`ToInstall`), and what has been
installed is exposed (`NowExposed`).  It does not mention what other runs left
behind, hence it survives a clean-up between two runs, and `Housekeeping_proofs`
reuses it: `PurgeInv` says that a run during which nothing was removed satisfies
`RunInv`.  `ForcedRunMatches` needs one part more, `ForcedData`: a forced run sends
no header.

**Execute: the refinement.**  A step changes what readers see of at most one item: the
rename of `NAME.tmp` or of a plain file.  Under `IInv` the item then holds a complete
published version, which is a step of CertStore; all other steps stutter.  With one
process `Answered` and `ToInstall` add that `NAME.tmp` leads to the file of the run
itself and that what is exposed is no newer than what it fetched: the step of the
ordered store.

**The client.**  `SuccessMeansDone` is about the whole program, so the invariant is in
two parts.  `StartInv` (ClientStart_proofs) says for each location of the start
which domains have been gathered and what has been checked of the address.  It
rests on lemmas about the operators on sequences: that trimming twice is trimming
once, so that the names the server reads from its list, and the client from the
answer, are the same; and that no slash remains at the end of the address.  `IInv`
(Pool_proofs) follows a domain on its way: it is in one place, once, among
`pending`, `queue` and the workers (`Waiting`, `Assigned`, `NoneLost`); a worker
leaves only when the feeder has sent everything and the queue is empty
(`ClosedMeansSent`); each failure has been counted or is about to be sent
(`Counted`, an equation between `count`, the reporting workers and the failed
domains); the errors channel is closed only when all workers are gone, and no other
worker was ever started (`Phases`).  When Wait returns without error nothing is
pending, taken or failed, so everything is done; there is at least one worker since
`-jobs` and the number of domains are above 0.

**The client: names and pages.**  `NamesStayBelow` compares two walks through a name,
`ValidateDomain`'s at the dots and `filepath.Join`'s at the slashes.  Both are
functions on `0..Len(name)` defined from the value before.  That such a function
exists is shown by giving it; that it has that value at each prefix, by looking at the
shortest prefix where it had not (`SmallestExists`).  `SplitWhole`: a name
without a slash is a single part; `SplitDots`: a name of two dots, or of one, has an
empty label, which the check refuses; `JoinOne`: any other single part is appended.
`DomainStaysBelow` puts them together and `StartKept` says of each location of the
start which names have passed the check.  `ManualAsDescribed` needs no induction: what
`SelectInSeq` returns is the least index that fits, there are four pages and nine
sections, and the cases are the numbers of arguments (`PageIs`, `ByNameIs`,
`ResolveAsDescribed`).

**The client: it ends.**  `NeverStuck` names for each goroutine what it waits for.
If main waits for the workers, the proof follows the circle: a worker that reports
meets the collector, which is there until main has seen all workers leave; one that
wants the lock waits for a worker in its hook, which goes on (`LockHeld`); one that
receives has something in the queue, or the queue is closed, or the feeder is not
done and finds room, as there is at least one place in the queue when there is a
worker (`Running`).  `Progress` orders the states, main's place first, then the
domains not received, the feeder, the workers' places.  Each of these can go down
only finitely often, so with `NeverStuck` every maximal behaviour is finite and ends
in `Exits`, in whatever order the goroutines run; this last step, and that the
conditions named in `NeverStuck` are those under which the actions are enabled, are
arguments on paper, and `Terminates` is what TLC checks of them.

**The client: the refinement.**  A step changes the outcome of at most one domain, from
open to settled (`WorkKeepsPromise`); `EnqueueTasks` takes on exactly the wanted
domains; main's step to its result is `Conclude`: by `AllSettled` nothing is open
then, and by `Counted` the sum is right.  All others stutter or end
(`MainKeepsPromise`).

**The server.**  `PrivateOnlyIfListed` says nothing about a handler between its
authorization and its answer.  `IInv` adds: the chain that runs is the one for the
role in the path, at every location (`Routed`); a client that is on the list now
has been on it during the request (`ListedIsGranted`); behind authz a private role
is granted (`Authorized`).  For the time stamp, no file is dated in the future
(`StoreInPast`), and a new certificate is dated now, so that a renewal after the stat
can only make the certificate newer than the stamp (`StampBehind`).  `CalmMeansCurrent` follows a request from its first
file access to its answer: as long as the store has stayed the same, each part read so
far, the time taken and the absence of an operator's bundle are still those of the
store (`Fresh`); any change of the store ends the calm of every request that is being
handled (`PutStep`).  A handler's step leaves the part of the
others alone, and the environment's steps are looked at once for all.

**The life of the server.**  `IInv` adds when the signal came (`SignalCameFirst`), that
Shutdown is called once and only before the end (`ShuttingMeansStopping`), that Serve
starts after the signals are caught (`ServeNotBegun`), that at most one connection is
between Accept and being tracked, while Serve holds it (`AcceptedIsHeld`), and that
none is open once Shutdown has returned nil (`Drained`).

Only model-checked, and why: `Terminates` and `EndsWhenDone`, as liveness under
fairness, and with it ENABLED, is out of the prover's reach; and the violations, which
need one behaviour each.  All other invariants and action properties of the runs,
and the three refinements, are proved.

## Left out

* That the items of a request, or the parts of a bundle, may be of different
  generations after a renewal in the middle of the request: the models have it
  (versions are kept per item and per part), but no property excludes it, as the
  repository's TODO ("Atomic fetch") lists it as open work.  Nor does it take such a
  renewal: a bundle that is requested between the replacement of `cert.pem` and that
  of `privkey.pem` is mixed though nothing changes while it is made.
  `CalmMeansCurrent` says only that the handlers add no mixture to that of the store;
  `ForcedRunMatches` says how items are put right.
* The loss of power.  `cert.go:383` closes a file and `cert.go:398` renames it without
  an fsync, so a name may survive whose file is empty.  All that is said about
  crashes here is about killed processes on a disk that keeps what was written.
* Clocks that are set.  Both clocks go forward, and their difference is constant.
* Files on the server that are replaced by files with older dates: in Execute all of
  them, in Server only the certificate is taken to be written anew.  A copy that a
  client wrote in between hides such a file for as long as it stays, a fourth
  exception to `SuccessIsFresh`; and with certificates that have older dates
  `StampNotAheadOfContent` would not hold either.
* What the artifacts contain, the arguments and environment of the hooks, file
  modes, logging, the `x-version` header.
* Failing `os.Remove` of `NAME.tmp`: the following `Symlink` fails, and the outcome
  is that of a crash before the removal.
* Negative values of `-jobs`: `make(chan)` panics at once.
* Methods other than GET and path cleaning by the router.
* How a manual page is displayed, and what the options are called; `-h`, which
  package flag answers by itself.
* The redaction of passwords in log lines: a pure function on query strings whose
  effect no other part can see.
* The generator of the manual pages (`man/gen.go`), the CA script, packaging: they
  run before the programs, not with them.
* The race inside `http.Server` between closing an idle connection and a request
  that arrives on it at that moment.

## Plan

In this order:

1. Execute, CertStore, Pool, Server and the proofs about Execute (done).
2. Lifecycle, ClientStart with Names, Manual and Shared, Housekeeping (done).
3. Proofs of the safety properties of Execute, its refinement of CertStore,
   Housekeeping, Pool, Server and Lifecycle (done).
4. Batch and its implementation by the pool, `NeverStuck` and `Progress`, the names
   and the manual pages for texts of any length, `CalmMeansCurrent` (done).
5. The dates of bundles and the two clocks in Execute; files that are added, removed
   or copied with older dates in Server (done).
6. Open: client and server in one model, with the handlers' steps instead of `Dates`;
   when does a client that got a mixed bundle recover?
