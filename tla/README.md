# Verification of AdGuard DNS CLI in TLA+

AdGuard DNS CLI is a DNS client that runs as a system service: it accepts plain
DNS on local addresses, decides by the client's address and the question which
upstream servers to use, and forwards. Its own logic is small and concurrent: a
storage of clients that is filled while requests are served, an identifier
source with a cache, a configuration migrator that must survive interruption,
and a service that is installed, started and stopped by the operating system,
with loggers that are replaced on the way. This project
models that logic, model-checks it on small instances and proves its safety for
all instances. All paths below are relative to `src/internal/`.

## 1. Inventory

| Component | State | Operations | Interacts with |
|---|---|---|---|
| Deduplicating queue, `client/queue.go` | map key -> operation in progress (result, channel) | `push`, `done` | called by the storage from every request's goroutine |
| Client storage, `client/defaultstorage.go`, `client/autodevice.go` | clients by configuration and address, identities by HumanID, two queues, the collector's timer | `Get`, `runGC`, finalizers, `Shutdown` | `dnssvc.ServeDNS` calls `Get`; the storage calls the identifier source and the upstream constructor; the Go runtime calls finalizers |
| Client matching, `client/defaultstorage.go`, `client/autodevice.go` | two sorted lists | `compare`, `compareDomains`, `matches`, first match | the lists are built from what `cmd/upstream.go` classifies |
| Identifier sources, `client/humanidsource.go`, `client/rdnsidsource.go` | cache by address, index of IDs | `Identify`, the cache's janitor | asked by the storage, ask the private upstreams |
| Upstream groups, `cmd/upstream.go` | none after start | `Validate`, `newUpstreams` | give the storage its clients |
| Migrator, `configmigrate/` | the configuration file, backup directories | `Run` at each start | the file system, other processes of the program, the service manager |
| Program, `cmd/program.go`, `cmd/servicehandler.go`, `cmd/dns.go`, `debugsvc/`, `dnssvc/` | registered services, `done` and `errCh` channels | `Start`, `Stop`, `handle` | service manager, all services |
| Logger setup, `cmd/log.go`, `agdcslog/` | open log files, system loggers | `newEnvLogger`, `newConfigLogger`, `closeLogs` | everything logs |
| Default configuration, `cmd/default.go` | the configuration file | `writeDefaultConfig` at installation | the migrator and the parser read the file |
| Service control, `cmd/osservice.go`, `cmd/service_linux.go`, `cmd/service_darwin.go` | none of its own | the actions of `-s` | the service manager, which runs the service's process |

What is hard about it:

* requests of one address race in two queues, one nested in the other, while
  contexts are cancelled; the queue tells an owner from a waiter by the zero
  value it returns;
* times are read, kept over a wait and compared later with `<`, `>` and `>=`;
* clients are removed by two goroutines and closed by a third, the runtime,
  while they are in use;
* the cache evicts from a goroutine of its own and calls back;
* the process may die between any two writes, and the service manager starts it
  again; the same holds of an installation, which creates the configuration file
  before it has the contents;
* commands run beside the service, whose manager is between two states when it is
  asked for its status;
* a logger is closed, used on or left behind depending on settings from three
  places, and on macOS it is four processes behind pipes and mutexes;
* services depend on each other, and the order in which they are shut down is
  made by the order in which four functions register them.

`PROJECT.json` lists these hazards one by one, at their lines, with the
properties that would catch each going wrong.

## 2. Modules

| Module | Models | Runs | Proofs |
|---|---|---|---|
| `Queue` | `client/queue.go` | `queue` | `QueueProofs` |
| `ClientStorage` (uses `Queue` twice) | `Get`, its search and identification, the collector, finalizers, `Shutdown` | `storage_*` | `ClientStorageProofs` |
| `ClientLeases` | abstract: what the storage promises to those who use it | implemented in `storage_get_live` | `ClientLeasesProofs` |
| `IDContract` | abstract: what the storage expects of an identifier source | used by `storage_*`, implemented in `sources` | `HumanIDSourcesProofs` |
| `RDNSIDSource` | `client/rdnsidsource.go` and the go-cache it uses | see the next | `HumanIDSourcesProofs` |
| `HumanIDSources` (extends `RDNSIDSource`, implements `IDContract`) | the chain of sources of `cmd/clientstorage.go` | `sources`, `sources_duplicate` | `HumanIDSourcesProofs` |
| `ClientMatch` | validation and classification of match criteria, comparison functions, first match | `client_match`, `client_match_overlap` | `ClientMatchProofs` |
| `Migrator` | `configmigrate/` | `migrator` | `MigratorProofs` |
| `Lifecycle` | `Start`, `Stop`, `handle`, `Main`'s end | see the next | `ControlProofs` |
| `Control` (extends `Lifecycle`) | the commands of `-s`, the default configuration, the service's process under its manager | `control` | `ControlProofs` |
| `SyslogDarwin` | `agdcslog/syslog_darwin.go` | see the next | `LoggerSetupProofs` |
| `LoggerSetup` (extends `SyslogDarwin`) | `cmd/log.go`, `cmd/env.go`, `closeLogs` | `logging` | `LoggerSetupProofs` |

`MC*` modules give the constants their values. Definitions whose comment begins
with "Mutant of" are wrong variants of the definition that follows: putting one
in the place of the original must make the run find a violation, and each
property has at least one.

### Queue

`entry` is the map, `st` and `key` say where a goroutine is in `push` or `done`,
`got` is what a waiter reads once the channel is closed. `push` is one step
(`LoadOrStore`) and, for a waiter, a second one (`Recv` or `Cancel`, between
which `select` chooses at will). `done` is three: set the result, close the
channel, delete the key. A waiter that is handed the zero result becomes an owner
(`Recv`), exactly as its caller would believe; that this never happens is
`SingleFlight`, and rests on the assumption that `done` is called with a value or
an error, which both callers do.

### ClientStorage

Each request is a goroutine with the locals of `Get` and its callees (`addr`,
`sac`, `now`, `hid`, `cli`); `searchQueue` and `identifyQueue` are instances of
`Queue` whose actions are conjoined with the caller's. The step of `done` that
sets the result is part of the caller's step before it: the result is not visible
before the channel is closed. A critical section of `sac.mu` or `d.mu` is one
step; whatever lies between two of them is a step of its own (the clock is read
in `ReadClock`, before the waits it is used after). `heap` holds the clients that
exist, with the flags that say whether a finalizer is set and whether `Shutdown`
has closed the upstreams; `Finalize` is the Go runtime, which may take its time
but only takes what is unreachable (`Reachable`).

The search key has the configuration's domain and the address but not the prefix,
as in the code; `Candidates` and `FirstMatch` are `findAutodevice`.
What the source may answer is `Answers`: what `IDContract` allows.

### ClientLeases

What is left of the storage without its goroutines, queues, locks and maps. A
client is a lease on its HumanID: it is made for one place (an address and a
configuration) that has none, with an ID that is free; found only if it was valid
when the search began; shared only among requests of its place; retired only once
it has expired; and reclaimed once it is retired and nobody holds it. Of a request
it keeps the place, the time it looks with and the client it holds. `ClientStorage`
implements it (`LeasesKept`) with `Held` for what a request holds: its `cli`, or a
client that a queue has handed to it and that it has not taken yet, because from
that moment on the client is reachable. `heap` is `lease`; the queues, the
collector, the identities and the maps have no counterpart, so their steps are
stutters or, where a client comes, goes or changes hands, steps of the abstract
storage. One step of `done` that wakes several waiters is one `Share`.

### IDContract and HumanIDSources

The interface `HumanIDSource` asks for an ID and a time. The storage needs one
thing more, because it remembers the last answer for an ID only: an answer must
not shorten the validity of an ID that the same address has. `IDContract` says
so, and no more: an answer may be late, that is past its time when it arrives.
`ClientStorage` takes its answers from it, with `identified` in the place of what
was given, and `HumanIDSources`, the chain that the program really uses, is shown
to implement it (`ContractKept`): the assumption of one model is the theorem of
the other. The chain assumes in turn that no PTR record yields the ID that
`DefaultHumanIDSource` makes from an address; with such a record the contract is
broken. `given` is a history variable: the answers that have not expired.

### RDNSIDSource

One call of `Identify` per address at a time (this is `IdentifyExclusive` of
`ClientStorage`, where it is checked and proved), so a call is named by its address. The
records of the response are chosen as the loop reads them. `DeleteExpired` and
`OnEvicted` are separate steps because go-cache calls back after it has released
its lock.

### ClientMatch

The configuration is written by `WriteMatch`, one match criterion at a time;
`Validate` is `upstreamGroupsConfig.Validate`, `NewStorage` is `newUpstreams` and
`NewDefaultStorage`, which sort what they range over in any order. Domains are
sequences of labels, and `CompareDomains` says after how many of them, from the
right, the loop of the code returns (`Returns`) and what.

### Migrator

A configuration is what the migrations look at: the version, the keys of
`dns.server` and the state of `autodevice` in each group. Each process has the
locals of `Run`; a write takes two steps, between which the file is unchanged
(`atomic`, where `maybe.WriteFile` renames) or torn (Windows). `Interrupt` is a
crash or a failed call at any step, `Restart` the service manager.

### Lifecycle and Control

`state` and `services` say which services run and which are registered; the main
goroutine's `pc` goes through `Start` and `Stop`, `handler` is the goroutine of
`handle`, `server` that of the debug server. The debug service's `Start` has a
data race on its named result: whichever value is read, a server that fails to
start panics, so both outcomes are `ServerPanics`.

`Control` puts that process under a service manager and commands beside it. A
command (`ctl`) is one process of `-s`: installation goes through
`writeDefaultConfig` step by step (`CreateFile`, `NewDefaultConfig`, `Encode`),
can fail at each and be killed in between; then it, like the other commands, asks
the manager. The manager is external and modelled from how the code uses it:
`installed`, `job` (what it is doing about the process) and `stage` (whether
there is a process, and how far its `handleConfig` has come). That function is in
steps, because it reads the file twice and may write it in between: `NoMigration` or
`Upgrade` (the migrator's read), `WriteMigrated` (its write, a rename, since both
managers are of Unix) and `ReadConfig` (`parseConfig`'s read). Between them the user
and the installations go on; what the migrations do to the contents is `Migrator`.
An installation whose file the migrator has replaced meanwhile writes to a file
without a name (`Written`). `edited` is a history variable: whether the user has
changed the file since the migrator read it. `launchctl` may fail at any time, for
any reason; a `systemctl` that fails is an error of the command. A signal before
`program.Start` has returned kills the process, one after that is `Stop`. The
user may write or remove the configuration file, but not during an installation.
`blame` is a history variable: whether an installation that had created the file
has failed, or the user has removed it, the two cases in which a missing or
incomplete file is nobody's surprise.

### SyslogDarwin and LoggerSetup

A system logger of macOS is a process per severity (`proc`), each with a mutex
(`mu`). Opening and closing go through them one by one (`sys`), a record takes
the mutex and then writes (`writer`). A process that has died is noticed by the
copying goroutine of `os/exec` with the next message, after which nobody reads
the pipe: `dead` becomes `deaf`, and a write to that never returns. `LoggerSetup`
is `Main` from `parseLogEnvs` to the end of `closeLogs`: the environment's
logger, the four things `newConfigLogger` may do with it, and records written by
the main goroutine and by the services beside that.

## 3. What the runs show

* `queue`: a key has one owner (`SingleFlight`), the map holds exactly the
  operations in flight so that `done` never panics (`EntryInFlight`), no wake-up
  is lost (`WaiterHasOwner`), and every push returns (`WaiterReleased`).
* `storage_domains`: no client is leaked by being overwritten or finalized twice
  (`StoredXorFinalized`), none is closed in use (`NoUseAfterClose`), and the source
  is never asked twice at a time about one address
  (`IdentifyExclusive`).
* `storage_ids`: with overlapping prefixes and two addresses that want one ID,
  a request is only served through a client of its own address and configuration
  (`ServedOwnClient`), no two valid clients of different addresses have the same
  ID (`UniqueHumanID`), and clients leave the storage only once expired
  (`OnlyExpiredRemoved`), although the times compared are old.
* `storage_get_live`: every `Get` returns (`GetReturns`), and the storage implements
  `ClientLeases` (`LeasesKept`), with answers that are late and an address that has
  no ID.
* `storage_shutdown_live`: every client made by the time `Shutdown` begins is
  closed in the end (`ClientReclaimed`). A client made later, by a request still
  running, may not be: the code has no guard for it, and the order of `Lifecycle`
  keeps new requests away.
* `sources`: the chain implements `IDContract` (`ContractKept`), an address that
  has a name from a PTR record keeps it until it expires (`IDStable`), an ID is
  reserved only while an address holds it (`IndexBacked`), and a race has one
  winner (`NoDuplicateIDsInRace`).
* `sources_duplicate`: **finding**. `OnEvicted` forgets an ID by its name, also
  when another address has taken the expired ID meanwhile; two addresses may then
  hold it at once, which `existingIDs` is there to prevent. The storage rejects
  the second with its own check (`UniqueHumanID` holds whatever the source
  answers within its contract), so the effect is a client that is not identified.
* `client_match`: what passes validation is built (`ValidatedBuilds`), the lists
  do not depend on the order of Go's maps (`SortedStrictly`), and the first match
  is the right one (`MostSpecificDomain`, `MostSpecificPrefix`).
* `client_match_overlap`: **finding**. Overlapping subnets pass the validation
  although the storage's documentation forbids them; the broader one wins.
* `migrator`: the original is never lost (`OriginalRecoverable`), the file is
  whole (`FileWhole`), what cannot be migrated is left alone
  (`UnmigratableUntouched`), complete backups are not touched (`BackupsKept`),
  and retries get through (`EventuallyMigrated`). The last and `FileWhole` are
  claimed where writes are atomic: a torn file on Windows has to be restored from
  the backup by hand.
* `control`: the storage and the bootstraps outlive the DNS service
  (`StorageOutlivesDNS`), a stopped program has shut everything down
  (`StoppedMeansDown`). A complete configuration is changed by no command, and by
  the service's process in a migration only, which replaces the older file that it
  has read (`ConfigKept`). The exception is the user's: what is written to the file
  between the migrator's read and its write is lost, for the migrator does not look
  again. An incomplete file is never left by installations that all succeeded
  (`InstalledConfigured`). It does not say that an incomplete file of an installation
  that failed or was killed is noticed later: a second installation takes it for
  the user's, succeeds, and the service fails when it starts; nor is it about a
  service that is started while the file is still written. `-s status` never says
  "running" of a service that has no process or "restart on fail" of one that is
  not going to be restarted, nor, on systemd, "stopped" of one that has a process
  (`StatusTruthful`); for a service that has failed for good, or that is being
  stopped, it says "error" on systemd. On macOS "stopped" is not claimed to mean
  anything: `darwinService.Status` says so, without an error, whenever `launchctl`
  fails (`cmd/service_darwin.go:125-127`; `service_darwin_internal_test.go:91-95` has
  it as a case), also of a service that runs.
  Stopping or restarting the service returns, whatever fails or is killed and
  whatever is done on the other terminal (`StopReturns`), provided that no
  `Shutdown` panics (section 5).
* `logging`: records go to an open output (`LoggerUsable`), and what was opened is
  closed, also when only some of the processes could be started (`NothingLeft`).
  The exception is the environment's logger with `LOG_OUTPUT=syslog`: a second
  one is opened beside it, and the first is never closed. The level is the one
  asked for (`LevelAsAsked`), except for `VERBOSE=0` with `verbose: true`: the
  comment in `closeEnv` takes the variable for an override, so that the program
  is quiet when it uses its first logger on, while `overridenLogConf` does not, so
  that it is verbose with every other output. As long as no logger process dies,
  no record and no `Close` waits for ever (`NoStuckLogs`); after a death the
  second record of that severity does, with the mutex that `Close` needs.

### Bounds

* `Queue`: four goroutines over two keys: one can push in each window of
  another's `done` while a third waits and a fourth uses another key. The proofs
  remove the bound.
* `ClientStorage`: two requests; two configurations; one or two addresses; one
  contested HumanID; two client slots (a third client can only be made when a
  slot has been reclaimed); a clock of two ticks with answers valid for up to one
  (`MaxTime`, `MaxTTL`), which may have expired before they arrive: enough for a
  client to be made, expire, be collected and be replaced, with the old reading of
  the clock still in use. Answers that are a whole tick late (`MaxDelay`) are in
  the liveness runs; in the safety runs the ticks between an answer and its use
  have the same effect. The liveness runs are smaller because symmetry is
  unsound for them; `storage_get_live` has an address that is not identifiable.
* `HumanIDSources`: two addresses, two IDs, two records, four ticks, two passes of
  the janitor: an ID can be taken, expire, be taken again and evicted twice.
* `ClientMatch`: two-bit addresses with all kinds of prefixes, domains of up to
  two labels and questions of up to three, three criteria: transitivity needs
  three.
* `Migrator`: all configurations of two groups; two processes; three seconds;
  two interruptions, after each of which there is time for a retry (the guard
  `clock < MaxClock` of `Interrupt`). The proofs remove the bounds.
* `Control`: two terminals, so that two commands and the service interleave, both
  service managers, the debug server enabled or not, files of the latest and of an
  older schema version; finite otherwise.
* `LoggerSetup`: two of the four severities (one that depends on the level, one
  that does not), the main goroutine and one more that log, and one death of a
  logger process: two records to the dead one are enough to block.

### Fairness

Weak fairness of goroutines that have something to do: an owner in the queue, a
`Get` in progress (the source's upstreams and the proxy have timeouts), the
collector (its timer is reset after every cycle), finalizers, the handler's loop
(`Shutdown` gets a context that ends), and a process in `Run` together
with the delivery of the manager's signal to it. In the migrator's run the service manager
restarts a failed service (`cmd/service_linux.go:164-176` reads its auto-restart
state). The clock advances. Nothing is assumed of requests, cancellations, the
user, the commands, crashes and whether anybody stops the service.

Strong fairness where something is asked for again and again: a goroutine that
waits for a mutex of a logger process gets it although others keep taking it
(`WriteLock`, `CloseStdin`; Go's mutexes hand over to whoever has waited for a
millisecond), and the main goroutine logs only so many records before it has its
configuration (`Setup`).

## 4. What is proved

`QueueProofs`, for any goroutines, keys and results, from `ResultsAssumption`
(results are not the zero pair, and the markers are distinct). The invariant adds
to the properties that an owner's entry is open until it closes it and that what
a waiter has been handed is a result. `SingleFlight` alone is not inductive: a
waiter with the zero result would become a second owner.

`MigratorProofs`, for any processes, groups, original configurations and bounds,
from `MigratorAssumption` (the markers are not configurations). First, by cases
on the version, `MigrateCorrect`: the chain of migrations computes exactly
what their documentation describes and fails on everything else. Then the
invariant: a process between reading and writing holds the original and its
migrated form (`LocalsInv`; it cannot have read a half-written file, which has no
version, nor the result, which needs no migration), and its backup directory is
its own, with nothing complete in it before the backup and the original in it
after (`DirsInv`). From these, `OriginalRecoverable`, `FileWhole` and
`UnmigratableUntouched`, and with `DirsInv` the action property `BackupsKept`.

`ClientStorageProofs`, for any requests, addresses, configurations, clients and
bounds, from `StorageAssumption` and `MarkersAssumption` (the zero value, the error
and the other markers are none of the things they stand beside). None of the
properties is inductive, because each rests on who may be where at one time. The
invariant `IInv` has the invariants of both queues, which come from `QueueProofs` by
instantiation, and ties every `Get` to them: at each step it is an owner, a
waiter or neither, under the key of its own address and configuration
(`InSearchQueue`, `InIdentifyQueue`). So two owners have different places in
`sac.clients` (`OwnPlace`), which is why none overwrites the client of another
(`StoredXorFinalized`), and identify different addresses (`IdentifyExclusive`).
The key has no prefix; that it need not have one is the lemma `SameFirst`: the
first match of an address for a domain does not depend on the question. What a
`Get` is handed is a client that was made for it (`RefsOf`), hence
`ServedOwnClient` and, as nothing is closed before `Shutdown`, `NoUseAfterClose`.
Each valid ID in use, also one that is still on its way from the source through the
queue to its client, is registered for at least as long (`IDsOf`, `ClientIDs`);
this is where `IDContract` is needed, and gives `UniqueHumanID`. The action property
`OnlyExpiredRemoved` needs that every time that was read is in the past
(`Locals`, `Background`). `WaitsEnd` is the safety half of `GetReturns`: whoever waits
for a search has a `Get` that does it and waits for no search itself, and whoever
waits for an identification has one that waits in no queue at all
(`NoCircularWait`), so that the two nested queues cannot deadlock.

`ClientLeasesProofs`, from the same assumptions, in two halves.
`StorageKeepsLeases` is the refinement: with `IInv`, and `Addressed` (a request has an
address exactly while it is in progress), every step of the storage is one of
`ClientLeases` or a stutter. One lemma per group of actions says which. The guards
of the abstract steps are where the invariant is needed: that a place is free
when a client is made rests on the single owner of a search, that the ID is free
on `identified`, that a client which is found is not retired on
`StoredXorFinalized`, and that what a queue hands over is for the same place on the
search's key. `LeasesPromise` proves of the abstract specification alone what it
amounts to: one client to be found at a place, whoever holds a client holds one of
his place that is open until the shutdown, and valid IDs are unique. It needs no
more than types and that nothing is closed while the storage is up (`LeaseInv`). Together
they say that a user of the storage may reason about `ClientLeases` instead.

`HumanIDSourcesProofs`, for any addresses, IDs, records, TTLs and passes of the
janitor, from `RDNSAssumption`, `NoneAssumption`, `ValidityAssumption` and
`DefaultAssumption`; the last says that no PTR record yields an ID of
`DefaultHumanIDSource`, see section 2. The invariant is about time: the cache
counts the TTL from a later moment than the answer does, so that an item outlives
its ID (`ItemInv`), an identification begins only when there is no fresh item
(`CallInv`), and so an address that has been given an ID from a PTR record still
has it cached and is not being identified (`GivenInv`). With it every step of the
chain is one of `IDContract` or a stutter: `ContractKept`, step by step, and
`IDStable` from the same. `IndexBacked` is inductive together with these;
`NoDuplicateIDsInRace` needs that the index has exactly the valid IDs before the
first eviction (`RaceInv`).

`ClientMatchProofs`, for any finite set of groups, any criteria, addresses of any
width and domains of any number of labels, from `MatchAssumption`. `CompareOrder`:
both comparison functions are strict total orders, although they are made of a
loop and nested cases; this is what `slices.SortStableFunc` asks of them. Insertion
then keeps a list in order, so the sorted list of any keys is in strict order with
exactly these keys (`MatchInv`), and in such a list the first match is the most
specific. Where a proof is by induction (on the labels of a domain, on the
elements of the list, on the groups) it takes the least natural number for which
the statement fails (`LeastNat`), which needs no induction theorem with an operator
parameter.

`ControlProofs`, for any number of terminals and either manager. `LifeInv`: a service
is listed exactly if it was started and behind what it depends on (`Ordered`), and
the handler's loop divides the list into what is up and what is down
(`LoopInv`); `StorageOutlivesDNS` and `StoppedMeansDown` follow.
`ControlInv` adds that one command at most is writing the file (`OneCreator`), that
an incomplete file has its command or its blame (`CompleteUnlessBlamed`), that an
installation past the file has one (`InstallHasFile`), that the manager's job
fits the process (`JobFits`), and that the file is still the one the migrator has
read, if the user has left it alone (`ReadIsOld`); from these `InstalledConfigured`, `StatusTruthful`
and the action property `ConfigKept`. `StopIsAnswered` is the safety half of
`StopReturns`: a command that waits has a process that the manager was told to end,
and that process can take its next step (`WaitersAnswered`). For this `StopInv` adds
that the handler has neither ended nor not begun while `Stop` waits for it, and
that no other command makes the manager forget a pending stop.

`LoggerSetupProofs`, for any severities, writers and deaths, from `SyslogAssumption`,
`LoggersAssumption` and `NoConfAssumption`. `LogInv` follows who owns what: an open
file is the output in use (`FilesInv`), a system logger that is open or being made
is the one in use or the environment's that was left (`OpenInv`), and a `Close` has
dealt with the processes before the one it is at (`CloseInv`). `LoggerUsable`,
`NothingLeft` and `LevelAsAsked` follow; the state of the loggers is well-typed
(`LoggerTyped`). `LoggersNotStuck` is the safety half of `NoStuckLogs`: whoever has the
mutex of a process is in a write to it, which returns as long as no process has
died, or in a `Close` whose process has its stdin closed (`HoldersProceed`). `LockInv`
says that mutexes and their holders agree, which needs that the markers of
`SyslogAssumption` are not writers.

The proofs do not depend on the bounds (`MaxTime`, `MaxClock` and the like are any
natural numbers) nor on fairness.

Only model-checked: the liveness properties `WaiterReleased`, `GetReturns`,
`ClientReclaimed`, `EventuallyMigrated`, `StopReturns` and `NoStuckLogs`, because
fairness and `ENABLED` are outside of the prover's reach; and the two findings,
which are counterexamples. Of four of them, `WaiterReleased`, `GetReturns`, `StopReturns`
and `NoStuckLogs`, the part that is safety is proved: `WaiterHasOwner`, `WaitsEnd`,
`StopIsAnswered` and `LoggersNotStuck` say that whoever waits has somebody who can take
the step it waits for; that it is taken is what fairness adds.

## 5. Not modelled

The DNS proxy, the upstreams and the caches of answers are libraries, configured
field by field. Validation of single strings (HumanID, profile, device type,
domain names) and YAML decoding are pure and are modelled by their outcome.
Of the configuration as a whole, `Control` has the outcome. The parsing of flags
and packaging have no state that outlives them. The system loggers of Linux and
Windows and the status of other service managers pass each call on. What the
library of the service manager does is taken from its use: that `stop` waits for
the process, and which of its states `systemctl` and `launchctl` report when they
work; why `launchctl` fails is not modelled, only that it may. The contents of the file
are abstracted in `Control`: whether an older or a partial file that appears between
the migrator's read and `parseConfig`'s passes the validation is left open. A
`Shutdown` that panics is left out: `handle` would recover from it and never
answer `Stop`.

## 6. Plan

Done, in this order: `Queue` and its proofs, `ClientStorage`, `RDNSIDSource`,
`Migrator` and its proofs, `Lifecycle`, `ClientMatch`, `Control`, `SyslogDarwin`
and `LoggerSetup`, `IDContract` and `HumanIDSources`; then the proofs of `Control`,
`ClientStorage`, `HumanIDSources`, `LoggerSetup` and `ClientMatch`; then `ClientLeases`,
the proof that the storage implements it, and the absence of deadlocks. Every
safety property of a passing run is proved. What would come next:

1. An abstract specification of the service as a user sees it (installed, running,
   stopped) with `Control` shown to implement it.
2. The system loggers of Linux and Windows beside those of macOS, should they come
   to do more than pass a record on.
