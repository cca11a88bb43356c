# Verification of monitoring-system-monolith

The repository is a Go service that receives text messages from network devices
over HTTP, stores them in PostgreSQL, classifies each with *tags* (a regular
expression, a captured group, a comparison and a severity), and reports on them.
`src/nginx.conf` balances two copies of the process on one database;
`src/docker-compose.yml` names one service, behind traefik. The models take any
number of processes. Each process copies two tables into package variables, and
every later message and report is judged by those copies. What can go wrong in this program is mostly there: the copies are read
without the mutex that protects their writers, are refreshed by several requests
at once, after and not with the commit that made them stale, by one process
and not by the other, and by reads that may fail.

All paths below are relative to the repository; `tla/` is this directory.

## 1. Inventory

| Component | Source | State | Operations | Must hold |
|---|---|---|---|---|
| Tag rules | `services/messages.go` 58-79, 123-162, 212-256 | none | compile a row, compare, first match decides, reversed tag | deterministic on a list; partial lists invent no verdict |
| Tag cache and tag edits | `services/messages.go` 104-169, `services/tags.go`, `http/v1/tags`, `repo/pg/tags.go` | table `tags`; per process `tags` and `tagsMutex` | create, update, delete, `UpdateTags`, start-up | map is one table state or a prefix of one; one writer; read your own edit; no view moves back |
| Message ingestion | `services/messages.go` 178-233, `http/v1/messages` | table `messages` | `POST /messages/send_msg` | verdict and device agree with a committed state, or the message has none |
| Device caches and device edits | `services/messages.go` 81-97, `services/devicesHandler.go`, `services/devices.go`, `http/v1/devices`, `repo/pg/devices.go` | table `devices` (soft delete); per process `deviceByDeviceID`, `devicesByIp` and two mutexes | create, update, delete, two refreshes, start-up of one of them | each map is the live part of a committed state; an acknowledged edit has been shown |
| Reports | `services/messages.go` 275-444, `http/v1/reports`, `repo/pg/messages.go` | none | three reports joined with `deviceByDeviceID` in memory, one in SQL | a row's device name is true of a committed state; the four queries agree with each other |
| Accounts and tokens | `services/auth.go`, `http/v1/auth`, `repo/pg/auth.go` | table `users`; signed tokens | register, log in, read, update, delete, middleware | a deleted account loses access when its tokens expire; names stay unique |
| Process life cycle | `cmd/main.go`, `internal/app/app.go`, `pkg/closer` | list of closing functions; context; two servers | start, signal, close with a deadline | the closer's answer is true; a signal ends the process; open requests get the whole timeout, unless the process crashes or docker kills it first |
| HTTP server | `transport/http/server.go`, `v1/handlers.go` | route table; listening or not | run, stop; routing, middleware; **no recover middleware** | stopped only with its requests answered, or late |
| Database access and migrations | `pkg/postgres`, `repo/repository.go`, `repo/type.go` | connection pool; `schema_migrations`; advisory lock | connect, migrate, begin, commit, rollback | nobody serves on a half-migrated schema; one migrator at a time |
| Device checker, notification, senders | `v1/devicechecker`, `services/notification.go`, `transport/smtp`, `transport/http/httpsender.go` | none | not wired into the program | - |
| Configuration, logging, deployment | `config`, `pkg/logger`, `nginx.conf`, `odyssey` | none | - | grace period and pooler are what the two components above meet |

**How they interact.** A handler calls a service; the service opens a
transaction, calls a repository, commits; the handler of a tag or a device then
calls the refreshes. Tags are refreshed twice, by `services/tags.go` and again by
the handler, and an update refreshes even after an error
(`http/v1/tags/tags.go` 246). Devices are refreshed once per map, first
`deviceByDeviceID`, then `devicesByIp`, and only after success. A message first
asks `devicesByIp` for the sender's device and goes on with device 0 when there
is none (`http/v1/messages/messages.go` 86), then asks `tags` for the rules of
that device, then inserts. Nothing is sent between the two processes: they share
the tables only, and at the start the schema that both bring up to date.

**What is hard.** Goroutines of one process on three shared maps; a refresh that
fails halfway; refreshes that overtake each other (devices are read before the
mutex is taken, tags after); connections taken before a mutex is waited for, from
a pooler of bounded size; two processes of which one is never told of an edit; a
commit whose answer is lost; panics that nothing recovers and fatal map errors
that nothing can; a shutdown deadline that races the functions being closed, the
server's start and docker's patience; migrations that stop halfway. `PROJECT.json` lists these as hazards, each at its line.

## 2. Modules

| Module | Models |
|---|---|
| `TagRules` | the rule language, pure operators: `Usable`, `Compare`, `Loaded`, `HandleMessage` |
| `TagCache` | the tags table, the map of each process, edits, `UpdateTags`, messages (EXTENDS `TagRules`) |
| `SessionView` | abstract specification: what the tag cache promises its clients |
| `DeviceCaches` | the devices table, both maps of each process, edits, refreshes, attribution, reports |
| `DeviceView` | abstract specification: what the device caches promise their clients |
| `Ingestion` | the composition: a message's device from one map, its rules from the other (EXTENDS `TagCache`, instantiates `DeviceCaches`) |
| `Reports` | the four queries over the messages table while messages arrive and time passes |
| `Accounts` | the users table, sign-ins, tokens and their expiry, edits and deletions of accounts |
| `Closer` | `pkg/closer`: functions closed in turn against a deadline |
| `LifeCycle` | one process from `main` to its exit (instantiates `Closer` with `httpServer.Stop`) |
| `Migrations` | the start of the processes on one database: connect, migrate, connect, serve |
| `MCTagCache`, `MCDeviceCaches`, `MCIngestion`, `MCReports`, `MCAccounts`, `MCCloser`, `MCLifeCycle`, `MCMigrations` | finite instances for TLC |
| `TagCacheProofs` | theorems of `TagRules` and `TagCache`: the refinement of `SessionView`, what the map holds, what a verdict is |
| `DeviceCacheProofs` | theorems of `DeviceCaches`, the refinement of `DeviceView` among them |
| `IngestionProofs` | theorems of the composition (EXTENDS `Ingestion` and `TagCacheProofs`, instantiates `DeviceCacheProofs`) |
| `ReportsProofs`, `AccountsProofs`, `CloserProofs`, `LifeCycleProofs`, `MigrationsProofs` | theorems of the modules they are named after |

### TagRules

Strings are members of a set `Texts`; Go's `regexp` and `strconv` are constant
functions (`Compiles`, `FindStringSubmatch`, `ParseFloat`) that an instance
chooses and that the proofs leave arbitrary. `Usable` is what the loop of
`UpdateTags` keeps (known comparator, regexp compiles). `HandleMessage` takes the
first tag whose regexp matches; that tag alone decides, satisfied or not.
`Judge` has three ends: a severity, an index beyond the groups the regexp
captured (`range`), and a satisfied `<` or `>`, which writes a reversed tag
through a repository that has no transaction (`nilTx`). The last two panic, and
no middleware recovers. `Loaded(rows, d)[n]` is device `d`'s slice after `n` rows; it
is a recursive function, so that it can be proved about.

### TagCache

A *worker* is a goroutine serving one request in process `Home[w]`. `pc[w]`
says where its request is, and each step that touches shared state is one action:

| Action | Code |
|---|---|
| `Boot` | `NewMessagesService`: `UpdateTags` before listening; its failure is only logged |
| `CreateTag`, `UpdateTag`, `DeleteTag`, `RejectTag` | the handler's transaction with every outcome: committed, failed, committed with the answer lost |
| `BeginRefresh`, `BeginFails` | `BeginTx` of `UpdateTags`: a connection of the pool, or an error |
| `LockTags` | `tagsMutex.Lock()` and `tags = make(...)` |
| `ReadTags`, `ReadFails` | the `SELECT` without `ORDER BY`, in any order; or its failure, which leaves the map empty |
| `AppendTag` | one turn of the loop over the rows |
| `Unlock` | the deferred `Unlock`, and the deferred `Rollback` that gives the connection back |
| `ReceiveMessage` | lookup in the map with no mutex, `handleMessage`, a panic included |
| `MapRace` | the runtime's fatal "concurrent map read and map write" |
| `StoreMessage`, `StoreFails`, `Reply` | insert and answer |
| `Kill` | the process stops at any moment; memory is lost, tables stay |

History variables record what the code does not keep and the properties need:
`version` and `shown` (the table state last installed completely, which a later
failure does not change), `wiped` (the last refresh to have the mutex could not read and left the map
empty), `mine` and `missed` (what a client was promised and how many
refreshes gave up), and in a stored message the verdict of the complete rules.
`Unlock` is one action for two deferred calls: between them the code has released the mutex
and still holds a connection, for the time of a rollback that changes nothing.

### SessionView

The promise without mutex, map or rows. Each process has a *view*, the state of the
table its rules come from, which only moves forward and never past the table; and it may have a
*gap*, in which some of its rules, or all, are missing. A refresh made by an edit's handler
empties the rules (`Empty`: the gap opens), installs a newer state that has the handler's own write
(`Install`: the gap closes), or gives up (`Miss`: the gap stays as it is, so a refresh that has
emptied the rules before it failed leaves them empty). A process starts with a gap if its first read fails. A client
is told "ok" when its handler has no refresh left; unless all of them gave up, the view of the process that
answers has the client's write. So the client's edit is in the rules, or the process has a gap.

`TagCache` implements it (`ImplementsSessionView`) with `view = shown.version`, `gap = InRefresh`
(the mutex is held, or `wiped`), `owed = mine`, `due = todo`, `misses = missed`. A read
before the mutex or a missing mutex breaks the refinement. That the rules of a process without
a gap *are* those of its view is `CacheIsSnapshot`, and `AckedTagVisible` puts both together. The gap is no rarity that could be left out: an edit's first refresh may be through
and its second, or that of another request, fail to read; the answer is "ok", and no rule is
left in the process until the next refresh. `DeviceCaches`, which reads before it locks, promises less;
that is `DeviceView`.

### DeviceCaches

`log` is the sequence of the devices table's states, its last element the table.
A map is the set of its rows, since a row holds its own key; two live devices may
share an address, and then the last row read keeps it (`Filled`). A delete
marks its row (the trigger of migration 2), and unique names cover marked rows.
An address is looked up as the sender spelled it, while the map's keys are
PostgreSQL's spelling (`Inet`): an `::1` written `0:0::1` is an unknown sender.
Steps: `ReadDevices` (no mutex), `LockDevices`, `AddDevice` one row at a time,
`UnlockDevices`, first for `byId`, then for `byIp`; `GiveUp` (map unchanged);
`ReadLost` (`MessagesService.UpdateDevices` overwrites the read's error with the
commit's and installs nothing in place of the old map). Readers are
`SendMessage`, which is followed by `StoreMessage`, and `BeginReport`, `NameRow`
per device, `EndReport`; `MapRace` is the fatal concurrent read. `Boot` loads
`byIp` only: until the first device edit in a process, its reports name every
device "unknown device".

### DeviceView

What the device maps promise. A view may move **back**: a refresh that read before
an edit may install after it. But a view moves only by the handler of an edit,
once per map, and never behind that handler's own edit; `byId` may also be lost. An
"ok" is given when the handler is through with both maps. `DeviceCaches` implements
it with `view = ver`, `owed = mine` and `due = Due(w)`, the maps that the handler has
still to pass. Next to it, `AckedDeviceShown` says with `peak`, the newest state shown so
far, that an acknowledged edit has been visible at least once.

### Ingestion

`EXTENDS TagCache` and instantiates `DeviceCaches` with variables of its own, so that
every edit, refresh, failure and stop of both is there with the same actions. A
worker that serves a message is in both: `Lookup` is `SendMessage` of the devices,
`Classify` is `ReceiveMessage` of the tags with the device that the lookup gave,
`Insert` stores in both or in neither. Boot and kill are joint, and a panic or a fatal map
error in one part, which ends the process, is for the other part a kill; its `proc` then
says "killed", which differs from the cause in the label only. So every step of the composition
is a step or a stutter of each part, and what holds of a part alone holds here (section 4).
Each module's message bound counts the same messages. A sender chooses its text, and its
address decides whose rules it meets: `IngestionAssumption` closes `Arrivals` under the device, and
`MCDevices` has 0 and every id that the table of the instance may give. `tags` has no foreign key to `devices`, and an update of a tag that
leaves its device out stores device 0, so such a tag judges the messages of unknown
senders: `ClassifiedHadOwner` makes that exception, and the instance has such an update.

### Reports

A message is its stamp, device, type, component and whether it is critical; the state is the
table and the database's clock. `Insert` stamps with the clock of a process, which may
differ by `Skew`. The queries are operators on sets of places in the table, named after
the SQL they translate: `LastDays` (the window of thirty times 24 hours), `CriticalLog` (the
window that starts at a midnight and has no end), `Days` (the inner `GROUP BY`), `Row`
(the outer one and the join). `MostActive` is the set of
components that `LIMIT 1` may return. A day is `Day` ticks and the month `Month` days, so
an instance reaches both edges of both windows after a few ticks.

### Accounts

A token is checked once, on arrival, and against the clock only; no handler looks
its user up again. A sign-in and an authenticated edit therefore take two steps
each, and edits, deletions and the clock come between them.

| Action | Code |
|---|---|
| `Register` | `POST /auth/register`: insert with the hash of the password; unique e-mail |
| `Authorize`, `Unauthorized` | `GET /auth/sign_in`: a live row with this e-mail and hash, or 401 |
| `Sign` | the token, its expiry counted from this moment |
| `DeserializeMW` | the middleware admits a request whose token has not expired |
| `Update`, `Delete` | `PUT /users/update`, `DELETE /users/delete`: one transaction each |
| `Respond` | the request ends without a change: a read, a failure, a crash |
| `Tick` | a second passes |

Any admitted request may edit any account, as in the code: the handlers take the
id from the request. A delete only marks its row (the trigger of migration 1) and
a marked row keeps its e-mail, so a registration with it fails. The process of a
request does not matter, as both sign with one key and no state is kept in
memory. SHA-1 is a constant function `Sha1`. The column `name` and the ways in which a
token can be malformed are left out. `read`, the moment the sign-in read the
table, is a history component of tokens; the code keeps only the expiry.

### Closer

`Close` and its goroutine (the *runner*) are two processes: `Call`, `Return`, `Send`
against `Receive`, `Cancel`, `Join`. A function returns nil or an error, or never. `select`
chooses freely when both channels are ready. `msgs` is shared without a mutex, so
reading it (`caller = "join"`) before the runner is done would be a data race;
`NoRaceOnMsgs` says it does not happen, although a cancelled `Close` leaves the runner
behind. The mutex of the closer is never contended and is left out.

### LifeCycle

| Action | Code |
|---|---|
| `StartUpStep`, `StartUpFails`, `ReconnectFails` | `app.Run` up to the wait: `log.Fatal` on an error, but the second `NewPostgres` is not checked and `NewAuthRepo` panics on its nil |
| `Listen`, `ListenFails`, `MetricsFail` | the two server goroutines; one that ends with an error, before it has served or after, calls `stop` |
| `Accept`, `Answer` | requests of the API server |
| `Crash` | the handler of an open request panics, or meets a map that is being written: nothing recovers, the process ends at once |
| `Signal`, `DockerStop`, `Kill` | a signal reaches the context, or after `stop` ends the process; docker's SIGINT and, after its grace, SIGKILL |
| `AddStop`, `BeginShutdown`, `Inside` | `closer.Add`, `Close` and the steps of `Closer` |
| `StopFindsNothing`, `StopListening`, `StopDone`, `StopLate` | `httpServer.Stop` of a server that never listened, or its drain, in time or not; requests of a server that lost its port are drained too |
| `LogShutdown`, `Exit` | the two log lines; `main`'s deferred `os.Exit` |
| `Tick` | the timers of the shutdown and of docker; it waits while `main` has only to start the shutdown |

Two facts of the code that the model has and no property forbids: a `Stop` that
comes before `Listen` finds nothing to stop and reports success while the server
then begins to serve (`late`), and because `os.Exit(1)` is deferred first, every end
of `Run`, a panic included, is a silent exit with status 1. The metrics server and both
connection pools are never closed; the process's exit does that.

### Migrations

golang-migrate's part is external: it takes an advisory lock, reads version and
dirty flag, and per file marks, runs, cleans. What the service adds is in the actions: it
connects, hands its pool to `WithInstance` (which takes the lock once more, to create
its table), ignores `ErrNoChange` and dies of every other error, and connects again.
The variable `pooled`, which never changes, chooses between connections of the process's own and those of the pooler in
`odyssey.conf`, where each statement may run on another backend and a backend keeps its
locks when it returns to the pool. An advisory lock is reentrant for its backend.

## 3. Runs

| Run | Instance | Shows |
|---|---|---|
| `tags_one_process` | 1 process, 2 requests, 2 commits, 2 messages | the map is one committed state, a prefix of one or empty (`CacheIsSnapshot`); a message judged in mid-refresh gets the full verdict or none (`WindowOnlyLoses`); the unspecified order of a read only picks which matching rule decides (`OrderOnlyPicks`) |
| `tags_two_processes` | 2 processes, 3 requests, **2** connections, 1 rule, 1 commit, edits that fail, fairness | one refresh at a time (`RefreshExclusive`); read your writes, but for a map that is being refilled or that a failed read left empty (`AckedTagVisible`); refinement of `SessionView`; a refresh holds its connection while it waits for the mutex, and still every request is answered (`RequestsAnswered`) |
| `tag_threshold` | one tag with `>` | *violated*: a satisfied threshold stops the process (`ThresholdHarmless`) |
| `devices_one_process` | 1 process, 2 requests, 3 table states, 1 message | maps are committed states (`MapsAreCommitted`), attributions and report rows are true of one (`AttributionSound`, `ReportRowsTrue`), acknowledged edits were shown (`AckedDeviceShown`), no stored message loses its device row (`MessagesKeepTheirDevice`); refinement of `DeviceView` |
| `devices_answered` | 1 process, 2 requests, 3 table states, 1 name, 1 spelling, fairness | every device request is answered (`DeviceRequestsAnswered`) |
| `ingestion` | 1 process, 2 requests, 1 rule and an update that leaves its device out, 1 address, 2 commits of tags, 1 of devices, 1 message | through both maps at any staleness only a message whose sender's address a device had is classified, or one of nobody by a rule of device 0 (`ClassifiedHadOwner`); when both maps show the tables, it is judged by a matching rule of that device, and by no former one (`FreshMapsClassify`) |
| `reports` | 2 devices, types and components, 3 messages, 4 ticks, month of one day of two ticks, clocks 1 tick apart, threshold 1 | month report and report by period count the same messages, and so do the other two queries (`QueriesAgree`); the two windows of the month report agree but at midnight (`CriticalTimesCover`, `CriticalTimesNear`) |
| `accounts` | 2 requests, 2 e-mails, 2 users, 2 tokens, life time 1, clock up to 2 | a deleted account is only served through a sign-in that read the table before the deletion (`DeletedAccountWindow`); no edit that was admitted earlier brings it back or changes it (`DeletedForGood`) |
| `account_update` | the same | *violated*: an update that omits fields leaves an account nobody can sign in to (`AccountsReachable`) |
| `closer` | 3 functions, fairness | the answer is true (`AnswerTrue`), no data race (`NoRaceOnMsgs`), `Close` returns though a function hangs (`CloseReturns`), the goroutine ends once its functions have (`RunnerEnds`) |
| `life_cycle` | 2 requests, timeout 2, grace 4, fairness | no request without a database (`ServedWithPool`); success means drained (`SuccessDrained`); an orderly exit cuts requests only when the whole timeout is over or the server was `late`, and the other ways to lose one are a crash, docker's SIGKILL and a signal after a server failed (`CutOnlyBy`); only a failed server makes a signal deadly (`SignalsAreGraceful`); every signal and every lost server ends the process (`SignalEndsProcess`) |
| `migrations` | 2 processes, 2 backends, 6 files, with and without the pooler, fairness | nobody serves without the whole schema (`ServesMigrated`); with connections of their own, one process at a time applies migrations (`OneMigrator`), the recorded version is true (`VersionTrue`), once somebody serves nothing leaves the schema dirty (`SchemaSettled`), and a start ends (`StartEnds`) |

**Bounds.** `MaxCommits` bounds the states of a table, `MaxMessages` the
messages; they are the only counters. Two commits and two requests are what a
lost update of a map needs: one refresh in progress, one edit that overtakes it.
Three requests, two of them of one process, contend for two connections in
`tags_two_processes`, so that one waits for the mutex with a connection and one without;
the one commit is a create, a delete or an update that meets no row, every edit after it fails, and a failed update refreshes all the same. That views move forward past
more than one commit is what the theorem of section 4 adds to its single commit. The two tags of `MCTagCache`
match one message and disagree on its severity, so a wrong order or a mixture of
two states shows; its two edits make a rule useless (an omitted comparator) and
make it panic (a group the regexp does not have). Devices have two spellings
of one address, so two devices may share it and a sender may be unknown. Table
states of `DeviceCaches` are numbered from the empty one: `MaxCommits = 3` is two
edits. In `Accounts`, `MaxUsers`, `MaxTokens` and `MaxTime` bound the table, the
tokens signed and the clock: a token of life time 1 expires within the run, a
second one is signed after it, and one account can be deleted while the other,
or the deleted one itself, is signing in or has a request under way. Two processes share no memory, so what
a process that nobody refreshes does with devices, one whose refreshes all give up does
too, and `devices_one_process` has that. The `ingestion` run has two edits of tags, one before its message and one during it, and one of
devices, which may come before the message or during it: a device appears there, but none moves or is deleted.
`devices_one_process` has those edits, and the theorems `Classified` and `FreshClassify` have them in the composition. In `Reports`, three messages are the least that exceed the threshold and leave one
over for another day or device, and four ticks pass two midnights. In `LifeCycle`
the grace exceeds the timeout, so a whole shutdown fits into it, and one that follows a stop during the
start-up can also be killed. Without the pooler a backend never
has the advisory lock twice; behind it, locks leak into the pool, and `MaxHeld = 3`
lets one backend keep those of earlier starts while a later one takes its own. `SYMMETRY` permutes workers in the safety runs of one process, and
devices, types and components in `Reports`; every property quantifies over them. The `VIEW` of
`ingestion` drops `mine`, `missed` and `peak` of both parts: history that no guard, no other
variable and neither property of that run reads. The names of devices
in `devices_one_process` include "unknown device", which a client may give to a device as any other.

**Deadlock** is not checked in `Closer` and `LifeCycle`, which end, nor in `Reports`, whose
clock and table stop at their bounds. It is checked in every other run: there a process can always be stopped or
started again, so the interesting form, requests that wait for each other while
the process is up, is what `RequestsAnswered` and `DeviceRequestsAnswered` exclude.

**Fairness** (`FairSpec`) says: a request that was started goes on. `WF` on
`Refresh` and `Finish`, as every statement is answered or fails and the Go
scheduler runs every ready goroutine; `SF` on `LockTags` and `LockDevices`, as
`sync.Mutex` hands itself to a waiter that has waited a millisecond. There is no
fairness on `Boot`, on edits, on messages or on failures, so no property counts
on traffic, on restarts or on errors. `BeginRefresh` and `BeginFails` share a
`WF`: with no free connection the request waits or fails, and the pooler may
choose either. In `Closer` the deadline comes and both goroutines run, but no function
need return. In `LifeCycle` the statements of the start-up are answered or fail (`Start`), `main` and
the closer go on (`Close`), time passes, and docker sends the SIGKILL it has
announced; nothing makes a request end, a server listen or a signal come, and
`SignalEndsProcess` holds without docker, as `Signal` starts no grace. In `Migrations`, `WF` on `Step`
(statements are answered or fail) and `SF` on `Lock` (PostgreSQL grants a lock in the order of its
waiters); `Start` and `Kill` are free.

## 4. Theorems

TLC checks the instances above; the theorems hold for every set of processes,
requests, texts, rules, names, addresses, messages, migration files and functions to
close, and for every pool size, timeout and bound. They assume only what the constants are:
`RulesAssumption`, `CacheAssumption` (request bodies passed validation),
`DevicesAssumption` ("" is a name and no spelling of an address, and PostgreSQL's
spelling of an address is its own), `IngestionAssumption` (the same of its devices, rules can be
asked for any of them, and any text can come from any of them), `ReportsAssumption` (days and
months are not empty), `AccountsAssumption`,
`ClosersAssumption` (functions are told apart by their names), `LifeCycleAssumption` (both timeouts
are positive) and `MigrationsAssumption` (each process has a connection of its own, and there is
a migration). TLC evaluates each in the runs of its module.

| Theorem | Module | Says | By |
|---|---|---|---|
| `PrefixVerdict` | `TagCacheProofs` | `HandleMessage` of a prefix of the rules is that of all of them, or unmatched | the first match of a prefix is the first match |
| `TypeCorrect` | `TagCacheProofs` | `Spec => []TypeOK` | `Typed` |
| `RefreshesExclude` | `TagCacheProofs` | `Spec => []RefreshExclusive` | `Locked` |
| `AckedVisible` | `TagCacheProofs` | `Spec => []AckedTagVisible` | `Versioned`, and `Loading` for the rules |
| `CacheImplementsView` | `TagCacheProofs` | `Spec => ImplementsSessionView` | step by step, from `Locked` and `Versioned` |
| `MapIsSnapshot` | `TagCacheProofs` | `Spec => []CacheIsSnapshot` | `Loading` |
| `UnlockedReadOnlyLoses` | `TagCacheProofs` | `Spec => []WindowOnlyLoses` | `Judged` |
| `OrderPicks` | `TagCacheProofs` | `Spec => []OrderOnlyPicks` | `Loading`: outside of a refresh the slice holds exactly the usable rows of its device |
| `TypeCorrect` | `DeviceCacheProofs` | `Spec => []TypeOK` | `Typed` |
| `MapsHoldCommitted` | `DeviceCacheProofs` | `Spec => []MapsAreCommitted` | `Committed` |
| `MessagesAttributed`, `ReportsName` | `DeviceCacheProofs` | `Spec => []AttributionSound`, `Spec => []ReportRowsTrue` | `Truth` |
| `MessagesKeepDevice` | `DeviceCacheProofs` | `Spec => []MessagesKeepTheirDevice` | `Grows` and `Truth` |
| `AckedShown` | `DeviceCacheProofs` | `Spec => []AckedDeviceShown` | `Owed` |
| `CachesImplementView` | `DeviceCacheProofs` | `Spec => ImplementsDeviceView` | step by step, from `Owed` |
| `ImplementsDevices`, `ImplementsTags` | `IngestionProofs` | `IngestionSpec => D!Spec`, `IngestionSpec => Spec`: the composition implements both of its parts | step by step; the second needs that a lookup yields an id of the table or 0 |
| `Classified` | `IngestionProofs` | `IngestionSpec => []ClassifiedHadOwner` | `Paired`, `AllRuled`, `AttributionSound` |
| `FreshClassify` | `IngestionProofs` | `IngestionSpec => []FreshMapsClassify` | `Sourced`, `OrderOnlyPicks`, `Committed` |
| `TypeCorrect` | `ReportsProofs` | `Spec => []TypeOK` | itself |
| `QueriesDoAgree` | `ReportsProofs` | `Spec => []QueriesAgree` | `SumCounts`: a sum over days is a count of messages |
| `TimesCover`, `TimesNear` | `ReportsProofs` | `Spec => []CriticalTimesCover`, `Spec => []CriticalTimesNear` | `Extremes` and `TodayBounds`; the second also `Stamped` |
| `TypeCorrect` | `AccountsProofs` | `Spec => []TypeOK` | `IInv` |
| `DeletionFinal` | `AccountsProofs` | `Spec => []DeletedAccountWindow` | `IInv` |
| `DeletedRowsStay` | `AccountsProofs` | `Spec => DeletedForGood` | the same, with one case per edit |
| `AnswerIsTrue`, `MsgsUnraced` | `CloserProofs` | `Spec => []AnswerTrue`, `Spec => []NoRaceOnMsgs` | `IInv`: `Token` and `ToSet(msgs) = Failed` |
| `TypeCorrect` | `LifeCycleProofs` | `Spec => []TypeOK` | `Typed` |
| `PoolBeforeRequests`, `SuccessIsDrained`, `CutsHaveCause`, `GracefulSignals` | `LifeCycleProofs` | `ServedWithPool`, `SuccessDrained`, `CutOnlyBy`, `SignalsAreGraceful`, each always | `Staged` and `Served` |
| `TypeCorrect` | `MigrationsProofs` | `Spec => []TypeOK` | `Typed` |
| `ServesWhole` | `MigrationsProofs` | `Spec => []ServesMigrated`, with and without the pooler | `Covered` |
| `MigratesAlone`, `VersionSays`, `StaysSettled` | `MigrationsProofs` | `OneMigrator`, `VersionTrue`, `SchemaSettled`, each always | `Alone` and `Tracked` |

The inductive invariants are layers, each proved from the ones below. Of the tags:

- `Typed` adds to `TypeOK` that the table is finite (reads enumerate it) and that
  a request's refreshes done, missed and to do add up to at most two; without the
  sum, `missed` would leave its type.
- `Locked` ties the owner of `tagsMutex` to the stages between lock and unlock. It
  is `RefreshExclusive` with the owner's home added, which makes it inductive.
- `Versioned`: no view and no read is ahead of the table, the read that is being
  installed is not older than the view it replaces, and a client's own write is
  covered by the view, or both its refreshes are still to come or gave up. A map emptied by a failed read
  is no matter of versions: that is `wiped`, of which `Loading` speaks. This is where reading *after* locking is
  used: a read made before the lock could be older than the view by the time it
  is installed.
- `Loading` is `CacheIsSnapshot` with the position of the loop bounded by the
  rows; `LoadedUnfolds` and `LoadedGrows` give one turn of the loop.
- `Judged` adds to `WindowOnlyLoses` the same fact for messages not yet inserted.
  `MapVerdict` combines `Loading` with `PrefixVerdict`: what a reader without the
  mutex sees is a prefix, so what it decides is the whole verdict or none.
- `Sourced`: a row of the table, of a read or of a view was written by a request, and a read made in
  the table's present version is the table. `AllRuled`: a severity, stored or about to be, is that
  of a rule some request wrote for the message's device.

Of the devices (`DeviceCacheProofs`):

- `Typed` adds that the table has fewer rows than there were commits: an id is the number of
  a row, and ids would leave their type otherwise.
- `Locked` ties the owner of each map's mutex to the one stage, `fill`, in which a request
  has it; a process that is not up has no requests.
- `Committed`: a map holds what its state's live rows leave in it in some order, or, while it
  is filled, what the rows already handled leave. The read that fills it is the live part of
  the state it was made in. `FilledPut` is one turn of the loop.
- `Truth` adds to `AttributionSound` and `ReportRowsTrue` the message not yet stored and that no
  state is dated later than the table. `MapShows` combines it with `Committed`: what a reader without
  the mutex finds is a row of a state, and what it does not find is missing there or in a refill.
- `Grows`: a row may be marked, renamed or moved, but its id keeps a row in every later state.
- `Owed`: per map and handler, the handler has its own edit yet to read, or carries a read not older
  than the edit, or has shown it, or has given up. This is where reading *after* the commit is used;
  a read of another request may be older, and this is why a view may move back and `peak` may not.

Of the composition: once each of its steps is a step of each part, the invariants of both parts hold
of it without another proof; those of the devices are taken from `DeviceCacheProofs`, instantiated with
the composition's variables. What neither part can say is `Paired`: the tags part and the
devices part of a worker's message, and of each stored one, have the same device. Then a severity
comes from a rule of the message's device (`AllRuled`), which is the device of an owner of its
address in a committed state (`AttributionSound`) or 0. For `FreshMapsClassify`, up-to-date maps are the tables
in some order, so the lookup finds one of the owners, and what decides is one of its rules.

Of the reports: `TypeOK` is invariant as it stands. The rows of `Days` of one device and type partition its
messages of the window (`DaysPartition`), so `SumTotal` and `SumCritical` are the sizes of unions (`SumCounts`), and
both sides of `QueriesAgree` count the same places of the table. `Extremes` says of `Min` and `Max` what the first and
the last critical time need, `TodayBounds` how far the two windows are apart. Only `CriticalTimesNear` needs more than
the types: `Stamped`, that no message is stamped later than the database's clock by more than `Skew`.

Of the accounts: `DeletedAccountWindow` speaks of admitted
requests only; to be inductive it has to hold of every sign-in in progress
and of every token, expired or not (`Signed`, `Served`, by `Covered`: the account was
live when the sign-in read it, or it is deleted now and was read no later).
`Numbered` adds that ids are given once, so that a registration does
not take the id of a row a token speaks of.

Of the closer: the answer is true because the token is sent last. `Token` says that a token on its way,
or received, means that the goroutine is done; `InTurn`, that only the function called last may
not have returned; `ToSet(msgs) = Failed`, that `msgs` names exactly the functions that failed.

Of the process's life: `Typed`; `Stopping`, how far `Close` and its goroutine have come with the
one function they have, where only an expired deadline cancels or makes the function fail; `Staged`,
what each stage of `main` has behind it (a pool before any server, a failed server before a deadly signal,
the whole grace before a kill); and `Served`: only the end of the
process cuts a request, a panic of the start-up cuts none, and a `Stop` that succeeded, of a server that was not late, has left none.
The closer's own theorems are not used: its steps are those of the process with one function.

Of the migrations: `Covered` needs no lock, which is why `ServesWhole` holds behind the pooler. A
process that has passed a file without an error has seen it applied, and nothing takes a file
back. `Alone` (without the pooler) says that the backend of the lock is that of the one process between
taking and releasing it; a killed process's connection closes, which releases it. `Tracked` follows
from it: what this process has read stays true until it is through, so a dirty
version is that of the file it is at.

A prefix argument needs induction on the length of a list. The library's
induction theorems take an operator as argument, which the provers cannot
instantiate, so `SetInduction` states induction for a set of numbers and
`LoadedExists` derives the recursive function's equation from it. Sums and extremes over finite sets
are proved without induction: a set of counterexamples would have a smallest
member (`SmallestSubset`, from the well-foundedness of the strict subsets of a finite set), and there is none.

## 5. Only model-checked

- The six liveness properties (`RequestsAnswered`, `DeviceRequestsAnswered`, `CloseReturns`,
  `RunnerEnds`, `SignalEndsProcess`, `StartEnds`): fairness and
  `ENABLED` are outside the prover's reach.
- The two violated properties, whose counterexamples are traces of TLC.

## 6. Findings

- **A threshold tag stops the process** (`tag_threshold`). `handleReversedTag`
  (`services/messages.go` 235-256) creates or deletes a tag through
  `ms.tagRepo`, which has no transaction; `r.tx.DriverName()` on the nil `tx`
  panics, nothing recovers, and the message is lost. The request validator accepts
  such tags, and the code around the call expects an error it can log.
- **An account update empties what it omits** (`account_update`). The update handler
  passes the address of every field (`v1/auth/auth.go` 279), so `coalesce(:password, password)` in the
  statement never sees a NULL although the fields are marked `omitempty`: an update
  without an e-mail stores "", one without a password stores the hash of "", and the
  validator of a sign-in accepts neither. The account cannot be used until somebody
  else updates it. Tags (`v1/tags/tags.go` 227) and devices (`v1/devices/devices.go` 218)
  are updated the same way: a tag renamed this way loses its comparator and silently
  leaves the rules, a device loses its name; an omitted address at least
  fails, as '' is no `inet`.

Not listed as findings because nothing in the repository says otherwise, but
worth knowing from the traces: an acknowledged tag edit can be missing from the rules of the process
that answered, with all other tags, because `UpdateTags` empties the map before it reads (`services/messages.go`
115-120) and one failed read of the same handler's second refresh, or of any other request, leaves it
empty until the next edit; a crash of one request loses every request open in its process, with no time to finish; an acknowledged device edit can disappear
from the maps again, when a refresh that read before it installs after it, and
stays away until the next edit; a process that did not handle an edit does not see
it until one of its own; behind Odyssey's transaction pool the advisory lock of the
migrations is no lock (without the condition `~ pooled`, TLC finds `OneMigrator`, `VersionTrue` and
`SchemaSettled` violated: two processes start together, one fails on a version the other has marked
dirty, or leaves the mark behind), and only because every file can be run
twice and a dirty version is fatal does `ServesMigrated` survive; a `Stop` before
`Listen` reports success and leaves a serving process to the exit of `main`; and `docker-compose.yml` 54 grants 10 seconds between SIGINT and SIGKILL while line 68
sets `APP_SHUTDOWN_TIMEOUT: 30s`, so requests that need longer than that are lost although the shutdown would
wait for them; and the
critical times of the month report leave out a message that its counts include when
the report is made at midnight exactly.

## 7. Not modelled

- HTTP routing, middleware, validation and configuration: no state that the properties
  depend on. A transaction is one atomic step; its failure and the loss of its answer are
  outcomes of that step. `Postgres.Close` has no caller.
- Device checker, notification and senders are not reachable from the program.
- Reads that change nothing (`/tags/read`, `/devices/read`, `GetResponsible`).
- Averages, median, percentage, rank and the order of the rows of the month report, and
  the narrowing of request ids to 32 bits: they follow from, or feed, what is modelled.
- Undefined behaviour other than the fatal map error: a Go map read during a
  write either ends the process (`MapRace`) or returns the value of that instant.
- nginx, traefik, log collection: a client's retry is another request.

## 8. Plan

Every safety invariant, action property and refinement that a passing run checks is a theorem; what
is left needs a prover with fairness (section 5). When the code changes, these parts change with it:

1. A handler that looks its user up again would let `DeletedAccountWindow` speak of requests
   instead of sign-ins (`Accounts`).
2. An `UpdateDevices` that reads after it locks, as `UpdateTags` does, would let `DeviceView` forbid
   that a view moves back, as `SessionView` does.
3. An `UpdateTags` that makes the new map only after its read succeeded would close the gap that a failed
   read leaves: `Miss` of `SessionView` could not follow an `Empty`, and `AckedTagVisible` would lose its second exception.
4. A middleware that recovers would take handlers' panics out of `Crash` (`LifeCycle`) and `Stops` (`TagCache`); the
   fatal map error would stay.
5. A repository with a transaction in `handleReversedTag` would turn `tag_threshold` into a passing run, and
   reversed tags into edits of `TagCache` made by messages.
