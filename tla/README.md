# Verification of hygiea

hygiea is a Rust application framework: a `Registry` that starts and stops
components, components for databases, Redis, HTTP, gRPC and AWS, configuration
that is kept in the database and followed while the process runs, locks, an HTTP
client, a mock HTTP server for tests, and helpers for logging, errors, dates, redaction and
text. This directory holds TLA+ modules translated from its source, TLC configurations
that check them on small instances, and proofs checked by TLAPS.

Two kinds of modules: state machines, where the program waits, shares or fails half way, and
pure functions, where a wrong edge, a forgotten setting or a text in the wrong place is what can
go wrong. `tlc -config MC_X.cfg MC_X` runs a check, `tlapm XProofs.tla` proves.

## 1. Inventory

| part | state it keeps | operations | talks to | what is hard | what makes it right |
|---|---|---|---|---|---|
| Registry, `hygiea-core/src/app/registry.rs` | components in start order, `started`, a token and a task handle per component | `add`, hooks, `run` | components, Resources, OS signals | failures in any phase, a task that dies, signals at any time, timers that race answers | dependencies first, users closed before providers, nothing left open, the process ends |
| Resources, `app/resources.rs` | map from type and name to a value | `insert`, `get`, `require`, `remove` | every component | duplicate keys panic, a declared resource that is not there | declared resources are there when read |
| Live config source, `hygiea-db/src/live_config/source.rs` | store or worker handle, close token | `bind`, `bind_all`, `close`, `register` | worker over a channel | open races close; a dropped bind | after `close` nothing binds, one owner of the connection |
| Live config worker, `live_config/worker.rs`, `live_config/sqlx/*.rs` | revision and rows per namespace, bindings, timers, the notification listener | bind, poll, notification, reconnect, trim | the database, typed cells | lost notifications, reconnects, errors half way | readers see whole snapshots, never older ones, and the newest in the end |
| Live config handles, `live_config/handle.rs` | the version observed last | `read`, `view`, `changed`, `changed_by`, `on_change`, `on_change_by` | a watch channel, user callbacks | versions that are skipped or change back, dropped waits, the end of the source | no change is slept through, callbacks are called for changes only |
| Tables of the framework, `live_config/schema.rs`, `lock/table.rs` | the schema in the database | the check, the DDL under a lock | the database, other applications | applications that start at once, DDL half done | what is used is whole, what is there is left alone |
| DbComponent and pools, `hygiea-db/src/component.rs`, `config.rs`, `sqlx/pool`, `seaorm/pool` | pool, live config and lock client | startup, stop | Registry, databases | failure of a later part, connections lent out at the stop | what was opened gets closed, not before it is unused |
| TokioLock, `hygiea-core/src/lock/*.rs` | a map of keyed mutexes | `try_lock`, `lock`, guard drop | callers | clean-up of entries races new waiters, timeouts, lock order | mutual exclusion, no leaked entry, waiters served |
| Database locks, `hygiea-db/src/lock/**` | a pinned connection or a row per key | lock, try, unlock, drop | PostgreSQL, MySQL | cancellation half way, lost connections, pool reuse | exclusion, a connection never goes back to the pool with a lock on it |
| HTTP client, `hygiea-http-client` | attempts and deadlines of a request | send, retry, stream | network | retry after a partial body, one deadline per attempt, what may be logged | no blind repetition, every attempt logged once, no secret in a log |
| Mock HTTP server, `hygiea-test/src/http_mock` | routes, state, files, problems | `start`, answers, `update_state`, `set_file`, the check at drop | a test, HTTP clients | scripts that change the state while the test does, routes that overlap | routing does not depend on the order of loading, no failed answer is overlooked |
| HTTP and gRPC servers, Redis, AWS | listener, client | prepare, activate, startup, stop | Registry, libraries | which setting wins, what a client is told | every setting has its effect, one server task, no inner error leaves |
| Configuration, logging | process-wide subscriber | load, `init_tracing` | files, environment, arguments | precedence, a failure half way through the setup | nothing written is ignored, a failed setup can be repeated |
| Errors, codes, lock keys, redaction, dates, paging | none | pure functions and macros | | collisions, overflow, clock changes | different things stay different, what is written is read back |
| String, template, pattern, SeaORM wrappers, other macros, test support | none | | | the text itself | not modelled, see section 6 |

How they interact: `Registry::run` calls each component in turn with the shared
`Resources`; a component may hand back a background task. Two OS signals
and the exits of those tasks interrupt `run`. Inside the database component the
live-config source talks to one worker task over a command channel, the
worker to the database by queries, notifications and timers, and to the handles by a watch channel
per struct. Locks are used by whoever holds a pool; first binds and first string keys create tables.

`PROJECT.json` lists all parts, the ones not modelled too with the reason, and
under `hazards` the places where the code is hard to test.

## 2. Modules

| module | models | kind |
|---|---|---|
| `StartOrder` | `sort_by_dependencies`, `find_cycle` | state machine: one step per check and per turn of Kahn's loop |
| `Registry` | `run_until_shutdown`: start, hooks, activation, serving, closing, forced exit | state machine, extends `StartOrder` |
| `Lifecycle` | what the Registry promises its components | abstract specification |
| `RegistryLifecycle` | the mapping of `Registry` to `Lifecycle` | refinement |
| `LiveConfigSource` | `LiveConfigSource::{bind, close}` and the life of the worker task | state machine |
| `LiveConfig` | the worker, its database connection, the config table and its triggers | state machine |
| `LiveRegister` | what live config promises its readers | abstract specification, implemented by `LiveConfig` |
| `LiveHandles` | handles, views, waits and callback tasks over one watch channel | state machine |
| `DbTables` | how the tables of the live configuration and of the locks come to be | state machine |
| `DbStart` | startup and stop of database components in several applications | state machine, extends `DbTables` |
| `TokioLock` | `lock/tokio_lock.rs` with the guard of `lock/guard.rs` | state machine |
| `DbLock` | the locks of PostgreSQL and MySQL, their server and the pool below them | state machine |
| `DistributedLock` | what a database lock promises | abstract specification, implemented by `DbLock` |
| `HttpSend` | `RequestConfig::send`: the checks, the attempts, their records, the retry policy | state machine |
| `HttpMock` | cassettes, routing, handler chains, state, files and problems of the mock server | state machine |
| `DateTimes` | edges of days, weeks, months and years in UTC and local time, formats, ranges | pure |
| `DbSettings` | which database configurations are accepted and what pools they open | pure |
| `AppSettings` | files, environment, `--set`: which value wins, whose variable it is | pure |
| `LogSetup` | the setup of logging with what a failure leaves | pure |
| `Codes` | the enums of errors and locks, their macros and start-up checks, `err!`, an error's text | pure |
| `LockKeys` | numbers, pairs and names that locks are taken with, and their timeouts | pure |
| `Paging` | requests for pages, their limits and rows | pure |
| `Redaction` | the redact macro and the log mode of a thread | pure |
| `HttpMessages` | headers, bodies, previews, decoders and records of the HTTP client | pure |
| `Services` | Redis pools, S3 clients, the limits, answers and tasks of servers | pure |
| `RegistryProofs` (with those of `StartOrder`), `LiveConfigProofs` (`LiveConfig`, `LiveConfigSource`, `LiveHandles`), `TokioLockProofs`, `DatabaseProofs` (`DbLock`), `HttpProofs` (`HttpSend`, `HttpMock`), `DbStartProofs`, `CoreProofs` (`DateTimes`, `AppSettings`, `LogSetup`), `ValuesProofs` (the other pure modules, and all calls of `MC_Values`) | | proofs |
| `MC_*` | | instances for TLC |

### StartOrder

A component is its index in `reg`, the Vec before the sort, reduced to the kind
(Immediate or Deferred) and the two resource lists. `pending`, `ready` and `order` are
`pending_deps`, the BTreeSet and the `order` Vec of the function; `after` is
derived from `Deps`. The function is sequential: its steps are kept apart so that
the loop invariant is visible, not because anybody could interfere. `reg` is
chosen in `Init` from the constant `Registrations`, so one run covers all of them.

### Registry

`phase` says at which await of `run_until_shutdown` the program is; `pos` and
`started` are the loop counters, and `stage` what became of every component:

    added -> up -> active (Deferred only) -> draining -> stopping -> closed
          -> failed                          or timedout from draining and stopping

`handle` is `entry.handle.is_some()`, `task` the task behind it. A task may end
whenever it likes. `unread` holds the signals delivered and not received: a tokio
signal listener coalesces, so it is a set. `left` and `current` are the rest of the
`shutdown` loop. `startup` may put any part of what the component declares into the
map, return a task or not, and fail. Two futures under one `select!` are two
enabled actions. The message texts, `log_max_shutdown_time` and the component's
work are left out. A component's token is only cancelled by `shutdown`, which
makes it a function of `stage`.

### Lifecycle

Five steps of a component (`ComeUp`, `Serve`, `BeginClose`, `EndClose`) and two of the
application (`Finish`, `Kill`), with the conditions a component author relies on:
providers are up before an Immediate component's startup reads them; nobody
serves before all are up; one component at a time is closed, after all its users,
but a Deferred provider may go before its users; nothing comes up once
closing began. The mapping takes `timedout` for closed and `failed` for never up.

### LiveConfigSource

Who owns the `Store` (the pool of one connection): it lies in its slot, is being opened by
the first bind, belongs to the worker, is closed, or is lost because the caller dropped
the bind that was opening it. `cell` is the OnceCell with the command sender, whose permit
(`Permit`) lets one initialisation run at a time; `handle` and `cancelled` are the
other two fields of `Inner`. Every statement between two awaits that another thread can
see apart is an action: the worker already runs when its handle is put away
(`Spawn`, `KeepHandle`), `close()` takes the handle and the store one after the other,
and a turn of the worker polls the token (`FindsNotCancelled`) before it polls the channel
(`TakesBind`, `FindsNoBind`). How a bind is answered belongs to `LiveConfig`, here it is either way.

### LiveConfig

`revision` is the revision table, `link` the worker's connection, `inbox` the
notifications in flight on it, `pc`, `job` and `todo` the await the worker is at, `states`
the map of the same name, `view` what the struct behind each watch channel was made
of. The worker's loop is a biased `select!`: the token first, then commands, then
timers and notifications. Its abstractions:

* A value is known by its revision. The triggers add one per row, the model one per
  transaction; the worker only compares. Transactions that change several namespaces are one step.
* Whether a struct decodes is a relation, `Undecodable`, of struct, namespace and revision.
* Notifications arrive in any order. Losing them needs a connection that dies.
* sqlx reconnects inside `recv()`. Either the worker is told, or a timer or a command wins
  the `select!`, the future is dropped, and it never hears of it (`ReconnectUnnoticed`).
* Creating the tables is in `DbTables`; the history table's content, structs without namespaces and rows whose
  revision was deleted or restored from a backup are left out.
* `Commit` stops when the worker has ended, since then nobody can see it.

### LiveRegister

A struct appears, showing committed revisions that decode, none older than the bind;
later it may only move forward. Nothing is said of when.

### TokioLock

One caller makes one call at a time. What happens under the lock of a DashMap shard or in
the semaphore of a mutex is one step. `entries` is the table, `arc[c]` the clone of the
`Arc<Mutex>` that caller c owns, so that `Arc::strong_count` is one for the table and
one per caller; `ahead[c]` the callers in front of c in tokio's queue. tokio hands a mutex
on without freeing it (`granted`), and the new owner may be cancelled before it
notices. A new mutex is any unused one.

### DbLock and DistributedLock

Both backends are one machine, chosen in `Init`: PostgreSQL opens a transaction and asks
in it, MySQL asks with `GET_LOCK` and reads the answer from a session variable. A
session lives on the server (`alive`, `owner`, `want`, `dirty`), a connection on the
client (`client`): the server keeps a session, its lock and its waiting statement
until it notices that the client is gone, which a PostgreSQL session does not while it
waits. At every await the call may be dropped (`Cancel`) and every statement may fail
(`Fail`); then the connection is closed instead of given back. The server grants in any order.
The row table is in `DbTables`, keys and timeouts in `LockKeys`; a
statement that fails does so with the same effect whether or not the server carried it out.
`DistributedLock` allows a second holder of a key only when the connection of the
first is lost.

### HttpSend

One call of `send`, with up to `max_retries` further attempts. `pc` is the await it is at: the
headers, a body, the body of an error, or the policy. `fate` is what the network and
the server made of each attempt, which the client does not see and which goes on
after a timeout; `answered` are the attempts whose response it has read to the end. `style` is
the form in which an attempt logs, decided once before it is sent from the
client's shared debug switch and `enable_logging`, as `Decoder` and `DebugCtx` do. A request may have
problems; dispatch returns the first one it meets, and the ones in what only
debug records show matter only while debugging. `failure` is the `FailStage`. A
stream is handed over when the headers are there. Its abstractions:

* The policy is arbitrary: it stops or goes on with any request, as `Retry::retry` may
  change it. A `careful` one stops when the stage is `Transport`.
* Redirects, and the repetitions reqwest makes of requests the server refused to
  handle, belong to the attempt.
* Contents of requests, responses and records are left out, so is what the caller does with
  a `BodyStream` it was handed. A preview that cannot be made (`PreviewFailed`) is kept, since it
  decides what is returned.

### LiveHandles

The channel is its newest version; every handle knows the version it observed last. `base`
and `told` are history: what the caller knows, and what a callback was given. A configuration is a record of
two switches, a view the set of fields that its projections leave visible, so `LiveRef`,
`Snapshot` and `Mapped` are that projection. `changed_by` compares before it waits and again
after each wake-up, which is why its round is two actions. A panic of a callback is caught and
changes nothing.

### DbTables and DbStart

`db` has, for the tables of the live configuration and for the lock table, the parts that are
there and whether they are as the code expects. Every query is an action, so that other applications get in
between: SQLite asks for one table after the other, the others ask once for columns and once
for triggers and functions. PostgreSQL and SQLite create everything in one transaction, MySQL
statement by statement. Any query may fail, also the commit whose answer is lost.
`DbStart` adds the component above: `from_config` in its order, what it closes when a later part
fails, binds and keys that create tables while it serves, guards that hold connections,
and the three closes of `stop`. Names, columns and types of the schema are left out.

### HttpMock

A cassette is a sequence of routes; `Start` checks and registers them or refuses all. A
request is matched by the routes in their order, and each handler of the chain is an action, so
that the test's changes get in between. Templates are the sets of paths they match, scripts
records of what they do, the state the set of updates it shows (`kept` is the history it is compared
with), a file path its parts. The check at drop waits for no request: one that is being answered then, asleep or in
a script, goes on, and `checked` remembers which requests had been answered (`DropTells`).

### The pure modules

Each is a handful of operators and one predicate per question, over all small arguments. Two
conventions run through them: a value that may be missing or refused is a set with one element or
none, and a text is a set or a sequence of the pieces that matter (a secret, a newline, a digit).

* `DateTimes` has the calendar of the `time` crate with all its years, in ticks of which there are few per day; a zone is its
  clock changes, and a reading of a clock the set of instants that show it.
* `DbSettings`, `AppSettings`, `LogSetup`: settings are functions of a few items. Parsing of
  TOML, URLs and arguments is the libraries'; the options a driver is given unseen are left out. Settings that the code accepts and nobody
  reads have their place, and `EverythingUsed`, `LogsKept` and those of `Services` say which they are. A log file is opened when its appender is built
  (`FilesOpened`); which of a layer's own old files that removes is the library's.
* `Codes`: digits instead of strings. What does not compile, and a program that does not start, is the empty set. A linked
  slice has no order, so its entries have the place of their enum and variant.
* `LockKeys`: integers of `Ints` values and those of twice as many bits; `Ints` stands for 2^32. MySQL tells names apart but for their case (`Fold`). That two hashed keys collide by chance is left out.
* `Paging`: page numbers up to `MaxPage` and offsets up to `MaxOffset`, both small in the run and met by its totals.
* `Redaction`: a path of nested fields with their serde attributes, and a trace of writes that
  begin, return or panic on one thread.
* `HttpMessages`: a record or an error is the set of what can be read in it.
* `Services`: a configuration has the settings that its server or pool does not read too. The libraries do the rest; the Registry sees the components as
  Immediate or Deferred ones of any behaviour.

## 3. Runs

| run | question | bounds |
|---|---|---|
| `start_order` | is every order the sort returns a start order that keeps the order of `add` (`StableStartOrder`), every cycle real (`CycleIsReal`, `ReportedCycleIsCycle`), and is there always an answer (`SortDecides`)? | all graphs of 3 components of both kinds with up to 3 dependencies each, all graphs of 4 Immediate components with at most one each (every cycle length with and without a tail), pairs with duplicate, repeated and missing resources: 6322 registrations |
| `registry` | does any failure, signal, dead task or timeout break the closing order (`ClosedInOrder`), take a resource from its reader (`ResourcesAreThere`), leave something up (`NothingLeftRunning`), keep the process alive (`ProcessEnds`), or break `Lifecycle` (`ImplementsLifecycle`)? | six applications of up to 3 components (a chain of pools under a server, two servers, two resources of one component, a cycle, a Deferred provider, none), two signal kinds sent at most twice (`MaxSignals`), a delay |
| `live_config` | does what is bound follow the worker's state (`BoundFollowsState`), do readers see whole, decodable, never older versions (`ReadersSeeRegister`) and the newest in the end (`Converges`), whatever is lost? does the worker always answer and end (`BindsAndCloseEnd`)? | a struct on one namespace and one on two; three changes (`MaxRevision`), one of them bad for each struct; one failure (`MaxFaults`), in both modes (pushed and polled) |
| `live_config_source` | do concurrent binds and `close()` share one connection (`OneOwner`), is it closed for callers from then on, but for the turn the worker is in, and not before (`ClosedMeansClosed`), and does every call end (`CallsEnd`)? | three binds, one `close()` |
| `live_handles` | is no change slept through (`NothingMissed`), is every call back for a change (`CallbacksChange`), and does everything end with the source (`WaitsEnd`)? | a user's handle and a task, two fields of which at most one is on, four versions (`MaxVersions`): one that is observed, one that is skipped, one that changes back |
| `tokio_lock` | is there one owner (`Exclusion`), are waiters served (`WaitersServed`), is the table cleaned but for refused calls (`OnlyRefusedLeaveEntries`)? | three callers, two keys, three mutexes; any number of calls |
| `db_lock` | does a lock hold as long as its connection (`ImplementsLock`), is the pool never given a dirty connection (`CleanPool`), and does everything end (`LocksAndPoolEnd`)? | two callers, one key, three sessions, a pool of two; any number of calls and failures |
| `http_send` | may a careful policy repeat what may have been done (`NoBlindRepeat`)? is it asked as often as it should (`RetriesUsed`)? is every attempt logged once, in one form (`RecordsTell`)? does a timeout end the call (`SendEnds`)? | one call, two retries (`MaxRetries`); requests without a problem, logged or not, with one, with one that only debugging shows, with two |
| `http_mock` | does what start checked stay true (`StartChecksHold`)? is a failed answer given before the check ever overlooked (`DropTells`), an update ever lost (`NoUpdateLost`)? | 21 cassettes of up to three routes, three requests, two changes by the test |
| `db_start` | is what is used whole (`ReadyIsWhole`), what is there left alone and refused only when broken (`SchemasRespected`)? do pools live as long as they are used (`PoolsFollowUse`), do starts and stops end (`StartsAndStopsEnd`)? | two applications on each of the three engines; DDL of two statements, the first of which creates a table; schemas that are missing, whole, foreign, unfit or half built, of one kind at a time |
| `db_start_race` | is a first bind only refused for tables that are broken (`OnlyBrokenRefused`)? | as `db_start`; violated, see below |
| `values` | are dates (`DatesRight`), settings (`SettingsMatter`), names and numbers (`ValuesExact`) and logs (`NothingLeaks`) right, for every call of the pure parts with small arguments? | one call per behaviour; the arguments are listed in `MC_Values`, with the edges of each range and at least two of whatever could be confused |

The pure modules share one run, since a behaviour of theirs is one call: one invariant per
question, each a conjunction of the modules' own predicates.

Three components suffice for every relation the closing order depends on (a
user, its provider, and one of the other kind between them); a third signal
finds a process that the second one could already kill. Two structs that share a
namespace are the smallest case in which one follows a change and the other
does not; the second change of the shared namespace shows how a struct recovers from the bad one,
and one failure is one lost batch of notifications or one broken query at any
point. Three callers are one that leaves, one that comes and one that waits; a
second key shows that a mutex is not shared. In `db_lock` a caller can drop a call
and start the next while the server still has the first, hence more sessions than
connections. Two retries are one that is the last and one that is not. In `db_start` two
statements are the fewest that can be half done, and two applications the fewest that can
meet; the proofs cover any number of both. `CHECK_DEADLOCK FALSE`
is set where the program really stops: `run` returns, the process exits, the call is over.

### Fairness

`Registry`: `FairSpec` assumes that a step of `run` that stays possible is taken, since the
runtime polls it; timers fire. `startup`, `prepare`, `activate` and the hooks are
assumed to return, because the code gives them no timeout and does not listen to signals while they
run. Nothing is assumed of tasks, of `stop()` or of signals: that
the process ends although those hang is what the run shows.

`LiveConfig`: the worker is polled and queries return (`Busy`, `Exit`), the poll timer ticks, and a
command is taken because the channel is a queue that the `select!` looks at first
(strong fairness of `TakeBind`: between two turns of the loop a command can be
overtaken, but not for ever). Nothing is assumed of notifications, and nothing of
the database: where it matters, the property says so (`DatabaseAnswers`), and
`Converges` speaks of the time after changes, failures and binds ended.
`LiveConfigSource`: tasks are polled and database calls return. `LiveHandles`: a task that was
woken is polled; user code calls, waits and cancels as it likes. `TokioLock`: a future is polled until it ends or is
dropped; no timeout has to come, and `WaitersServed` has the premise that holders
let go. `DbLock`: statements have an outcome, the server grants what is free and sees
closed connections; that guards are let go is a premise again. `DbStart`: tasks are polled, queries return
or fail, and whoever waits for the DDL lock is served, since the three servers queue those who
wait (strong fairness of `Ensure`: others may take it in between); guards are let go. `HttpSend`: the call is polled and the
policy returns. The network owes nothing, but a timeout that is configured
is over some time; without one a send may hang for ever, and nothing is said of it.

## 4. What the checks found

### The violated run

`db_start_race`: PostgreSQL's first check reads the columns in one query and the
functions and triggers in another, before the DDL lock and outside a transaction
(`postgres.rs:206-215`). An application that commits its DDL in between makes the first bind of
another one fail with `LiveConfigSchemaMismatch`, although the tables are whole; `schema.rs:10`
says that tables which are all there are used. SQLite has the same gap between the queries for its tables
(`sqlite.rs:88`), MySQL looks again under the lock first (`mysql.rs:98`). `SchemasRespected` says what remains true:
who holds the lock, or reads MySQL or the lock table, is refused for a broken schema only.

### Behaviour that is modelled as it is

These follow from the code, and the properties allow exactly them:

* A signal that arrives while components start is kept. If a startup, a hook or an activation then
  fails, closing finds the unread signal at once and may exit with 130 although
  no component was closed (`registry.rs:555`). The comments speak of a further signal during closing.
* Deferred components close first. One that provides a resource is closed before an Immediate
  component that depends on it (`registry.rs:512`); `ClosedInOrder` therefore speaks of Immediate providers.
* While the first bind connects, `close()` finds neither a handle nor a store and returns
  (`source.rs:84-101`); the bind then starts a worker with an open pool, which sees the
  token after `close()` has returned. A first bind that is dropped while it connects loses the
  Store, and later binds report a closed source (`ClosedMeansClosed` names that case).
* The worker's `select!` polls the token and then the channel (`worker.rs:140-146`). A `close()` and a bind called after it fit between the
  two on other threads: that one bind is carried out and answered, also after `close()` has returned if the handle
  was not put away yet, where `source.rs:84` says that binds report a closed source from then on (`LateBindsFail` allows one).
* The check of a mock server that is dropped (`http_mock/mod.rs:749`) waits for no request. A handler that sleeps for its `delay_ms`
  or runs a script at that time may fail afterwards, and nobody is told (`DropTells` allows exactly those requests, and later ones).
* A refused `try_lock` owns a clone of the mutex for a moment. If the holder cleans up
  then, the entry stays until the key is used again (`tokio_lock.rs:30-39`).
* A setup of the logs opens all files before it installs anything (`log.rs:300-310`, `340`). When one cannot be opened, or somebody else has installed
  a logger, the new directories go, but in those that were there the files stay, and so does what the appenders removed
  of their own old ones. A directory whose creation fails half way leaves those above it, and `LogTracer` stays when another subscriber is found installed.
* Settings that are accepted and make no difference: the reserved ones of the HTTP server (`axum_server.rs:17-28`, `51`; `axum.toml` says so), the
  database of a Redis cluster (`fred_pool.rs:238`), and the prefix of the locks' table when that is not built in (`lock/mod.rs:109`).
* A range by the system's clocks is not written, and not read, when one of its ends is nearer to the years -9999 and 9999 than the zone's offset
  (`local.rs:75-83`): `to_local` fails.
* A page is a u32 (`page.rs:42`). Pages behind the last that can be asked for are counted by `total_pages` all the same.
* MySQL compares the names of its locks without case: two keys that differ in case only are one lock there, and two in PostgreSQL (`SameButCase`).
* `AxumServer::activate` uses up the router also when it is called before `prepare`; the Registry never does that.
* `__` separates the levels of a variable's name, so applications whose names
  contain it may read each other's variables (`EnvironmentsApart` speaks of plain names).
* Offsets with seconds (local mean times) lose them when a date is written with an offset.

### Where documents and code differ

* `http_mock/mod.rs:70` says that a request which fails a further condition of its route is answered like one without a route;
  a template route that matches it as well answers instead. `set_file` takes its path as it is given, while all other
  paths are made keys first, so a file set under `./a` is not found.
* `lock/mod.rs:98` says that any item of an override opens a pool for the locks; in
  `lock/sqlx/postgres.rs:66` a table prefix alone does not.
* The comment in `text.rs` calls `to_one_line` the last step of all log previews; the preview of a
  multipart body keeps the names of its parts and files as they are (`body.rs:294`). `TextsRight` allows exactly these to break a record's line.
* `log.rs:354` says that the file names of two layers in one directory must not overlap; `name_matches` compares prefixes and suffixes one by one
  (`log.rs:386`), while files are named by both and the date. Layers with prefix and suffix `app`, `error.log` and `app.error`, `log`, without rolling (the
  default), are both set up and both write `app.error.log`; one with the prefix `20` cleans up the files of one without a prefix, whose names begin with the date;
  and one without both those of a layer whose prefix is a date. `LogsKept` names these cases (`Mistaken`) and says that there are no others; the run's layers meet them.
* `redis.toml` explains a timeout of 0 as no timeout; the code leaves the library's
  default in place for connecting (`fred_pool.rs:257`).
* `axum.toml:29-32` says that limits are not set by default and shows a `max_body_size` of 10 MB. axum's own limit of 2 MB
  for the bodies its extractors read stays in force under the layer (`axum_server.rs:350`), so a handler of `arity1` answers
  413 from there on (`ExtractorLimit` in `Services`).

## 5. Proofs

TLAPS proves what follows for every value of the constants. The only assumptions are those the modules state with
`ASSUME`: types (`RegistrationsAssumption`, `RegistryAssumption`, `TokioLockAssumption`, `HttpSendAssumption`, `DdlAssumption`,
`ConfigAssumption`, `LiveConfigAssumption`, `MockAssumption`), and names that differ: the marks for "no key", "no session" and the like are none
of the keys or sessions (`TokioLockAssumption`, `DbLockAssumption`, `CallerAssumption`, in `DbLock` also that no caller is called
"idle" or "gone", which `client` says of connections that nobody has), and a task is no handle of the user (`HandlesAssumption`).
The pure modules assume that a minute is of whole seconds and so on (`TicksAssumption`), that there is a date (`DatesAssumption`),
that known keys are not empty, in lower case and have no equals sign (`KeysAssumption`: they are names of fields), that the integers are of an even
size and the largest timeout, the largest page and offset and axum's own limit natural numbers (`NumbersAssumption`), that newline and return are control characters that nobody marks,
and no other of the pieces of the calls is one (`PiecesAssumption`), and that taking the case away from the first part of a key does not make it a mark
of the numbers (`NoCaseAssumption`: it is digits). What else a theorem about them needs is in its statement. No assumption is about a property, and the instances for TLC satisfy them all.

* `RegistryProofs`, the start order: the invariant `SortInv` joins the counters' meaning
  (`PendingCountsUnplaced`), the order built so far being duplicate-free and closed
  under dependencies, and its length when the sort ends. `SortedCorrect` needs a
  counting argument: an injective order as long as `reg` contains everybody.
  `CycleCorrect` takes all unplaced components as the set that waits on itself.
  `ReportedCycleCorrect` is about the walk of `find_cycle`, a recursive function: every step of it goes to an unplaced
  component that the last one needs (`WalkSteps`), and since there are finitely many it comes back to one it has seen
  (`WalkReturns`); what lies between the two visits is the cycle. Its induction runs over sets: the least natural number
  that is not in a set (`MinProperties`, `SetInduction`, `Iteration`).
* `RegistryProofs`, run: the invariant `RInv` says for each phase which positions of the
  start order are in which stage. While going forward the first `started`
  positions are up and the rest added; while closing, the positions in `left` are
  still up and everything closed comes before them in closing order. `ClosedInOrderCorrect`
  needs it: the property is not inductive, as nothing in it says that the user comes before the
  provider in what is left. `ResourcesAreThereCorrect` and `NothingLeftRunningCorrect` follow from it too.
  `ImplementsLifecycleCorrect` shows that every step is one of `Lifecycle` or a stutter. It adds one invariant, `ServesInTurn`: nobody
  serves before its turn, so that a component that comes up meets nobody who serves, and one that is activated only
  components that are up.
* `LiveConfigProofs`: `BoundFollowsStateCorrect` and the refinement `ReadersSeeRegisterCorrect`, from the invariant `CInv`. It adds
  that the worker is at one bind (`JobFits`), that what it knows was committed (`StatesCommitted`), that a namespace of a struct that
  is handed out stays in effect (`BoundInEffect`, without which its changes would be loaded and not published), that nothing is shown
  that the worker does not know (`ViewsCommitted`), and what the bind it is at has loaded since it was asked for (`LoadedSinceAsked`,
  which is why a bind never hands out a struct older than itself).
* `LiveConfigProofs`, the source: `OneOwnerCorrect` and `ClosedMeansClosedCorrect` from the invariant `SInv`: one initialisation at a time
  (`OneInit`), where the store is (`StorePlace`), who has started a worker (`WorkerKnown`), that the worker and the store only
  end by `close()` (`ClosedByClose`), that a call made after it never gets as far as the store (`LateStayOut`), and that a worker which answered one
  has its turn behind it (`LateTurn`), so that it finds the token cancelled before it could take another.
* `LiveConfigProofs`, the handles: `NothingMissedCorrect` and `CallbacksChangeCorrect` from the invariant `HandlesInv`. Both speak of a handle that waits or
  calls back, and the invariant of all modes before that: a handle that has the newest number has the newest value (`UpToDate`); what was returned last is
  what was observed last, or shows the same in the fields that are compared (`BaseIsSeen`); the same of what a task
  told its callback, and the opposite when it is about to call it (`ToldIsSeen`).
* `TokioLockProofs`: `OneMutexCorrect` and `ExclusionCorrect` from the invariant `TInv`: every call
  that is under way has its clone (`ArcWhileInside`), a mutex has one owner
  (`OneOwner`), and those who wait for it are ordered (`QueueIsOrdered`). The queue
  belongs to it although the theorems do not speak of it, as a mutex that is let
  go has its next owner at once: there must be no two who are first.
  `OnlyRefusedLeaveEntriesCorrect` is inductive together with it: that `remove_unused` leaves an entry means that somebody still has a clone, who uses the key.
* `DatabaseProofs`, the locks: `CleanPoolCorrect` and the refinement `ImplementsLockCorrect` from the invariant `LInv`: a connection has one user (`OneUser`), the server keeps
  nothing for a dead session (`DeadAreClean`), a lock has one session (`LocksExclude`), and what the session of a call has at each
  of its awaits (`SessionsFollowCalls`). In the refinement the step that reads the server's answer acquires, and
  those who hold the same key then must have lost their session; a session that dies is `Lose`; all other steps are stutters.
* `HttpProofs`, the client: `NoBlindRepeatCorrect` and `RetriesUsedCorrect` from the invariant `HInv`. It
  adds where the knowledge of the client comes from: only a response to a handled request is
  read (`ReadingHandled`), the policy is asked about an attempt that was answered unless the
  stage is `Transport` (`JudgingAnswered`), and what was answered stays so (`AnsweredBehind`).
  `RecordsTellCorrect` adds which attempts were sent, and that a call knows of a failure exactly when an attempt is over (`SentInOrder`).
* `HttpProofs`, the mock server: `StartChecksHoldCorrect`, `DropTellsCorrect` and `NoUpdateLostCorrect`. Every route has its place in the
  sorted order, and every place one route (`PlacesTaken`, an injection of a finite set into itself), so the registered routes are those that were loaded,
  the literal ones first (`RegisteredRoutes`). Of those that match a request at most one is literal and one a template, as two would have been a
  conflict; the first is the literal one if there is one (`RouteChosen`). The invariant `MockInv` adds that the files only grow, so what
  start checked stays true of the files that are there (`RoutesChecked`), that a request that is being answered has one of the registered routes
  (`RequestInPlace`), that what the mock answered by itself is still among the problems (`WrongIsTold`), and that a request it is answering
  after it was dropped is one of those that had not been answered then (`DroppedKnew`).
* `DbStartProofs`: `ReadyIsWholeCorrect` and `SchemasRespectedCorrect`, for any number of
  applications, statements and tables and any schema that is found. The tables' steps alone
  keep the invariant `DInv`, and the component only takes these steps or leaves the tables
  alone (`TablesImplemented`: `Spec => SpecTables`). `DInv` adds that DDL runs inside the locked section (`LockedSection`), that a builder has
  made all that is there and is not through with it (`BuildersOwn`: therefore it never touches a schema that
  somebody was told is ready), and that what was seen is still there (`SeenIsThere`). A half-built schema that MySQL
  shows to somebody without the lock is the reason why the second theorem has its premise.
  `PoolsFollowUseCorrect` rests on an invariant of each application, `PoolsFit`: closing asks what was built, so a pool that is open has to be one that a later step
  finds there (`OpenIsClosed`), and the locks are only handed out over a pool that was opened before (`LockIsServed`).

* `CoreProofs`, dates: `EdgesRightCorrect`, `LocalRightCorrect` and `RangesRightCorrect`, for
  all days of the calendar, zones whose offsets are whole minutes (only those are written) and lengths of a tick; at the ends of the calendar, what fails
  is what the code refuses there. The calendar needs lemmas of its own: what a leap
  year adds (`NextNewYear`), that years and months follow each other (`NewYearGrows`, `MonthsInOrder`), and that every day is in one of each (`YearOf`,
  `MonthOf`), which is what `CHOOSE` in `Year` and `FirstOfMonth` finds; that a month is 28 to 31 days long puts the first plus 31 days into the next one (`AfterMonth`).
  In a zone, a reading that is shown once is on the side of the instant that its clocks say (`SureOrder`).
* `CoreProofs`, settings: `SettingsWinCorrect` for any files, `--set` arguments and variables over any alphabet. The merged settings are those of the last source that has
  the key (`MergedIs`), a `--set` argument is split at its first equals sign (`OverrideOf`), and a key is looked for in the same order as `SettingsWin` lists its sources.
  `EnvironmentsApartCorrect` is about the place of the two underscores that end an application's name in a variable's: plain names have none before.
* `CoreProofs`, logs: `LogsKeptCorrect` for any layers, names and directories (`LogInput`): a state of making directories has those that were there and those that
  were made, and every directory that was made lies under one that was noted (`MakeAllKeeps`), so that removing these leaves what was there
  (`RemovedAgain`). A file that another layer cleans up begins with both prefixes, so that one of them goes on
  in the other; as the pair was not refused, it is the wrong one, and goes past a full stop or the empty prefix (`FilesApart`); the same for suffixes.
* `ValuesProofs`, names and numbers: `ValuesExactCorrect` for the run's calls, from a theorem about each predicate. `NumbersApartCorrect`
  for integers of any even size, `TimeoutsExactCorrect` for every duration, `LocksApartCorrect` for every number and any set of
  key texts that do not begin with `i64:` or `i32:` (the code has them begin with nine digits, `sql/mysql/lock.rs`:45), any two that are one to MySQL excepted, `PagesPartitionCorrect`
  for every number of rows and size, up to the largest page (`Multiples`, and what the rounded-up quotient is, `PageCount`), `TablesApartCorrect` for any names, and
  `CodesApartCorrect` for any program: what is registered has the length of its kind (`Expanded`, `LinkedCodes`), so errors and locks
  cannot meet, the checks before `main` keep those of one kind apart, and a key's text begins with its code (`HeadOfConcat`).
* `ValuesProofs`, dates and settings: `DatesRightCorrect` and `SettingsMatterCorrect` for the run's calls, from the theorems of `CoreProofs` and, for databases,
  `EverythingUsedCorrect` (any engine, framework and combination of settings that can be written, `IsWritten`), for Redis, S3 and servers one theorem each. Each says what makes a
  difference and what does not: two configurations of a Redis pool or a server give the same exactly when they agree on the settings that are read (`PoolsAsWritten`, `ServersAsWritten`).
* `ValuesProofs`, logs and errors: `NothingLeaksCorrect` for the run's calls, from a theorem for each kind of text:
    * `OnlyLogsRedactedCorrect`: the depth of previews is the number of those that have begun and not ended, also when one panics
      (`NestedEvents` are the traces that a thread can have: what ends has begun), so the mode of the log is on exactly within one.
    * `MessagesRightCorrect`, and `AnswersHideCorrect` for what a server answers.
    * `HeadersRightCorrect`: what a map of headers has after inserts and appends, from any number of parts.
    * `TextsRightCorrect`: what is shown of a call (`CallShown`) and of a response (`ResponseShown`) comes from parts that may be shown. A record is a set of
      pieces, so the theorem needs that a piece tells where it comes from (`TextsApart`: nobody writes a secret into a name or an address as well), and that
      control characters are in raw bodies, parts and files, credentials and responses only (`TextsLegal`: addresses, JSON and forms are encoded, header values are
      checked). The names of a multipart body's parts and files may have any; the preview shows them as they are, and so the theorem says that a record
      has no control character but theirs.
    * `ConfigHidesCorrect` for clients' configurations, `WriteRightCorrect` for bodies that are streamed.

Every property of a passing run that is an invariant, an action property or a refinement is proved. Only model-checked is
liveness, which TLAPS does not cover: `ProcessEnds`, `Converges`, `BindsAndCloseEnd`, `CallsEnd`, `WaitsEnd`,
`WaitersServed`, `LocksAndPoolEnd`, `SendEnds`, `StartsAndStopsEnd` and `SortDecides`.

## 6. Not modelled

* SeaORM's wrappers: a transaction that commits or rolls back with the result of a closure, one branch each.
* `string`, `template` and `pattern`: what they compute is the text itself, character by
  character, which the models take as given.
* The web socket client: no decisions of its own.
* The macros of components and live configuration: code generated at compile time that calls
  what is modelled; the macros that decide something (errors, lock keys, redaction) are in `Codes` and `Redaction`.
* Containers, test tiers and the scripted server: used by tests only.
* Of what is modelled: typed access and downcasting of `Resources`; the history table of the live configuration
  and structs without namespaces; `poll_until` of the locks, which no backend uses; the caller's
  use of a `BodyStream`; TLS files; the libraries (tokio, sqlx, reqwest, httpmock, fred, the AWS SDK, time), which
  are modelled from how they are used.

Hazards without a property: `startup` and the hooks are awaited without a timeout or a look at signals
(`registry.rs:383`), a query of the live configuration's worker that hangs keeps `close()` waiting (`worker.rs:158`),
and locks held and waited for take a connection each, so that holders that need the same pool can wait for each
other (`lock/mod.rs:39`). In each the code sets no bound; the fairness above assumes that these calls return.

## 7. Plan

Everything in the first five sections is done. What would come next is in section 6: typed access to `Resources`, structs without namespaces,
and rows that a backup brings back.
