# TLA+ models of dataspan (lowcode-wrapper)

dataspan is a Go server that gives heterogeneous backends (PostgreSQL, MySQL,
MongoDB, Redis, S3, files, HTTP APIs, SaaS) one PostgREST-like data API. An
operator registers *servers*, *tables* and *functions*; a request names a table,
the engine resolves it in a metadata store, takes a remote driver out of a pool
and runs the operation. This directory models the parts of it in which order,
concurrency and failure matter, checks them with TLC and proves part of it with
TLAPS. Paths below are relative to `src/`.

## 1. Inventory

| Part | State | Operations | Meets |
|---|---|---|---|
| driver pool, `internal/engine/driver_pool.go` | `items`: server ID to driver and configuration fingerprint, under a mutex | `Get` (two critical sections around an unlocked `create`), `Close` | every data request, through `Engine.DriverFor` |
| circuit breaker, `internal/observability/middleware.go` | `failures`, `open`, `until`, under a mutex; one for the process | `Allow`, `Success`, `Fail` | the pool's `create` closure |
| engine, `internal/engine/engine.go` | the three above and below, no state of its own | `DriverFor`, resolution, data operations, RPC | store, pool, breaker, drivers |
| metadata cache, `internal/engine/meta_cache.go` | revision, two maps of entries with an expiry | `syncRevision`, `get*`, `put*` | store, before every data request |
| file store, `internal/store/file/` | snapshot `data` under a mutex, `drivers.yaml` or a directory of YAML | `New`/`load`, mutations, `ImportDeclarative` in two modes, `persistLocked` | CLI import, programs that embed it, engine |
| declarative document, `declarative.go`, `bridge.go`, `internal/importer/merge.go` | none | compile, decompile, merge, the bridges between two document types | file store, db store's import and export |
| db store, `internal/store/db/` | rows of five tables in SQL | CRUD, `ResolveTable`, import and export | admin API, engine |
| importer converters, `internal/importer/{sql,openapi}.go` | none | SQL DDL and OpenAPI to a document | CLI, admin import |
| drivers, `internal/driver/*` | connection or client of a library | select, insert, update, delete, upsert, count, invoke | engine |
| PostgREST query, `internal/postgrest/` | none | parse, match, range, errors, OpenAPI text | data API, drivers that filter in memory |
| admin API, `internal/api/admin/` | none | one handler per store operation; 405 on writes in file mode | store |
| data API, `internal/api/rest/` | none | select, insert (single and bulk), update, delete, RPC | engine |
| authentication, `internal/auth/`, `internal/api/auth.go` | keys read at start | checks, encryption of credentials | both APIs, db store |
| plumbing: `httpx`, `logx`, metrics, `cliapp`, `gentypes`, `cmd` | none that matters | | |

How they interact: a data request runs (1) `Timeout` middleware, (2) cache or
store resolution, (3) `DriverFor`: pool lookup, on a miss breaker and dial, then
install, (4) the driver's operation. Admin writes change the store at any moment
and tell neither pool nor cache: both find out from fingerprints and revisions on
the next request. The CLI writes the file store directly.

What is hard: the window between the pool's two critical sections; drivers
replaced while in use; dials that end after the breaker changed state; the cache's
revision made of three unlocked queries and a put that comes after somebody
else's invalidation; the file store's failing writes, crashes, unlocked merge
import and the round trip through the file; in the db store, read-modify-write
and lookups outside transactions; on the data path, writes of several calls,
replies that are lost, and six translations of one query language.
`PROJECT.json` lists each as a hazard with its line and the properties that watch
it, or the reason none does.

What makes each part correct:

- pool: no connection lost, none served after its close, each request on the
  configuration it resolved, connections bounded;
- breaker: flag and counter agree, failures bounded, cooldown kept, always
  recovers;
- engine: uses pool and breaker only as they promise, no request hangs, an outage
  does not stick;
- cache: never older than the last covered write, and stale only for a while;
- file store: references resolve, acknowledged changes survive, a merge changes
  what it was given only;
- db store: references resolve where the database enforces them, nothing
  acknowledged is lost, no request revives a row, a merge keeps what it was not
  given;
- data path: an answer is the rows the query means, a write leaves each row as it
  was or as its query means, a partial one is predictable, and only the rows a
  request names are touched.

## 2. Modules

**DriverLifecycle** is what the pool promises, without locks or requests: each
driver is opened once, then published as *the* driver of its server or discarded;
a published one is closed when it is replaced or the pool shuts down.

**DriverPool** is `driverPool`. `items` is the map; a fingerprint
(`driverConfigVersion`) is a version number of the server, which is right as long
as different configurations have different fingerprints. Each critical section is
one action, split by outcome: `LookupHit`, `LookupMiss`, `InstallLose` (close our
driver, use the pooled one), `InstallWin` (close what was there, install ours);
`CreateOK` and `CreateErr` are the unlocked `create`. `Begin` lets a request arrive
with any version up to the current one, since the row it resolved may be old.
`born`, `closed` and `built` are what the remote end sees. `Close` is
`Engine.Close`; the server's `main` never calls it, programs that embed the engine
may.

**Breaker** is the circuit breaker. The clock is the distance to the deadline,
so no state counts absolute time. `call` says where a caller is between `Allow` and
its report, since that is where reports arrive late.

**Engine** is `DriverFor` and everything that runs inside it, written once more
from the code and in smaller steps: the pool's mutex is a lock that is taken
(`Lock`) and released (`Leave`), a critical section is several steps (`Lose`,
`TakePooled`; `Win`, `Put`), `driver.Close` is one of them and may wait until nobody
uses the driver, and a dial is apart from its report to the breaker. It shares no
action with DriverPool or Breaker; that it behaves as both is stated by refinement
mappings (`PoolBehaviour`, `BreakerBehaviour`): a critical section happens when its
outcome is settled, and a request owes the breaker a report from `Allow` on.

**MetaCache** is the cache with the requests and the admin writes around it.
`srv`, `id` and `body` are stamps of the three kinds of data: what the revision
hashes of servers, of tables and functions, and what it does not hash. A request
walks through three list queries, the locked clear, the lookup, and on a miss two
queries and a put, one action each. `floor` is a history variable: what the request
would have read without a cache when it arrived. An entry's `own` is another: it
was put under the revision its value belongs to.

**Declarative** has the file's document and the store's snapshot as records of
partial functions over names, and `Compile`, `Decompile`, `Merge`, `ToImporter` as
operators. Names stand for rows (the code checks that they are unique); UUIDs, new
at each load, are left out; columns, options and remote names are the *body* of an
object. `Expand` is the `${VAR}` expansion: it runs on every load, so a
placeholder in the file is replaced by the secret it stood for at the first write.

**FileStore** is the store over that. `Mutate` is `withLock`: the change in memory,
then the write, which succeeds, fails cleanly, or fails leaving a temporary file.
In the last two cases the caller gets an error and the snapshot keeps the change, as
in the code. A write that the process's death cuts off at its rename leaves the same
files as the third case. `Init` is `New` in each of the directories it may find, one with
the temporary file of an earlier `New` included. `Restart` is a crash at any moment followed by `New`. Merge import is
three actions, since it reads the snapshot without the mutex (a read that races
with writers; tables and functions may be from a later state than servers and
credentials), computes, and installs. `acked` is a history variable. In file mode
the admin API refuses writes, so in a deployment mutations come from `import` and
from embedding programs.

**DbStore** is `internal/store/db` behind the admin API, the database shared by
every replica. An action is one query or one transaction, but for the export of a
merge: a list with its preloaded rows, all the credentials, and all the columns are one
action each. Rows are kept by name,
and an ID is a name with a generation that no two writes share (a UUID). `fk` says whether the database enforces foreign keys
(SQLite does not). Requests of several steps hold what they read in `local`:
`ReadServer`, `WriteServer` (all columns) against `ReadObject`, `WriteObject` (the
columns of the request); `CreateServerInline`, which stores the credential a new
server comes with, and `RefuseInline`, which then returns the error;
`LookupServer`, `InsertObject`; `CheckTable`,
`InsertColumn`; and merge import as `ExportServers` (list servers), `ExportTables`,
`ExportFunctions`, `ExportSecrets` (resolve credentials), `ExportColumns`,
`ApplyMerge` (merge, compile, and one transaction that deletes and rewrites
everything). `quiet`, `acked` and `overlapped` are history variables.

**RemoteTable** is constant-level: `ParseQuery`, the mapping of names, and for each
of postgres, mysql, mongo, redis, http and file which rows a query selects and what
Select, Count, Insert, Upsert, Update and Delete do to a remote table, a function
from keys to rows. The differences between the drivers are kept: which operators
and groups they carry out, SQL's NULL against a missing field, what their counts
count, who overwrites a duplicate. A Select gives the *set* of its answers, since
the order of a page without `order=` is the server's.

**DataApi** is one data request over it, from the handler to the answer: `Arrive`,
then one action per driver call (`SelectRows`, `CountRows`, `InsertRow` for each row
of a bulk insert, `UpsertRow` or `UpsertInsert` and `UpsertUpdate`, `UpdateRows`,
`DeleteRows`, `SelectAgain` for return=representation), with `Fail` (the call fails
and does nothing), `LoseReply` (it is done, and the client sees an error),
`DeleteSomeKeys` (redis), `WriteSomeDocuments` (mongo, whose UpdateMany and DeleteMany
end in their middle) and `Unsupported`. `Others` is another client of the remote
table between any two of them. One request at a time is enough: a second one of
this service is another client. `Meant` is the abstract reading of a query the
properties compare with, written from PostgREST's semantics and not from the
parser.

The `MC` modules only give constants (MCDbStore and MCFileStore also say which of
the initial states TLC starts from). The operators marked "Fault", or under
"Faults", are changes a maintainer could make by mistake; no action uses them, and
each property of a passing run is violated when one of them takes the place of the
definition it imitates (`mutants` in `PROJECT.json`).

## 3. Runs

| Run | Bounds | Question and answer |
|---|---|---|
| driver_pool | 3 requests, 2 servers, 3 drivers, 2 versions, symmetric | All of the pool's invariants and `LifecycleSpec` hold |
| breaker | 3 callers, limit 3, cooldown 2 | `OpenIffTripped`, `FailuresBound`, `QuietStaysOpen`; and it `Recovers` |
| engine | 2 requests, 1 server, 2 drivers, 2 versions, limit 2, cooldown 1 | The mutex is `Exclusive`; `PoolBehaviour` and `BreakerBehaviour`: the sections of several steps implement DriverPool and each dial is reported once; `RequestsEnd`; `ServedOnceHealthy` |
| meta_cache | 2 requests, a table, 2 writes, TTL 1 | `OnlyRacesHide`: an answer misses a covered write in two races only; `EventuallyFresh`: a stale entry expires |
| meta_cache_race | 2 requests, 1 write | **violated**: `SeesCoveredWrites` fails when requests race |
| file_store | 2 servers, 1 credential, 1 object name, 2 bodies, 3 secrets (one a placeholder), 1 importer, 2 documents, 3 mutations | `RefsResolve`, `AckedSurvives`, `MergeKeepsTheRest` over failing writes, leftovers and crashes, in a directory with `drivers.yaml` alone or with a file that sorts after it |
| file_leftover | as above, 2 mutations, in a directory where `New` has just written `drivers.yaml` | **violated**: `ImportsPersist` |
| file_shared | as above, `drivers.yaml` only | **violated**: `SharedCredentialsLoad` |
| db_store | 2 admin requests, 2 servers, 1 table, 1 function, 1 column, 2 secrets, 2 values, 3 documents, 2 committed writes, symmetric requests | `RefsIntact`, `AckedStays`, `QuietMergeKeeps`, `GoneStaysGone`, `PatchKeepsOthers`, with foreign keys and without |
| db_inline | as above | **violated**: `InlineCredentialAccepted` |
| data_api | 6 protocols, 2 mappings, a key and another column of 2 values and NULL, about 100 requests, 1 write of others | `AnswersMatchQuery`, `WritesAsAsked`, `BulkInsertIsAPrefix`, `InsertNeverOverwrites`, `UpsertAtOnceTouchesItsRow` |
| data_upsert | the same, postgres | **violated**: `UpsertTouchesItsRow` |

Why the bounds are enough. *Pool*: a leak or a wrong close needs a winner, a loser
and somebody who replaces or uses: three requests; two versions make an entry
stale, two servers show one's request closing another's driver; three drivers let
each request create one. *Breaker*: with limit 3 a count passes zero, below and at
the limit, and three overlapping dials push it above. *Engine*: two requests
meet at every step of both critical sections and at `Close`, one replaces the driver
the other uses, and two failures trip the breaker; a third request adds another
waiter for the mutex. Drivers are never reused, so a run ends creating after the
second; `ServedOnceHealthy` then speaks of executions in which the pool serves. With
one server the run does not show one server's failures refusing another's dials.
*Cache*: one writer between any two
steps of two requests is the shortest race; the second write re-creates what the
first dropped, or changes what a racing put has already published. *File store*:
two servers and a credential give inline, shared, unused and dangling references
and a credential with a server's name; the third mutation distinguishes an
acknowledged state, a failed write after it, and a write that saves both. The other
file has a server and a table of its own, or a table on the server of `drivers.yaml`,
which is the case in which deleting that server leaves a directory that does not load.
`drivers.yaml` has one server at first, or there is none; a temporary file without
entries may be there already (`MCInit`; what else the files may hold, a mutation
writes). That makes the run the largest, with 1.2 million
states; the directory that may stop loading gets one mutation less (`MCNext`). *Db
store*: every hazard is a request that reads, another that commits, and the first
that writes, which takes two requests and two writes; the initial states are any
database a few requests leave, with shared, own and no credentials. *Data API*:
two rows, two values and NULL tell every pair of operators apart, and a page from
a table; two rows in a body are a bulk insert that stops in the middle. One write
of others falls between any two calls; more only repeat it, since no property
speaks of more than one request. `MaxOps`, `MaxWrites`, `MaxOthers`, `Drivers`,
`MaxVersion` are the only bounds on otherwise unbounded counters, and the file store
keeps at most one leftover file. Deadlock is checked in every run but
file_store, where a process whose files do not load stops at its next restart once no
mutation is left, and the two of DbStore, where a request begins only while writes are
left and the model stops after the last.

### Fairness

*Breaker, Engine*: the clock advances; a goroutine inside `DriverFor` takes its
next step. A dial ends, because it runs under the request's context, to which
`observability.Timeout` gives a deadline (default 60 s; an operator who sets 0 gives
that up); so does a data operation. `driver.Close` of a driver that nobody uses
returns; of one in use it may wait, as `pgxpool` does, with the pool's mutex held.
`Lock` alone has strong fairness: the mutex is free again and again while others take it,
and Go's `sync.Mutex` hands it to a goroutine that has waited for a millisecond. Nobody is
obliged to send requests, and whether a dial succeeds is up to the backend: `Recovers`
supposes a caller that keeps asking, `ServedOnceHealthy` dials that stop failing.
*Cache*: the clock and requests in flight advance; admin writes need not happen. DbStore and DataApi
state safety only: their requests wait for nobody but the database.

## 4. Where the code and its documents differ

1. `meta_cache_race` (`meta_cache.go:159`): request A reads the old row, an admin
   changes the server, request B installs the new revision, A puts the old row
   under it. Later requests get the old server for up to a TTL. `.env.example:37`
   says the cache is invalidated when metadata changes.
2. `file_shared` (`bridge.go:86`): the name of a top-level credential is not carried
   over; servers that share one, as `docs/store.md:89` recommends, load without.
3. `data_upsert` (`postgres.go:246`, `http.go:252`): an upsert whose key exists runs
   `UPDATE ... SET` without a `WHERE`, since the request has no filters, and
   overwrites the other columns of every row.
4. `file_leftover` (`file/store.go:212`, `120`): **acknowledged data is lost.** A write
   that is cut off at its rename leaves `.meta-*.yaml` in the directory, which matches
   `*.yaml` and sorts first. If the snapshot had no server, no object and no credential
   that servers share (a first credential, the deletion of the last server, or the
   empty file `New` writes), the file has no entry; `load` takes it for a stored
   snapshot and returns without reading `drivers.yaml`. From then on every import and
   mutation succeeds, is written to `drivers.yaml`, and is gone after each restart,
   until somebody removes the hidden file. `AckedSurvives` is what is left: `Hidden`
   files make everything disappear, and without one nothing acknowledged does.
5. `db_inline` (`db/store.go:136`): `CreateServer` stores the inline credential, sets the
   reference to it, and then refuses the request because both are given; the trace
   is that step and the refusal. The file store does the same (`file/store.go:306`).

Further observations, from reading while modelling; no run is spent on them:

- the revision of the cache hashes IDs of tables and functions only
  (`meta_cache.go:135`): changes to columns, options and paths wait for the TTL,
  while `docs/store.md:39` says admin writes take effect immediately;
- a temporary file that has entries comes back at the next start: what it has and the
  snapshot does not is there again (`AckedSurvives` names this);
- rows are answered under remote names by postgres and mysql (`postgres.go:390`), where
  `docs/architecture.md:42` says the API uses local ones;
- an UpdateMany or DeleteMany of MongoDB that ends in its middle leaves the documents it
  wrote (`mongo.go:140`, `180`), so a PATCH or DELETE there is all or nothing for each
  document only; redis deletes key by key;
- redis stores a null as the text `<nil>` (`redis.go:173`);
- `MatchQuery` ignores the filters when there are groups (`filter_match.go:11`),
  contrary to its comment; the SQL, mongo, redis and http drivers except postgres
  ignore the groups; `in.(...)` keeps its parentheses; the second filter of a column
  is dropped; `limit=0` is no limit;
- a server created or imported as disabled is stored as enabled (`entities.go:27`), so
  a merge import puts every disabled server back into service;
- column names are unique over all tables (`entities.go:49`).

## 5. Proofs

All theorems hold for every value of the constants under the named assumptions of
the modules: `PoolAssumption`, `BreakerAssumption`, `DeclarativeAssumption`,
`FileStoreAssumption`, `CacheAssumption`, `DbAssumption`, `TableAssumption`
(finite sets where cardinalities are counted, positive limits, sentinels that are
not data, tables and functions apart), and, for what clients send, `DocAssumption`
(documents have the fields the importer decodes), `RequestAssumption` and
`MappingAssumption` (rows name columns of the table and have a key, a column has
a remote name of its own).

- **DriverPoolProofs**: `TypeCorrect`, `NeverLeaks`, `PoolServesOpenDrivers`,
  `RequestsUseOwnConfig`, `ClosedUnderUse`, `ConnectionsBounded`,
  `PoolImplementsLifecycle`. The inductive invariant `IInv` adds to the properties
  what each critical section relies on: only created drivers are closed; a driver
  between create and install is private to its request (`HeldIsPrivate`, which is why
  the loser may close its own); a pooled driver was built from the key and version
  it is pooled under (`PooledAsBuilt`, why a hit gives the right configuration);
  no request or entry carries a version the server has not had
  (`NothingFromTheFuture`, why a replaced driver implies a reconfiguration).
  `ConnectionsBounded` injects open drivers into pooled servers and holding
  requests. The refinement maps each step to `Open`, `Publish`, `Discard`,
  `CloseAll` or a stutter.
- **BreakerProofs**: type, `OpenIffTripped`, `FailuresBound`, `QuietStaysOpen`.
  `FailuresBound` needs `OpenBudget`: while the breaker is open no dial starts, so
  recorded failures plus dials in flight do not grow.
- **EngineProofs**: `EngineTypeCorrect`; `MutexExcludes`, whose invariant `LockInv` says
  who holds the mutex and what each place of a request knows of the pool (a loser's
  server is pooled with its version, a winner's entry is the one it closed);
  `EngineImplementsPool` and `EngineImplementsBreaker`, step by step: taking the mutex
  and the first halves of `Lose` and `Win` map to a step or a stutter, and what lies
  between them changes nothing that DriverPool shows. `EngineNeverLeaks` carries
  `NoLeak` over from DriverPoolProofs.
- **MetaCacheProofs**: `CacheTypeCorrect`, and `OnlyTheseRacesHide` for any number
  of requests and writes. `CoverInv` follows what a request knows, step by step: the
  store is never older than `floor` (`StoreCovers`), so neither are the lists read
  from it (`ListsCover`), and the revision a request installs covers its floor; an
  entry that is its own belongs to the revision it stands under (`EntriesFit`), so
  a hit covers it too; and so does what a miss resolves (`ResolvedCovers`). What is
  left is an entry that is not its own, or a revision installed in between: the
  two races.
- **FileStoreProofs**: `FileTypeCorrect` and `ReferencesResolve` with every
  mutation, import, failed write and restart. The invariant `FileInv` needs the
  snapshots of merges that wait to install to resolve too, because `MergeInstall`
  replaces the store whatever happened in between. The lemmas say that `Compile`,
  `Decompile`, `Merge` and `ToImporter` map documents and snapshots to such, and
  that a document that compiles has no dangling reference. `RoundTrip` is about the
  file alone: what `decompile` writes compiles, to the same servers and objects.
  `AcknowledgedSurvives` rests on it and on two more facts. `Settled` is the
  invariant: `drivers.yaml` is either what the acknowledged snapshot decompiles to,
  or the snapshot was loaded from the files as they are, and a leftover file is one
  that compiles. `Extends` says what the other files can do to what `drivers.yaml`
  means: add entries, and override those a later file has; `Survives` carries that
  through `Compile`. No premise on the files is left: a file without entries makes
  everything disappear (`Hidden`), and a directory that does not load has another file
  that leans on a server it does not have. `MergesKeepTheRest` needs that a merge which
  waits to install holds what `Merge` makes of the snapshot it read (`Waiting`), and that
  a merge adds and overrides only (`MergeAddsOnly`). `RetriedMergeSettles` says that a
  merge import is safe to repeat.
- **DbStoreProofs**: `DbTypeCorrect`, `ReferencesIntact`, `IdsNeverReused`,
  `PatchesKeepOthers`, `AcknowledgedStays`, `QuietMergesKeep`. `RefsIntact` alone is not inductive: a
  patch writes back a row read earlier, so `LocalOK` says of every step what its
  request holds (a row with the ID it goes by, part of a document), and with it
  `DbInv` is. `AckedStays` needs `QuietOK`: what a merge import has read so far,
  if nobody wrote since it began, covers every row there is, so the transaction
  that deletes everything puts it all back. The lemmas carry that through listing,
  resolving, merging and compiling. `QuietMergesKeep` asks for more than names:
  `CopiedOK` says that what a quiet export has read is a copy of the rows
  (`ServersCopied`, `ObjectsRead`, `SecretsCopied`, `ColumnsRead`), and
  `QuietMergeStep` that merging, compiling and installing the copy gives back
  each row the document does not name. `StaysQuiet` says why a request that is
  quiet now has seen the rows as they are.
- **DataApiProofs**: `DataTypeCorrect`, `InsertsKeepRows`, `UpsertsTouchTheirRows`,
  `PortableWritesAreExact`, `BulkInsertsLeaveAPrefix`, `AnswersAreExact`. `DataInv` says that every row
  of the remote table has the mapping's columns and its own key; the lemmas of its
  first half show it of each driver's operations. `SelectedMeant` is the theorem on
  the query language: in its portable part each driver's `WHERE`, over the parsed
  and mapped query, selects the rows the client's filters mean. With it `WriteInv`
  (the table is untouched until the one call, and as asked from then on; after a call
  to MongoDB that ended in its middle each row is one or the other) is inductive, which
  is `PortableWritesAreExact`. `BulkInv` says that before row `i + 1` the first `i` rows are in, have
  distinct keys, and nothing else changed; a lost reply adds one. `ReadInv` says of
  a read that nobody writes during that its rows, once selected, are a page of what
  the query means and its total the number of all of it; the size of a page comes
  from the library's theorems on finite sets.

Every safety invariant and action property of a passing run is proved. Model-checked
only are the liveness properties (`Recovers`, `RequestsEnd`, `ServedOnceHealthy`,
`EventuallyFresh`), since fairness and `ENABLED` are not in the prover's reach.

## 6. Not modelled, and limits

- Formatting, converters and authentication are left out: conversion without state
  (reasons per component in `PROJECT.json`), and the drivers that only configure the
  http driver. S3 selects as the file driver does.
- A fingerprint is assumed to tell configurations apart; the code's is a digest.
- The other files of a directory are constant, and one stands for all of them: an
  operator's edit is a restart with other constants.
- `AckedSurvives` speaks of servers, objects and the secrets of servers. A credential
  that no server uses is not written at all, so its creation does not survive.
  Where two servers share a credential its secret is lost (run file_shared), and a
  credential of another file with a server's name hides that server's secret
  (`declarative.go:153`). What a file that sorts after `drivers.yaml` has, it
  overrides, and an entry of another file that was deleted, or whose deletion left
  it in a temporary file, comes back: the property names these exceptions, and the file
  without entries of section 4, and shows that there are no others.
- A temporary file that the process leaves half written is left out; so is more than one
  such file at a time.
- Secrets are compared after one more expansion where the file was written since:
  `Expand` runs again on every load, and on what a merge reads.
- `MergeKeepsTheRest` and `QuietMergeKeeps` speak of merges nothing came between: a
  mutation that lands between the read and the install is overwritten.
- DbStore has no `UpdateColumn`, columns have a name only, and its documents have no
  top-level credentials. A query that fails for reasons of the database's own is a
  request that never goes on. In the export of a merge the queries that belong together
  are one step (a list and its preload, one credential per server, two queries per table),
  so a write between two of those is not explored.
- In MetaCache a deleted server takes its tables and functions along; where SQLite keeps
  them they would resolve to the error of a disabled server.
- RemoteTable has one key column, values that compare as texts, and an index that
  keeps the key unique in every backend (MongoDB has it only if somebody made it).
  A null in a JSON file, redis keys that hold a string or JSON, the `_key` column,
  and a redis scan during which keys change are left out; so are mongo's `_id`, which it
  answers beside every projection, `and=` and an `or=` that does not parse, which the
  parser drops (`query.go:97-102`), and a POST with an empty body, which becomes a row
  without columns. The server behind the http driver is taken for a PostgREST whose
  writes are transactions, as those of SQL servers are.
- What the drivers make of a query is compared with PostgREST's reading of it only
  where they can agree (`Portable`):

  | Protocol | Operators | `or=` | Else |
  |---|---|---|---|
  | http | all | no | |
  | postgres | eq, neq, gt, is | yes, with filters | `in.()` loses its first and last member |
  | mysql | eq, neq, gt, is | no | no offset without limit |
  | mongo | eq, gt | no | `neq` selects missing fields, `is.null` the text |
  | redis | eq | no | other operators select everything; writes go by the key alone |
  | file | eq, gt, is | yes, without filters | read only |

  nowhere `limit=0` or two filters on a column.
- The YAML text is not modelled: a document that was written is read back.
- The rate limiter is a library's token bucket.

## 7. Plan

Done: the pool, breaker, engine, cache, both stores, and the data path with six
drivers; every safety and action property of them proved. What is left, most
useful first:

1. An abstract metadata store, whose operations are atomic and whose crash keeps what
   was acknowledged, and both stores shown to implement it where they do.
2. MetaCache over DbStore's writes instead of its own stamps.
3. A retried import in DbStore, as `RetriedMergeSettles` says of the file store.
4. A directory of YAML files that change between restarts, and one without
   `drivers.yaml`.
5. `UpdateColumn`, order and range headers.
