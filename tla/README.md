# Cloth Vision API: a verification project

TLA+ models of the server under `src/cloth_vision_api`, the TLC runs that check
them on small instances, and TLAPS proofs of their safety properties for every
instance. Paths below are relative to `src/cloth_vision_api` unless they start
at the repository's root (`README.md`, `guide/`, `migrations/`).

## 1. Inventory

The server is a FastAPI application over PostgreSQL and a directory of uploaded
images. Its endpoints are `def`, not `async def`: FastAPI runs each request in a
thread of a pool, and several worker processes may share one database and one
upload directory. **Every repository call opens a session of its own and commits
it** (`repositories/base.py:11-19`), so a use case that makes several calls is
several transactions, and other requests run between any two of them. There is
no lock, no version column and no retry anywhere. That is where the hard
behaviours of this code are; the code within one transaction is simple.

| component | state | operations | interacts with |
|---|---|---|---|
| Fashion items (`application/wardrobe/closet_service.py`, `repositories/wardrobe.py`, `storage/local.py`) | rows of `items`; one directory per item under the upload root | upload, read, PATCH, DELETE, image download | analyzer (library), closets for ownership |
| Accounts (`application/identity/auth_service.py`, `repositories/identity.py`, `security/`) | rows of `users` and `auth_identities`; tokens in clients' hands | signup, login, token to user | every authenticated endpoint |
| Weather cache (`adapters/outbound/weather.py`, `repositories/weather.py`, the lifespan of `main.py`) | the one row of `weather_cache`; one asyncio task per worker process | refresh every interval, read with `is_stale` | OpenWeatherMap; dashboard |
| Closets (`closet_service.py:73-87`) | rows of `closets`, never changed or deleted | create, list, ownership check | items |
| Outfits (`closet_service.py:418-520`) | composed images under `outfits/`, never deleted | recommend, compose, download | items, their files, matching engine (library) |
| Dashboard, analytics (`closet_service.py:181-373`) | none | read the items and the weather, compute | items, weather, outfits |
| Migrations (`database/migrations.py`, `migrations/`) | the schema and `alembic_version` | stamp a legacy database, upgrade at startup, `make db-downgrade` | every worker at startup |
| HTTP application (`main.py`, `adapters/inbound/api`) | none | routing, error mapping, access log | all |

What is hard in them, and what would make them correct:

* **Items.** An upload takes three transactions with a storage write and an
  analysis (seconds, network) between them, and works on one copy of the item
  throughout. PATCH reads a copy and writes *all* of its columns back. DELETE
  reads, deletes the row, then the directory. Correct means: a ready item has
  its image; status and key agree; nobody writes to an item he does not own;
  what was deleted stays deleted and leaves no files; an upload ends with a
  settled item.
* **Accounts.** A signup is a check and two inserts in three transactions.
  Correct means: nobody's password ends on somebody else's account; a signup
  answered 201 can log in; a session belongs to whoever signed up.
* **Weather.** Every worker refreshes the same row. Correct means: as long as
  some worker succeeds the weather is not stale; a late write does little
  damage; the age shown is that of the observation shown.
* **Outfits, dashboard.** They use the item list they read before composing
  images from files that a DELETE may remove meanwhile, and the dashboard lists
  items twice. Correct means: only a change in between can make its parts
  disagree; dashboard and analytics agree on the same items; ratios add up; the
  outfit shown suits the weather if one can.
* **Migrations.** Workers that start together inspect, stamp and upgrade the
  same database. Correct means: the version at the head is the schema the code
  is written for; whoever serves has it; no half of an upgrade stays; what was
  stored is still there; somebody comes to serve.

`PROJECT.json` lists each of these hazards at its line, with the properties that
would catch it.

## 2. Modules

| module | what it is |
|---|---|
| `ItemLifecycle` | items: uploads, PATCH, DELETE, image downloads, storage |
| `ItemLifecycleProofs` | its inductive invariant and theorems |
| `MCItemLifecycle` | instances for TLC |
| `ItemCatalog` | what the items promise a reader, without requests |
| `Application`, `MCApplication` | `ItemLifecycle` and `Outfits` in one server: the requests of both, interleaved |
| `ItemCatalogProofs` | `ItemLifecycle` implements `ItemCatalog`, and leaves no files; `Application` implements `Outfits` |
| `Outfits`, `OutfitsProofs`, `MCOutfits` | recommendations, the dashboard's outfit, composed images; extends `ItemCatalog` |
| `Identity`, `IdentityProofs`, `MCIdentity` | accounts |
| `AccountBook` | what the accounts promise whoever signs up and logs in, without transactions |
| `WeatherCache`, `WeatherCacheProofs`, `MCWeatherCache` | the weather task of every worker |
| `Dashboard`, `DashboardProofs`, `MCDashboard` | what dashboard and analytics compute, while items change |
| `SumTheorems` | facts about sums over finite sets, for `DashboardProofs` |
| `SchemaObjects` | tables, columns and foreign keys as sets, and what a statement of a migration does to them |
| `SchemaRevisions` | the upgrade and downgrade scripts of the three revisions, statement by statement |
| `SchemaMetadata` | the schema of the mapped classes (`Base.metadata`) |
| `Migrations`, `MigrationsProofs`, `MCMigrations` | the workers that inspect, stamp and upgrade; extends the two before it |
| `SchemaHistory` | what the migrations promise, without workers and scripts |

The detailed modules share one shape: the shared rows and files are variables, and each
request (or worker) has a record that says where in its handler it is (`pc`) and
which copies it holds. One action is what a handler does between two points at
which others can interfere, that is one transaction or one file-system call, with
every check, early return and exception of it. Operators named `...Forgets...`,
`...Twice` and the like, marked *Mutant of*, are the plausible bugs that the
properties are tested against; no specification uses them.

### ItemLifecycle

`rows` is the table: `None`, or closet, status, whether `image_key` is set, and
the other columns (`attrs`), whose value is *who wrote it*: the defaults of a new
row, the analysis, or a PATCH request. `files` is the set of items whose
directory exists. `req[r].snap` is the `FashionItem` the handler holds,
`req[r].loaded` the row `save_item`'s session read.

| action | code |
|---|---|
| `AddItem` | `add_item` 97-100: ownership check, insert of the placeholder row |
| `StorageSave`, `StorageSaveFails` | `storage.save`: 102 and `local.py:16-31` |
| `Analyze`, `AnalyzeInvalid`, `AnalyzeRaises` | 103-125, the `except` of 126-131, any other exception |
| `SaveItemGet`, `SaveItemCommit` | `save_item`: the SELECT (`ValueError` if the row is gone), then the UPDATE at commit |
| `DirectoryExists`, `RemoveTree` | `LocalImageStorage.delete`: `exists()`, then `rmtree`, which raises if another removed it |
| `UpdateItem` | `get_item` and the edits of `update_item` |
| `DeleteItem`, `DeleteRow` | `get_item`, then the DELETE and its row count |
| `GetItemImage`, `IsFile`, `SendFile` | `get_item_image_path`, then the response that opens the file |
| `Crash` | the thread or process dies; the open transaction is rolled back |

Three facts of SQLAlchemy matter and are modelled. The UPDATE of a flush sets
only the columns whose value differs from what the same session's SELECT loaded
(`Merged`); two saves can therefore leave a mixture of their columns. An UPDATE
that matches no row raises `StaleDataError`: a save never inserts. A DELETE
statement has the row count of what it removed when it got the row lock.
`_owned_closet` is a transaction of its own, but closets never change, so it is
taken together with the read before it. Checks of the upload's content type and
size return before anything happens and are left out, as are the readers
`get_item` and `list_items`, which are one SELECT. Whether the item's directory
holds derived images besides the original is left out: they are written by the
analyzer, into the same directory, before the item is settled, and removed with
it; `get_item_image_path` falls back to the original.

### ItemCatalog

The items as `Outfits`, or anybody else who only reads the table and the
directories, may rely on them: what each row shows (closet and status), the
directories, and each item's *verdict*, the outcome of its one analysis. An item
is created once; its image is stored and its verdict decided once; the row shows
the verdict or, before it is saved and after a PATCH with an old copy,
`processing`; the row is removed for good; the directory is removed only after
the verdict and only when the row is gone or the verdict is `failed`.

`ItemLifecycle` implements it (`ImplementsCatalog`) under the mapping: an item is
born when some request bears it; `rows` forgets `image_key` and the attributes;
the verdict is the status in the upload's own copy, from the moment the analysis
ends; `files` is `files`. `AddItem` is `Create`, `StorageSave` (and a failing one
that leaves the directory) `Store`, `Analyze` and `AnalyzeInvalid` `Decide`,
`SaveItemCommit` `Show`, `DeleteRow` `Remove`, `RemoveTree` `Clean`; the rest
stutters.

### Outfits

`images` are the files under `outfits/<user>/<closet>/`, `req[r]` a
recommendation, a dashboard or a download. The outfit's id is a hash of user and
items (`closet_service.py:465-469`), so the items stand for it.

| action | code |
|---|---|
| `Recommend` | the ownership check, 442; for the dashboard 257-260 |
| `ListItems` | 443-462: the ready items in one SELECT; the engine proposes any distinct combinations of them, at most the limit (one for the dashboard, 279-281) |
| `FindSource` | `_best_composite_source` for each item of an outfit, in any order |
| `Compose` | the composer reads the sources and writes the image, 474-476 |
| `Explain` | `_outfit_copy`, 522-535; then the next candidate or the answer |
| `GetOutfitImage` | 503-508 and the response |

Which outfits the engine of the library proposes is left open, and so is the
order of the sources. Composing is one step: how the library's composer writes
the file, and so whether a reader can see half of it, is not in this repository.
`is_file` on the derived images and the original is one step, as they are
removed together. That a listed item has an `image_key` (511) is
`KeyFollowsStatus`. What the dashboard reads for itself before it asks for the
outfit (the user, the items for its counts, the weather) shares nothing with
the outfit, except that both list the items: see the hazards.

### Application

`Outfits` takes its items from the abstract `ItemCatalog`: any table that keeps
the catalog's promises would do. `Application` has the table the code has. It
extends `ItemLifecycle` by the images and the outfit requests, and its step is a
step of either side that leaves the variables of the other alone; both are
handlers of the one `ClosetService` that `main.py:107-122` builds. What an outfit
request reads of an item is what `ItemLifecycle` shows: the mapping of
`ImplementsCatalog`. `ImplementsOutfits` says that this concrete server is an
implementation of `Outfits`, so that what is checked and proved over the catalog
is true of the code's items; `FailsByOwnDeletion` is a property of both sides
that neither module can state, as the catalog does not know who deletes.

### Identity

`users` and `identities` are the two tables by normalised e-mail, each UNIQUE in
it. A user's id is the request that made him. `Signup` (check), `AddUser`,
`Hash`, `AddAuthIdentity`, `CreateAccessToken` are the steps of `signup`;
`Login`, `GetUser`, `CreateAccessToken` those of `login`, which is also
`/auth/token`; `Me` takes the token of any answered request and either finds it
expired or ends in `GetUser`, as `get_current_user` does. `Fails` is a database
or library error at any step, `Crash` the death of the process. `strip().lower()`
is the constant function `Normal`, so different spellings meet in one account;
hashing is injective and `verify` is equality. Tokens cannot be forged: they are
only ever those of answered requests.

`Identity` implements `AccountBook` (`ImplementsAccountBook`): an address has an
account, user and password together, from the moment its identity is inserted,
and a session is what a request was answered "ok" for. `AddAuthIdentity` is
`Open`, the answer of a signup, a login or a token use is `Grant`, everything else
stutters; the user a failed signup leaves behind is not in the book.

### WeatherCache

`now` is the clock in minutes, `cache` the row, reduced to `observed_at` (which
stands for everything the provider sends) and `fetched_at`; `worker[w]` is the
task of a process. `Start` and `Stop` are the lifespan of `main.py:84-98`, or a
crash. `Keep`, `Fetch`, `Respond`, `MergeGet`, `MergeCommit`, `RefreshFails` are
`refresh` (`weather.py:101-111`) with `fetch`, `session.merge` and the swallowing
`except`, each followed by `run`'s sleep. Within a process `save` does not yield,
but two processes interleave between the SELECT and the UPDATE or INSERT.
`Tick` advances the clock unless a refresh that is due has run for `Latency`
minutes: the HTTP client's timeout and the time a local transaction takes. This
is an assumption on the environment, and `Latency` and `Period` (how often the
provider renews its observation) name it. Workers and the provider share a clock.

### Dashboard

`wardrobe` holds what the row of each item shows: category, season tags, first
colour, ready or not. `req[r]` is a dashboard or a report and what it has read;
`touched`, which the code does not know, are the items that changed since its
first listing.

| action | code |
|---|---|
| `Ask` | the routers' two GETs |
| `ListForReport` | `closet_analytics`, 181-254: one listing, then computation |
| `ListForSummary` | `dashboard` 257-275 |
| `ReadWeather` | `weather_cache.get()`, 277: any temperature or none |
| `ListForOutfit` | 279-282 and `outfit_recommendations` 443-462: the second listing, the engine, the sort by season tags |
| `Change` | any save, PATCH, failed analysis or DELETE of an item |

The computations are operators: `Completeness`, `Missing`, `WeatherSeasons` (in
tenths of a degree), `WeatherScore` as a fraction, `Ratio` (Python's `round` to
four places: the nearest unit, and in a tie either neighbour, as the quotient is
a float that need not be the exact tie), `Distribution` of a `Counter` by key,
`EssentialRecommendations`. The two lists of categories the code keeps are two
definitions: `TargetCategories` of the dashboard, from which `Missing` filters,
and `Required` of the analytics with its own filter (`Lacking`). The engine is the library's; `Combinations` and
`Proposals` say what `README.md:352-356` says of it: a top, a bottom, and one of
every other category there is, at most the limit, none only if there is none.
Which combinations it ranks best is left open, and so is which of several
outfits with the same share of suited items comes first.

### Migrations and the schema

`SchemaObjects` represents a schema as the set of its tables, columns and
foreign keys (with their `ON DELETE` action), and a statement by what it adds,
drops and renames. `Applicable` is what PostgreSQL refuses: to create what is
there, to drop what is not, to refer to a table that is not there, to drop a
table something refers to. `SchemaRevisions` has one definition per statement (or
batch) of the scripts; `SchemaMetadata` one per mapped class. So the claim that
the revisions build what the code maps is a computation, `Schema3 = Metadata`
(`UpgradesAssumption`), and the same set is the standard of every property below.

`Migrations` has the database (`schema`, the rows of `alembic_version`, and
where the values of each column of the baseline are now) and a record per worker.

| action | code |
|---|---|
| `Inspect` | `_stamp_matching_legacy_baseline` 50-57: `get_table_names` and the early returns |
| `InspectColumns` | 59-63: `get_columns`; a table that has vanished meanwhile raises |
| `StampRead`, `StampWrite` | `command.stamp`, 64: reads the version table, then inserts or moves the row, or collides |
| `UpgradeRead`, `UpgradeWrite` | `command.upgrade`, 72: reads the version, then runs every later script in the one transaction of `env.py:52-53` |
| `Serve`, `Stop`, `Crash` | the lifespan of `main.py:84-98`; the death of a process while it migrates |
| `Store` | a request writes a row, if the schema is the one the code is written for |
| `Downgrade` | `make db-downgrade`, one revision in one transaction |

Inspections take no lock and read outside of any transaction. Two upgrades that
run at once meet at the first object both create: the later waits, and then
fails or not by what the earlier committed; this is why an upgrade is one step
after its read. That nothing is left of one that fails is not a result but what
the one transaction and PostgreSQL's transactional DDL give; a mutant with one
transaction per revision breaks `ImplementsHistory`. A worker that saw no version
table and finds one when it creates its own collides with it, or goes on with it
if the other committed before Alembic's `checkfirst`: then a stamp can put a second
row beside the first, and every later upgrade is refused (`Collides`).

A worker starts from any database there may be: empty, left by the old
`create_all()` hook, a still older one that lacks a column, or one at a revision,
with or without rows. A worker whose migration raises is `refused`: its lifespan
does not start.

`Migrations` implements `SchemaHistory` with the columns that have a value for
`stored`: the schema moves to the newest in one step or down by one, and values
stay until the tables are given up at the base.

## 3. Runs

All configurations set `CHECK_DEADLOCK FALSE`: requests are made at most once,
or the clock reaches its horizon, and then the system stops.

| run | instance | states | what it shows |
|---|---|---|---|
| `item_lifecycle` | 1 item, 4 requests, 2 users with a closet each, all faults | 282,139 | `ReadyHasImage`, `KeyFollowsStatus`, `OwnedThroughout`, `DeleteAnsweredOnce`, `RemovalLeavesNoFiles`, `ReadyImageServed`, `DeletedStaysDeleted`, `SettledStays`, `ImplementsCatalog` |
| `weather_cache` | 2 workers, interval 3, max age 7, latency 1, period 2, clock to 10 | 356,670 | `HealthyIsFresh`, `HonestAge`, `LittleRegression` |
| `outfits` | 2 items, 2 requests, 2 users with a closet each, 2 outfits per answer | 283,318 | `FailsByDeletion`, `AnsweredOutfitsServed`, `ImagesShowOwnItems` |
| `application` | 1 item, 2 requests on it and 1 on its outfits, 2 users with a closet each, all faults, `FairSpecApp` | 42,893 | `FailsByOwnDeletion`, `ImplementsOutfits`, `UploadSettles` |
| `identity` | 4 requests, 2 addresses, one in 2 spellings, 2 passwords, all faults | 89,689 | `AccountsConsistent`, `SignupOpensAccount`, `SessionsAreOwners`, `SessionsResolve`, `ImplementsAccountBook` |
| `migrations` | 2 workers, 1 crash, 2 downgrades, 11 initial databases, `FairSpec` | 4,732 | `HeadIsMetadata`, `ServedSchemaStands`, `ImplementsHistory`, `SomeWorkerServes` |
| `dashboard` | 5 items, each with up to 4 looks, 4 temperatures or none, 1 request, 2 changes | 282,973 | `OnlyChangesTear`, `ReportsAgree`, `RatiosAddUp`, `SuitedOutfitWins` |

Every run also checks the type invariant of its module, except `application`,
whose two sides have theirs in the runs of their modules.

*Bounds.* An item is made by one upload and everything that goes wrong with it
goes wrong between that upload and a PATCH or DELETE that copied the row at
another moment; items do not touch each other, and four requests on one let two
PATCHes, a DELETE and the upload meet. In `outfits` two items make outfits of one
and of two, in one closet or in both, and a request with two candidates meets
another on the same or on the other closet while both items change and vanish;
requests meet only in the images, which only grow. In `application` an
upload and a PATCH or a DELETE of its item overtake the outfit request between
any two of its steps, and each other; more requests on an item are in
`item_lifecycle`, which refines the same catalog, more items and outfit requests
in `outfits`, which is over it. For `UploadSettles` one request beside the upload
is enough: what can undo what the upload saved is one other save. Two users suffice
because ownership compares one with another. One attribute suffices because
attributes are merged independently of each other. Two workers suffice to
collide; the clock runs long enough to see a row go stale (age 8 > 7) after the
longest chain of skipped refreshes, and the small numbers keep the ratio of the
real ones (30 and 90 minutes) as tight as the theorem of section 5 allows. Four
requests allow two racing signups, a login and a use of its token. Of workers
that migrate, one can only spoil what another relies on, so two show it, and the
proofs are for any number; two downgrades take a database from the newest below
the renamed column, and a worker brings it up again. The five items of
`dashboard` can cover the core, compete as two tops and two bottoms that suit
different weather, be analysed again, become unknown or change category; requests
share nothing but the items, so one is enough, and what changes while none is
under way is another initial wardrobe. The temperatures have one of every band
and both sides of two bounds.

*Symmetry* is used where no liveness is checked: requests, items, passwords and
workers are interchangeable in every property of the run.

*Fairness.* `FairSpec` is weak fairness of each request's own next step: a thread
of the pool is scheduled again as long as its request is in flight. Nothing is
assumed about clients: they need not send anything. `FairSpecApp` is the same in
the composed server, where requests on outfits may even starve. `UploadSettles`
ends its claim where the upload itself fails or dies, because nothing finishes
its item then; whatever fails beside it changes nothing. `FairSpec` of
`Migrations` is weak fairness of each worker's migration: a process is started, and goes on until it serves or its migration
raises; nobody need end a process that was refused. `SomeWorkerServes` starts from
a database at one of the revisions, stamped or not, and ends its claim where a
process dies or an operator downgrades. `FairOutfits` is the same for requests of
`Outfits`, and adds that a deletion which has removed a row goes on to remove
the directory; without that `deletion_reaches_outfits` would accuse the code of
what a crash did.

### Where the code and its documents disagree

Each of these runs checks one documented promise, and TLC finds it violated by a
behaviour of the code.

| run | document | what the code does |
|---|---|---|
| `status_diagram` | `guide/DOMAIN.md:121-124` | a PATCH that read the item before the upload saved it writes `processing`, and a null `image_key`, over `ready`: the item is stuck, its files are orphaned, and it disappears from every listing of ready items |
| `edits_outlive_analysis` | `guide/NON_FUNCTIONAL_REQUIREMENTS.md:53` | the upload's final save overwrites what the user edited during the analysis |
| `orphan_cleanup` | `guide/ARCHITECTURE.md:193` | a DELETE during the analysis leaves the directory behind and the upload answers 500 |
| `deletion_reaches_outfits` | `guide/DATABASE.md:215` | the composed images of a deleted item's outfits stay and are served for ever |
| `only_legacy_is_stamped` | `migrations/README.md:11-12` | a worker stamps `0001` over a database that another upgraded to the newest schema after it was inspected: the version goes back from `0003`, and this worker and every later one fails on its first `CREATE TABLE` until somebody stamps the database by hand |

Three of them need fairness to be convincing (`status_diagram`,
`edits_outlive_analysis`, `deletion_reaches_outfits`) and run under it.

More disagreements have no run, because one look at the code shows them:

* The two inserts of a signup are two transactions (`auth_service.py:26-33`)
  where `guide/ARCHITECTURE.md:192` wants one per use case: a failure between
  them leaves a user who can neither log in nor sign up again.
* The loser of two signups at once is answered 500, not the 409 of
  `guide/API.md:40`.
* A worker restarted shortly before the refresh is due keeps the row for another
  whole interval, where `README.md:391-392` has one every 30 minutes;
  `HealthyIsFresh` says what the code delivers instead.
* A value of exactly 90 minutes is not stale (`weather.py:122` has `>`,
  `README.md:393` says "or more").
* An exception of the storage or the analyzer other than `CoreInvalidImageError`
  leaves the item `processing` for ever, where
  `guide/NON_FUNCTIONAL_REQUIREMENTS.md:23` promises a final failure status:
  `closet_service.py:101-131`, and the reason for the condition of
  `UploadSettles`.
* `README.md:390-391` gives a top and a bottom as the condition of an outfit
  beside a summary that counts them; the outfit is made from a later listing, so
  an answer may have one without the other. `OnlyChangesTear` is what holds.

## 4. What each property means

The statement and the code it is about stand above each property in its module.
The less obvious ones:

* `SettledStays` is the exact extent of the `status_diagram` bug: an item that
  is ready or failed goes back to `processing` only through a PATCH that read it
  while processing. Once the last of those is over, never.
* `KeyFollowsStatus` says that the column-wise UPDATEs of concurrent saves never
  separate `analysis_status` and `image_key`, although nothing in the code ties
  the two together. It holds because every copy that ever existed has one of two
  pairs of values, and a save writes both columns or neither.
* `RemovalLeavesNoFiles` and `ReadyImageServed` relate the table to the disk
  after DELETEs, failed uploads and downloads raced.
* `ImplementsCatalog` is the summary of all of these: whatever runs concurrently,
  the table and the directories change only as `ItemCatalog` says.
* `FailsByDeletion` bounds the damage of the list read earlier: a dashboard never
  fails for an item that is still there, whatever PATCHes and failing uploads do
  to others. It needs that a ready item keeps its directory, which is
  `ItemCatalog`'s promise and so `ItemLifecycle`'s theorem. `FailsByOwnDeletion`
  sharpens it in the composed server: the deletion is one the user asked for. It
  rests on ownership in both halves, that of the row (nobody else may delete it)
  and that of the listing (nobody else's items are in the outfit).
* `UploadSettles` is about a copy that is saved minutes after it was made: neither
  a DELETE nor a request that crashes with a row in its hands can keep an upload
  that goes on from settling its item, and once settled nothing unsettles it.
* `ImplementsOutfits` is what joins the two halves: a step of an upload or a
  DELETE is, for whoever composes outfits, a step of the catalog or none.
* `ImplementsAccountBook` says that three transactions without a lock look like
  one to the clients: an account is opened once, whole, and a session is granted
  only against the user and password that are in the book.
* `ImagesShowOwnItems` says that no image mixes closets. It rests on the filter of
  the listing alone, as no code moves an item to another closet; nor does any
  change a closet's owner or a user, so that `OwnedThroughout` and
  `SessionsResolve` rest on the check at the start and on what was inserted before.
* `HeadIsMetadata` ties the version, which is all that a later start looks at, to
  the schema. The converse does not hold: a late stamp leaves the newest schema
  at version 1 (`only_legacy_is_stamped`), which harms availability, not data.
* `ServedSchemaStands` says that nothing a later worker does, even a late stamp
  and the upgrade that fails on it, takes the schema from one that serves.
* `ImplementsHistory` is about crashes and failures in the middle of three
  scripts, and about the one column that is renamed: its values come back under
  the old name when the revision is stepped down.
* `SomeWorkerServes` says that racing workers cannot all fail: the one whose
  upgrade commits first, or who finds it done, serves.
* `OnlyChangesTear` bounds what the two listings can do to a dashboard.
* `ReportsAgree` compares the two computations of the missing categories, and the
  distribution with the summary. `RatiosAddUp` bounds the error of rounding each
  part by half a unit per part, for counters in which an item counts under
  several keys; a ratio is never the larger of two for the smaller count, and is
  zero only for a share of at most 1/20000. `SuitedOutfitWins` is what the sort by season is for.
* `HealthyIsFresh` is what the weather settings are for. It is *not* implied by a
  refresh every interval, which the code does not deliver.

## 5. Proofs

`tlapm` checks every step of the seven `...Proofs` modules and of `SumTheorems`.

**Items** (for any sets of items, requests, users, closets and attributes, under
the assumptions named in the module). `IInv` strengthens the properties by what
they rest on: `ControlInv` (where a call is and which copies it holds),
`BirthInv` (an id has exactly one upload; without a request of its own it has no
row and no files), `ClosetInv` (copies agree with the row on the closet, whence
ownership), `PairInv` (status and key agree in every copy, in flight or stored,
which is what makes the column-wise merge safe), `VerdictInv` (any status but
`processing`, anywhere, is the one the upload has already saved, so nobody can
invent or alter it), `GoneInv` and `FilesInv` (whoever removes the directory has
removed the row or seen the upload fail, and copies that say `ready` imply the
directory). `ReadyHasImage`, the property, is inductive only together with them:
a stale PATCH could write `ready` back after the directory had gone, if
`VerdictInv` did not say that `failed` uploads never had a `ready` copy. Theorems: `TypeCorrect`, `ReadyItemsHaveImages`,
`KeysFollowStatuses`, `Ownership`, `NoResurrection`, `OneDeletionSucceeds`,
`ReadyImagesServed`, `SettledItemsStay`.

The proof of each conjunct goes by the shape of a step, not by the action: the
`...Effect` lemmas say once what each action does to the variables (`Begins`,
`Refused`, `Becomes`), and `ReceiveShape` and `WorkShape` collect them.

**Items implement the catalog** (`ItemCatalogProofs`). `RemovalInv` adds to `IInv`
what the removal of directories rests on: a removal knows the image, and the
directory is there while the analysis runs even if the row has gone, because
only an upload that has a verdict, or a deletion that saw one, removes it.
`NothingLeftBehind` is one of its conjuncts. `Refinement` has one lemma per
action of the catalog and one for each half of `Next` (`ReceiveMaps`,
`WorkMaps`). Its assumption is that `None` is no row, not even a shown one.

**Items and outfits together** (`Application`, also in `ItemCatalogProofs`).
`OutfitsImplemented` is `Refinement` for the half of a step that concerns items,
and the identity for the other. The lemmas of `OutfitsProofs`, instantiated under
the mapping once its assumptions are proved of it, then hold of the composed
server. `FailuresAreOwnDeletions` needs an invariant of both halves, `AppInv`:
the items of a candidate are, in every copy any request holds of them, in the
closet that was asked for (`TodoInv`; stable by `ClosetStays`), and a row that has
gone has a DELETE (`DeletedInv`). `FailsByDeletion` gives the item that has gone,
and ownership of the copies (`ClosetInv`) whose DELETE it was.

**Outfits** (for any items, closets, requests and limits; `SpecOutfits`). `IInv`
says what the catalog guarantees (`CatalogInv`), that an item once listed is
ready and in its closet or gone (`Listed`, stable under every step of the
catalog by `CatalogStep`), and where each call is (`CallOf`). Theorems:
`TypeCorrect`, `FailuresAreDeletions`, `AnsweredOutfitsAreServed`,
`ImagesAreOwn`. By `OutfitsImplemented` they speak of the items as
`ItemLifecycle` has them.

**Accounts.** `IInv` adds to `AccountsConsistent` that every call that bears a
user bears the e-mail and password of that user's signup (`Owned`), and what a
signup has stored at each point (`Control`). The rows only grow (`RowsStay`), so
what a request saw stays true. For the refinement, `Backed` says that a
login or token use that bears a user has his account in the book; with it a step
opens an account (`OpensBook`), grants a session (`GrantsSession`) or leaves
the book alone (`NothingGranted`). Theorems: `TypeCorrect`,
`AccountsAreConsistent`, `SignupsOpenAccounts`, `SessionsBelongToOwners`,
`SessionsAlwaysResolve`, `BookImplemented`.

**Weather.** `TaskInv` says that a task is punctual (the one consequence of
`Tick`'s guard) and that what it fetched it fetched since it was due. From it,
`OverlapInv` bounds what other workers can have written since a worker selected
the row, whence `HonestAge` for mixed columns. None of this needs the settings.
`CoverInv` says that a worker whose last refresh did not fail is due again before
the row is two intervals old; it and `HealthyIsFresh` need `Margin`:
`2 * Latency <= RefreshEvery` and `2 * RefreshEvery + Latency <= MaxAge`, which
30 and 90 minutes meet with any latency up to 15 minutes. Deployments that set
`weather_refresh_minutes` and `weather_cache_max_age_minutes` otherwise should
keep it. Theorems: `TypeCorrect`, `AgeIsHonest`, `RegressionIsBounded`,
`HealthyWorkersKeepFresh`.

**Migrations** (for any number of workers, crashes and downgrades). What the
scripts do to the schemas of the four revisions and the older one is finite and
concrete: `UpgradesAssumption`, `DowngradesAssumption` and `ValuesAssumption`
state it, and TLC computes them from the scripts in every run of `MCMigrations`.
From them alone, `IInv` says which schemas a version can stand for
(`VersionFits`: version 1 can stand for any but the older one, because of late
stamps), that a worker about to stamp an untracked database has the baseline
before it (`StampFits`), that at the baseline no value is in a later column
(`ValuesFit`), and that without downgrades whoever has migrated has the newest
schema (`NewestServed`). Theorems: `Typing`, `HeadIsHead`, `ServedStands`,
`HistoryImplemented`, the last a refinement of `SchemaHistory`.

**Dashboard** (for any finite set of items, any looks, temperatures, requests and
number of changes). `IInv` says that until the second listing the first one is
still true of every item not touched since (`StillListed`), and carries the two
properties for requests that have answered (`Final`), and says of a score that it
was computed from what was listed (`Scored`). `CombinationsExist` shows that a
top and a bottom make an outfit, `BestSuits` that an outfit with every tagged
item suited has the best score there is. `RatiosDoAddUp` needs that rounding
errors add up to at most their number: `SumTheorems` proves by induction on finite
sets that summands which stay close to each other have sums that do, and takes for
it the least element of the set of counterexamples, as no installed prover can
instantiate the library's induction theorems. Theorems: `TypeCorrect`,
`TearsAreChanges`, `ReportAgrees`, `RatiosDoAddUp`, `SuitedWins`.

**Only model-checked:** `UploadSettles` and `SomeWorkerServes`, since liveness
under fairness is out of the prover's reach. Every other property of a passing
run is a theorem.

## 6. Not modelled

* Closets: one insert, constants here. Routing, access log, greeting by the hour,
  texts and response schemas: no state.
* Tables that no code uses (jobs, item images, wear events, subscriptions, refresh
  tokens) have no operations; they are in `SchemaMetadata` as the migrations must
  build them.
* Of the schema: column types and the casts between JSON and JSONB, nullability,
  defaults, indexes, unique and check constraints. `guide/DATABASE.md:234-235`
  wants large changes in the steps nullable, backfill, constraint; `0002` adds its
  columns `NOT NULL` with a server default at once, which is a matter of locks
  and load, not of states.
* SQLite, which only tests use (`guide/NON_FUNCTIONAL_REQUIREMENTS.md:94`):
  it serialises writers, returns naive datetimes and has no transactional DDL as
  the migrations use it.
* `make db-upgrade`, which upgrades without the inspection: on a tracked database
  it is `UpgradeRead` and `UpgradeWrite`, on an untracked one it fails at once.
* The library `cloth_vision_core` (not in the repository): the analyzer's
  outcomes and the engine's ranking are choices, and whether its composer writes
  an image atomically is a hazard listed without a property. The other is the
  upload that fails or dies with its item processing (section 3).
* Token cryptography.

## 7. Plan

1. `ItemLifecycle`, `Identity`, `WeatherCache` with runs and proofs: done.
2. `ItemCatalog`, refined by `ItemLifecycle`: done, checked and proved.
3. `Outfits` over `ItemCatalog`: done, checked and proved.
4. `Dashboard`, the two listings and the computations: done, checked and proved.
5. `Migrations` over the scripts, refining `SchemaHistory`: done, checked and
   proved.
6. `AccountBook`, refined by `Identity`: done, checked and proved.
7. `Application`, items and outfits in one server: done, checked and proved.
8. Open: an abstract specification of the weather row (one provider's
   observations, each shown for a bounded time) refined by `WeatherCache`.
