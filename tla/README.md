# InWheel API: TLA+ models, checks and proofs

The InWheel API is a registry of places with facts about their accessibility.
It is two Go programs over one PostgreSQL database:

- `cmd/api` serves `/v1`: anyone lists and reads places, holders of an API key
  create places and patch their accessibility profiles;
- `cmd/ingestion` is run by an operator: a *canonical* source (OpenStreetMap)
  upserts places and profiles in batches and then sweeps the queue of unmatched
  records; an *external* source (Wheelmap and others) resolves each of its
  records to a place or queues it.

Any number of requests and runs are under way at once. They share nothing but
the database and, inside an API process, the rate limiters. Almost everything
that is hard to test is therefore in the order of single statements: the models
take **one SQL statement, or one operation on shared memory, as one action**.

## 1. Inventory

| component | state | operations | hard because | what makes it correct |
|---|---|---|---|---|
| Profile store (`internal/place`, `cmd/api` PATCH and POST, `internal/audit`) | `places`, `accessibility_profiles`, `write_logs`, row locks | `UpsertProfile`, `UpsertProfileIngestion`, `CreatePlace`, `audit.Log` | concurrent transactions, a unique index, a retry loop, crashes after the commit | no lost update, flags fit the components, verification is kept, one creation logged, every request ends |
| Reconciliation (`internal/identity`, `internal/unmatched`, `cmd/ingestion`) | `places.external_ids`, `unmatched_external`, touched ids, counters | `Resolve`, `Sweep`, `Enqueue`, `BumpAttempts`, `Delete`, `AttachExternalRef` | no transaction spans two statements, any of them fails, runs overlap and are repeated | no record dropped, every row counted, only the selected row deleted, the queue drains |
| Matcher (`internal/identity`) | none | `Match` | ties, thresholds, redistributed weights | the best near place, by the stated thresholds |
| OSM source and batcher (`internal/sources/osm`, `cmd/ingestion`) | buffers, touched ids | `FullImport`, `sink`, `flushNow`, tag mappings | failure inside a batch, parallel slices, contradicting tags | tables say what the last complete file says, each profile with its place |
| Rate limiter (`internal/middleware`) | `sync.Map` of token buckets | `Allow`, `sweep` | check-then-act on a shared map, eviction under a request | nobody is refused who has a token, and nobody gets more than the race allows |
| API keys (`cmd/api`) | `api_keys` | `Register`, `authenticate`, `RevokeKey` | look-up and insert apart, revocation of a key in use, commits that fail or go unseen, lost answers | one active key per email, a revoked key is useless, a key that was handed out is in the table |
| Database and migrations (`internal/db`) | `schema_migrations`, the advisory lock, the connection pool | `Connect`, `Migrate` | several processes start at once, death inside a migration, a bounded pool, one of it spent on the migrations' driver, under transactions that wait | served only on a complete schema, dirty only by accident, no request waits for ever if its pool has two connections or more |
| Server process (`cmd/api/main.go`) | listening, draining, down | start, accept, signal, `Shutdown` | requests under way when it ends | as above, and nothing a client was told becomes untrue |
| List endpoint (`cmd/api`, `internal/pagination`, `internal/geo`) | the client's cursor | `ListPlaces` | rows move, and enter and leave the filter, while they are walked | an unwritten place comes exactly once if it matches, the walk ends |
| Place read (`cmd/api`, `internal/a11y`) | none | `GetPlace`, `ComputeEffectiveProfile` | two reads at two instants; clients that send back what they read | own components win, every fact was stored where it is attributed unless a client had a mark stored |
| Rule engine (`internal/a11y`) | none | `WithAuditFlags`, levels | contradicting and missing facts | flags only on explicit negatives |
| Audit log (`internal/audit`) | `write_logs` | `Log` | written after the commit, errors dropped | part of the profile store |
| Validation (`internal/validation`) | none | checks of single fields | | only where it stands in a request's course |
| HTTP layer: generated server, request validator, error handlers, CORS, logging | none | | the order of limiter, authentication and handler | the order and the statuses are part of `ApiKeys` |
| Configuration and source registry of the ingestion | none | | | not modelled: read once, in one goroutine |

The interactions: the API's handlers and the ingestion call the repositories;
the batcher calls `UpsertBatch` and then `UpsertProfileIngestion` for each
place; a canonical run hands the touched ids to the sweep; resolver and sweeper
call the matcher, which calls `FindCandidates`; `authenticate` calls the limiter
and the key table before any write handler; `main` lets requests in once `Migrate`
has returned, and every handler takes its connections from one pool, of which
the migrations' driver has kept one.

`PROJECT.json` lists the components, the hazards with the line where each
bites, the runs, the definitions with the lines they translate, and for each
property a plausible mistake in the code that breaks it.

## 2. The modules

```
A11y                  audit flags of a profile's properties
Profiles              values of a profile, merge, the two ways a row is written (A11y)
  ProfileRegister     what the store promises: one atomic register per place
  ProfileStore        the transactions, statement by statement   (refines ProfileRegister)
    MCProfileStore
    ProfileStoreProofs      safety, audit trail, the refinement, waiting
RecordLedger          what is owed to an external record
Reconciliation        canonical and external runs over places and queue (refines RecordLedger)
    MCReconciliation
    ReconciliationProofs    safety and the refinement
Matcher               FindCandidates, scores, Match
    MCMatcher
    MatcherProofs           the loop, the thresholds, the scores
OsmTags               category, rank, profile and flags of an element's tags (A11y)
  OsmImport           source, batcher and tables over several runs
    MCOsmImport
    OsmImportProofs         profiles and places, what a sweep sees, failures
RateLimiter           buckets, map and evictor
    RateLimiterProofs
KeyRegistry           what the key endpoints promise
  ApiKeys             Register, authenticate, RevokeKey          (refines KeyRegistry)
    Server                  processes, migrations and pools around ApiKeys
      MCServer
      ServerProofs          both modules: keys, the refinement, migrations, pools, waiting
Pagination            ListPlaces followed cursor by cursor under writes
    PaginationProofs        once each; the walk moves on
PlaceRead             GetPlace under writes, and the client that writes back
    PlaceReadProofs
```

An `MC` module holds the values of the constants for TLC; a `Proofs` module holds
theorems and their invariants. Operators marked *Faulty variant* are plausible
mistakes: `PROJECT.json` names, for each property, the one that breaks it.

### Profile store

`row[p]` is the committed profile of a place, `draft[x]` what the transaction of
request `x` has written, `owner[p]` the transaction that holds the row's lock or,
while there is no row, the pending entry of the unique index on `place_id`.
`CheckPlace`, `SelectForUpdate`, `InsertPatched` / `InsertConflict` /
`UpdatePatched` and `CommitPatch` are the statements of
`upsertProfileAttempt`; `InsertConflict` with `attempt` is the loop of
`UpsertProfile`; `AuditPatch` is what `PatchPlaceAccessibility` does with the
result. `SelectIngest` to `CommitIngest` are those of
`UpsertProfileIngestion`, whose SELECT takes no lock. `CreatePlace` is one
transaction. PostgreSQL is at READ COMMITTED: a lock is waited for and the
newest committed version is read; an insert waits for a pending insert of the
same key and then fails or goes on.

A profile is a function of the properties its components can have (`A11y` lists
those whose negation raises a flag, and the two ramps that excuse a step); a
property is rated yes, no, or is absent. A patch gives a property a rating,
clears it (JSON null) or does not mention it. The same `A11y!FlagsOf` computes
the flags of imported elements in `OsmTags`.

### Reconciliation

`pc` is where a run is between two statements, `rows` what the sweep's query
returned, `work` and `decision` what `Match` was asked and answered, `tally` the
counters of the report. What a place or record says is a version, and the
matcher's score of two versions is the constant `Score`; module `Matcher` is
where scores come from. `RecordLedger` forgets runs and places: a record is
delivered, waits, is attached; it may leave the queue only once it is attached.
`MaxFaults` bounds failing statements and crashes,
`MaxStreamed` the records an external run streams, `MaxQueueId` the ids of the
queue, and `MaxAttempts` is where the attempts counter stops counting (nothing
reads it).

### OSM import

`OsmTags` keeps the tests of `filter.go`, `rank.go` and `a11y.go` and reduces a
tag's value to what they tell apart: one amenity for each category and rank,
widths in centimetres (a negative one parses, and is narrow), inclines in
hundredths of a percent, of which only the steepness counts. `OsmImport` streams
a file element by element, buffers, flushes and writes profiles as `batcher.go`
does, and may fail at any step; a sequence of files stands for successive runs,
and users verify profiles in between. A profile write is one step here: its
interleaving with a PATCH is the profile store's subject.

### Rate limiter

Time is integer: a bucket gains one unit a tick and a request takes `Period`
units, so that fractions of a token are kept exactly. `Load`, `LoadOrStore` and
`Allow`, and the evictor's check and delete, are steps of their own. `ideal[k]`
is a bucket nobody evicts and is compared with what requests are granted.

### API keys and the server around them

A key is named by the registration that made it; its text, entropy and hash are
left out. In front of the handlers stand the limiters, the request validator and
the validation of the email: `Limit` is all of them, in the order the code runs
them, and whether they let a request through is a free choice. The partial
unique index on the email of active keys makes an insert wait for an
uncommitted insert or revocation of the same email. A statement may fail
(`Fail`; a failed look-up of a key is answered 401), and a commit may reach the
database and look failed (`CommitUnseen`). `Crash` ends a set of requests at
once, PostgreSQL rolling their transactions back. `late[u]` remembers that the
key of a use was revoked before the use arrived.

`Server` composes the steps of `ApiKeys` with the processes that serve them.
`phase[s]` is where `main` is: `connect`, `driver` (before golang-migrate's
driver has its connection), `lock` (its advisory lock), `check`, and for each
migration `mark` (the version is set, dirty), `apply`, `clear`; then `serve`,
`drain`, `down`. `Exit` stands for every end that is not orderly: an error of
`Connect` or `Migrate`, the 30 seconds of `Shutdown`, a signal while there is no
handler for it, a crash. `Acquire` and `Statement` give each SQL statement a
connection of the process's pool, which a transaction keeps until its last
statement; `Breaks` is a statement or commit that fails. `WithInstance` takes a
connection of the same pool for the migrations (`db.go:83`), and because nothing
closes the migrator or its driver it stays in `driver` until the process ends:
`InUse` counts it beside those of the requests.

### List, read, match

`Pagination` has the clock of the writers run ahead of their commits, so that
timestamps appear in the table out of order, and several readings of the clock
fall into one microsecond, the precision of `timestamptz` and of the cursor.
`matching` is the set of places the filter (radius, box, name) lets through; a
write may move its place into it or out of it. `Rest` is the `WHERE` clause,
filter and cursor together.

`PlaceRead` interleaves arbitrary writes with the two reads of `GetPlace`, and
`SendBack` is a client that puts a component of an answer, with its
`is_inherited` and `source_id`, into a PATCH: the marks are stored with it and
answered as they are stored. `AttributedTruly` says of a component of an answer
that the place it is attributed to stored it; stored marks break that
(`PlaceReadMarks`), and nothing else does (`OnlyStoredMarksMislead`).

`Matcher` takes a name as its sequence of folded words: `TokenSet` drops
repetitions and business suffixes, and the Jaccard index of two token sets is an
exact fraction, as is the score combined from it, the distance and the address,
so that no rounding takes part. `Compatible` is the grouping of categories;
`Fetch` returns the nearest `MaxCandidates` eligible places, in any order among
equals; `Score` is one turn of the loop.

## 3. What the runs check

Every run is exhaustive for its instance. Deadlock is checked except where the
modelled program may stop (a file is read, a walk has ended, a limiter's clock
or grants are used up).

| run | instance | shows |
|---|---|---|
| `ProfileStore` | 2 PATCHes, 1 ingestion write, 1 POST, 1 place with an imported profile and 1 to be created, with or without one, 2 attempts (366 thousand states) | type invariant; no lost update and what it rests on (`WritersSerialized`); flags; one creation logged; no conflict returned; verification kept; every request ends; refinement of `ProfileRegister` |
| `Reconciliation` | 2 canonical runs, each repeated, 1 external run, 1 place that changes, 2 records, 1 fault anywhere (595 thousand) | type invariant; no record dropped; every row counted; the sweep deletes only the row it selected; refinement of `RecordLedger`; the queue drains |
| `OsmImport` | files of one element over all combinations of tags that meet in one mapping, and sequences of files of up to five elements in batches of two (38 thousand) | profiles stay with their places; a sweep starts from tables that say what the file says; a failure loses only the buffer; ranks; flags |
| `RateLimiter` | 2 keys, 2 callers, 2 tokens, 4 ticks, 3 buckets | type invariant; no wrong refusal; over-admission only by requests that overlap an eviction |
| `Server` | 2 processes, 2 migrations, pools of 3 and 2 of which the migrations keep one, 2 registrations of one email, 2 uses, in three loads (438 thousand) | type invariant; one active key per email; one revocation per key; late requests refused; keys as answered; served only migrated; dirty only by accident; refinement of `KeyRegistry`; every accepted request ends |
| `Pagination` | 3 places, pages of 1, 2 writers, 2 readings per microsecond, rows of 2 microseconds, readings up to 4 (2.95 million) | type invariant; unwritten places come exactly once if they match and not at all if not; the walk ends |
| `Matcher` | 3 records, 4 places of which 3 are fetched, at 0, 18, 50 and 51 m, with every kind of name and address, symmetric in the places (378 thousand) | the best near place is matched, and only in a crowd one is missed; a place at the edge is never matched; the address moves the score its own way |
| `PlaceRead` | 3 generations, 2 components, 2 writes, any number of requests | own components win; what is answered was stored where it is attributed, or carries a stored mark (1.8 million) |

Why the bounds are enough.

- `ProfileStore`: conflicts are between two writers of one place, and a third
  and fourth (ingestion, POST) bring the other kinds of writer; two attempts are
  what the code has (`RetrySuffices` says why the second always finds a row).
- `Reconciliation`: the hazards need two sweeps and one external run on one
  record, and a second record to be counted beside it; one fault is enough
  because each failure's effect is checked from every state.
- `OsmImport`: a full batch, a partial one, a batch that fails, a key that comes
  twice in one batch or in two, and a second run.
- `RateLimiter`: `MaxBuckets` and `MaxGrants` allow two evictions and more
  grants than one burst.
- `Server`: the three loads of `MCLoads` share what is too large at once. All
  requests on one process bring two registrations, two revocations, and a
  transaction that waits for another's row or index entry while a third request
  waits for a connection. Two
  processes that start together, one with a single connection for its requests, race
  for the migrations and then serve rival registrations. Two starts of each
  bring a death inside a migration and whoever comes after it. Two migrations
  are the least that has a state between migrations.
- `Pagination`: three rows of equal time put a page boundary between equals with
  a row left over; two writers can commit against the order of their timestamps
  around a third, unwritten place. The table begins with any rows of the past (up
  to the reading `Past`), here of two microseconds; writes are of the second and
  a third.
- `Matcher`: three fetched places give a best one, a tie and a third the loop
  passes over, and the fourth is the one that is not fetched. The distances are
  those where the thresholds change hands; names and addresses are one of each
  outcome the comparison can have.
- `PlaceRead`: a grandparent shows that inheritance goes one generation up; two
  writes are one on either side of the first read.

The theorems of section 5 take the bounds away for the safety of every module.

### Disagreements between code and documentation

Four runs state what a document or comment says and are violated:

- **`ReconcileClobber`**: `internal/place/README.md:50` says that `UpsertBatch`
  does not touch `external_ids`; `repository.go:58` assigns it, and an import
  removes the references sweeps and resolvers have attached. The records have
  left the queue by then.
- **`ProfileIngestRace`**: the comment on `UpsertProfileIngestion` says verified
  rows are skipped; the test is on a row read without a lock, and a PATCH that
  commits before the update is overwritten, with `user_verified` still true.
- **`ServerPoolOfOne`**: `README.md:193` and `internal/db/README.md:17` present
  `DB_MAX_OPEN_CONNS` as the size of the pool. `WithInstance` (`db.go:83`) checks
  one of its connections out and nothing closes the driver, so the handlers have
  one less. With a pool of one the process migrates, listens and leaves every
  request that needs a statement waiting: handlers pass no context to the
  database, so no deadline ends the wait either. The run states `RequestsEnd` for
  one registration, and adds to the fairness that a drain ends after its 30
  seconds.
- **`PlaceReadMarks`**: `internal/a11y/README.md:63` and `pkg/models/README.md:34`
  say that `is_inherited` and `source_id` are computed on reads and not stored. A
  client that sends an inherited component back stores it with its marks
  (`main.go:354`, `repository.go:162-169`); once the component is edited, here or
  at the parent, reads attribute to the parent what it does not say
  (`AnsweredFactsWereStored`).

Met while modelling, described here and not run:

- `internal/identity/README.md:89` says that a failed sweep is made up for by
  the next; a query with a parameter per touched place
  (`internal/unmatched/repository.go:77`) fails each time an import is larger
  than PostgreSQL's 65535 parameters. The model has the limit (`MaxParams`): an
  import of two places with `MaxParams = 2` violates `QueueDrains`. The
  `Reconciliation` run stays below it.
- `README.md:89` and `cmd/api/README.md:55` speak of 60 requests a second per
  key; `main.go:125` gives a key 60 at once and then one a second.
- `api/openapi.yaml:708` says three registrations per IP and hour;
  `main.go:124` (three at once, one more every 20 minutes) allows up to five.
- A valid key is answered 401 when the database fails at its look-up
  (`cmd/api/errors.go:35` makes 401 of every authentication error), where
  `api/openapi.yaml:609` has 401 mean that the key is missing or invalid.
- `pkg/models/README.md:36` says that no handler assigns `UserVerified`; POST and
  PATCH do (`main.go:305`, `main.go:360`), as the models have it.
- The evictor's check and delete (`middleware.go:57-58`) can take a bucket from
  under a request, whose token is then forgiven. `OverAdmitsOnlyRaced` states
  exactly how much.
- The candidate query returns the nearest 32 places (`repository.go:87`), where
  `internal/identity/README.md:21` speaks of all within 50 m.
  `MatchesTheBestNearby` says that only a place with that many others at least
  as near can be missed.
- A place at the record's very spot with an unrelated name and no address scores
  0.5556, above the 0.55 of a low-confidence match: a missing address gives its
  weight to name and distance.
- Streets that are nothing but suffixes normalise to nothing and match each
  other.
- A known street with a mismatch scores less than no address at all
  (`AddressMovesScore` states it as intended).
- A record that was queued and is matched by a later external run keeps its
  queue row until a sweep looks at it (`resolve.go:54`).
- An element that loses its accessibility tags keeps the profile of an earlier
  import (`batcher.go:52`).
- `capacity:disabled` with a value that is no number hides
  `parking:disabled=no` (`osm/a11y.go:68-72`); `ramp=yes` alone does not outweigh
  steps (`osm/a11y.go:113`).
- `updated_at` of a PATCH is read before the wait for the row lock
  (`repository.go:138`), so that a later commit can carry an earlier time.
- The answer that carries a new key may be lost; the email can then neither use
  nor replace the key. `KeysAsAnswered` is the other half: what was handed out
  is in the table.
- The box filter uses `&&` (`internal/geo/queries.go:27`), whose meaning on
  `geography` is PostGIS's; `matching` takes it as given.

## 4. Fairness

- `ProfileStore!FairSpec`: each request that was received keeps being scheduled
  (weak fairness of its steps): a goroutine per request, no lock but
  PostgreSQL's. Arrival, failure and crash are not fair. A free connection is
  taken for granted: the pool is the subject of `Server`.
- `Reconciliation!FairSpec`: a run that is going keeps going, and canonical
  ingests are run again; the schedule is the operator's, and the README's promise
  ("the next ingest's sweep") is about that. Faults are bounded, not excluded.
- `Pagination!FairSpec`: the client asks as long as it is given a cursor.
- `Server!ServerFairSpec`: each accepted request keeps being served (weak
  fairness of `Serve(r)`): a goroutine per request, and a pool and row locks
  that are handed on. No process is bound to start, no request to arrive,
  nothing to fail or to end: a failing statement (`Breaks`) is a step beside
  `Serve`, so that no wait is over because fairness makes it fail. That each of
  its statements is *continuously* possible is not assumed: a waiting request is
  one whose `Serve` is disabled while another holds its connection or row, and
  `RequestsEnd` says that this passes.

Everything else is safety.

## 5. What is proved

TLAPS checks these for every value of the constants, given only the named
assumptions of the modules. The invariants that are not themselves a run's
property were checked by TLC before they were proved.

**`ProfileStoreProofs`.** `NoLostUpdate` is not inductive: it says nothing of a
request before its commit. The invariant `StoreInv` is
`TypeOK /\ WritersSerialized`, where `WritersSerialized` says why the writers of
a place take turns: a request carries what its kind carries and, past its
look-up, names an existing place; who found a row under `FOR UPDATE` owns it
and it has not changed; who is about to commit owns the place and has computed
its row from the committed one; and a second attempt finds a row. One lemma per
action shows that it is kept (`InitInv`, `StepInv`), `StoreInvariant` concludes,
and the theorems follow: `TypeCorrect`, `Serialized`, `NoUpdateLost`,
`RetrySuffices` (for two attempts or more), `FlagsAlwaysMatch`,
`AlwaysVerified`.

`OneCreateInTrail` needs `AuditInv` on top: while an insert is
uncommitted its place has no profile (`InsertersAlone`), and the requests that
have made a profile are one for each place, whatever was rolled back and tried
again (`CreatedOnce`).

`Refinement`: with `applied` the requests that have committed and `acked` those
answered with success, `CommitPatch`, `CommitIngest` and `CreatePlace` are the
register's `ApplyPatch`, `ApplyIngestion` and `Post`, beginnings are `Submit`,
the audit steps `Acknowledge`, and everything else stutters.

`HoldersCommit`, `WaitsEnd` and `RequestsRunOut` are what `EveryRequestEnds`
rests on; see *Waiting* below.

**`ReconciliationProofs`.** `NothingDropped` and `DeletesItsOwn` follow from
`Inv`: where the runs of each kind can be (`WhereRunsAre`), that a run between
two statements knows its record and its decision (`WorkInHand`), that whatever
is queued or in a sweep's hands was delivered (`DeliveredFirst`), and that a run
about to delete has attached (`AttachedBeforeDeleted`). `RowsAreCounted` needs
`Counted`: a run that has not failed has considered as many rows as it has
outcomes, plus the one in hand, and a sweep's remaining rows make up the number
it selected; the set is finite because the queue is. `LedgerRefinement` maps
each statement to a ledger step or a stutter.

**`RateLimiterProofs`.** The evictor and the requests share buckets by
reference, so the invariant says which bucket is whose: one in a caller's hands
is that of the table or was evicted, and never another key's (`CallersKnow`,
`OneKeyEach`); one nobody has made is full (`UnmadeAreFull`). `LevelsFollowIdeal`
then bounds each bucket from both sides: at least the ideal bucket of its key,
which gives `NoWrongRefusal`, and, in the table, at most the ideal one plus what
overlapping requests were forgiven, which gives `OnlyRacesForgiven`.

**`ServerProofs`.** First the key handlers by themselves. `OneActiveKey` counts
the uncommitted insert of an email with its active key, which is what waiting on
the partial unique index amounts to. `Inv` adds to it what a revocation needs:
an active row comes from a registration whose handler has returned
(`RowsWereCommitted`), an uncommitted revocation is of an active key and is the
only one of it (`RevokersHoldTheirRow`), and a handler that still works has
decided nothing (`Phases`, `Asked`, `DecidedWhenReturned`). `OneKeyPerEmail` and
`KeysRefinement` follow. `KeyHistory` is inductive relative to `Inv` and carries
what clients remember: `PresentedWereIssued`, and `GoneForGood`, by which a key
that was revoked before a use arrived is never active again. From it come
`OneRevocation`, `LateRefused` and `AnswersAreTrue`.

Then the processes around them. `Composition` shows that every step of the processes is a
step of `ApiKeys` or leaves it alone, whatever the pools and whoever dies; the
theorems about keys carry over (`ServerOneKey`, `ServerAnswersAreTrue`,
`ServerRefinement`). `ServerInv` is about the migrations: the lock is held by
the one process that migrates (`LockHeld`), a schema that is not dirty is the
first `version` migrations (`SchemaAtVersion`), where a process inside a
migration stands between the two (`AtMigration`), and who left the mark
(`WhoMarked`). `OnlyMigrated` and `DirtyIsAnAccident` follow, for any number of
processes and migrations.

For the pools, `DriversStay` says that the migrations' driver of a process has its
connection from `WithInstance` to the end of the process and that requests are
with processes that serve, `Connected` that `InUse` never exceeds the pool and
that a request with a connection needs it. `PoolsBounded` follows: requests get at
most one connection less than the pool has. So does `OneIsTooFew`, which is
`ServerPoolOfOne` for every instance: nothing can be served from a pool of one.

**`MatcherProofs`.** The loop's invariant: the query left out only what is
crowded by what it returned (`FetchedTheNearest`), the best so far goes before
every place that has been scored and none that has not is nearer than those
(`BestSoFar`), and the decision is the thresholds' on it (`DecidedByBest`). It
gives `BestIsMatched` for any places, names and candidate limit.
`EdgeIsNoMatch` and `AddressHelpsOrHarms` are arithmetic on the score as a
fraction, from the bounds of its parts (`NameScoreType`, `AddressScoreType`,
`ScoreParts`).

**`PlaceReadProofs`.** What is stored while a request lasts is among what it may
have seen, and what it read is too (`ReadsWereSeen`); the answer is computed of
the two reads (`AnswerComputed`). `OwnGoFirst` and `NothingMadeUp` follow, the latter
with the exception for stored marks that `PlaceReadMarks` shows to be needed.

**`OsmImportProofs`.** A stored profile belongs to its place because three
things stay aligned: the two buffers with each other (`Aligned`), the buffer with
the end of what the source has emitted (`BufferIsLatest`: the last element of a
key in the buffer is the last emitted), and the tables with everything before it
(`PlacesFollow`, `ProfilesFollow`, whose `Owed` are the profiles the loop of
`flushNow` has not reached). `ProfilesMatchPlaces` and `SweepSeesEverything` are
not inductive: neither says anything of a buffer that is half written, or of a
run that goes on after a flush. `BufferFits` adds that a batch that is being
written holds no key twice, which is what `ON CONFLICT DO UPDATE` insists on, and
`CountsFollow` that the counters of the report and the buffer add up. `Invariance`
proves them together over any sequence of files, batch size and failures.
`ProfilesStayWithTheirPlaces`, `SweepStartsFromTheFile` and
`FailureLeavesTheRest` are read off; `RanksFollowAmenities` and
`FlagsAreTheBarriers` add what the tag mappings compute
(`RankOfAmenity` and the lemmas about flags), over any integers as measures.

**`PaginationProofs`.** `UnwrittenPlacesOnce` is not inductive either: it does
not say where the cursor stands. `AheadOrBehind` does: an unwritten place that
matches is ahead of the cursor and has not been returned, or behind it and has
been returned once. `WholeMicros` says that the times in the table are those a
cursor can carry, so that a row never falls between the cursor and itself. The
step that matters is `ListPlaces`: the page is the first rows of a finite set in
the order of the query, its last row exists, and what is behind the new cursor is
what was behind the old one and the page (the lemmas about `FirstRows`, from a
least element of a finite set). `OnceEach` concludes. `WalkMovesOn` is an action
property: each request ends the walk or moves the cursor strictly down the list.

**Waiting.** ENABLED is out of the prover's reach, so `CanGoOn` stands in for
it, in `ServerProofs` and in `ProfileStoreProofs` each: it states explicitly
when a request can take its next step without anything failing. `WaitsEnd`
(`[]EveryWaitEnds`) says that whoever cannot go on waits, directly or over the
holders of the connections of its pool, for somebody who can: no circle of waits
is ever closed, over rows, pending index entries and pools. In the profile store
that is so because a transaction that holds a place has all it needs to commit
(`HoldersCommit`); in the server because a transaction has its connection until
it ends, and the connections of a pool, but for the one of the migrations'
driver, are held by requests with a statement to issue or a transaction to end
(`PoolsBounded`). The server's `WaitsEnd` assumes pools of two or more
connections, without which it is false (`OneIsTooFew`). `ServedInBoundedSteps` and
`RequestsRunOut` bound what is left: each step of a request shortens its
`Distance` to the end and nothing lengthens it. These are the safety cores of
`RequestsEnd` and `EveryRequestEnds`, and `WalkMovesOn` that of `WalkEnds`;
fairness completes them, and TLC checks the whole on the instances. On those
instances TLC was also used to check that `CanGoOn` is equivalent to the ENABLED
predicate of the step it stands for.

Only model-checked: the liveness properties `EveryRequestEnds`, `QueueDrains`,
`WalkEnds` and `RequestsEnd` themselves, since fairness and ENABLED are beyond
the prover. Every invariant and every action property of a passing run, and every
refinement, is proved.

## 6. Not modelled

- The checks of single fields in `internal/validation`: stateless; that a request
  may be refused, and where, is in `ApiKeys`. The other models start from inputs
  that have passed.
- The generated server's decoding and encoding, CORS headers, log lines, the
  health and documentation endpoints: none of them holds or changes state.
- Configuration and the ingestion's source registry: read once, in one
  goroutine, before anything else starts.
- Inside modelled components: folding a name into words, the distance formula,
  the geometry of the filters, base64, key generation and hashing, PBF decoding,
  `RetryAfter`, `DiffSync` (no source implements it).
- What each migration creates: the constraints and indexes are part of the
  models that rely on them.
- PostgreSQL, golang-migrate, `database/sql` and `golang.org/x/time/rate` are
  modelled from how the code uses them; the definitions that stand for them are
  marked external.

## 7. Plan

Done first: the profile store with its abstract specification and proofs;
reconciliation; API keys with theirs; the rate limiter; pagination; matcher;
place read; OSM tags and import.

Done since: the server's processes, migrations and pools around the key
endpoints, with faults of statements and commits; the ledger that reconciliation
implements; names, streets, categories and the candidate limit in the matcher;
the filter of the list endpoint; every audit flag, in one module used by all
writers; the client that sends back what it read; proofs for reconciliation, the
rate limiter, the matcher, the place read, the server, the audit trail and the
history of keys; proofs for the import and the list endpoint; the safety cores of
the liveness properties of the profile store, the server and the walk.

To come, the most important first:

1. *Compose.* `OsmImport` with the sweep of `Reconciliation`, so that an import's
   failure decides whether the sweep is reached at all; the key endpoints with
   `ProfileStore`, for a key that is revoked while its write waits for a lock.
2. *Abstract.* A specification of the walk (a set of places that shrinks) which
   `Pagination` implements for the places nobody writes.
3. *Prove.* The safety core of `QueueDrains`: that a sweep without a fault leaves
   fewer matchable rows than it found.
