# Fireline Core in TLA+

TLA+ models of `fireline-core`, the TLC configurations that check them, and
TLAPS proofs about them. Paths are relative to the repository's root.

## The system

`fireline` is one binary with four commands over one SQL table of
*observations* (immutable claims of scanner runs).

| component | source | state | operations | talks to |
|---|---|---|---|---|
| Observation, Fingerprint | `internal/domain/observation.go`, `fingerprint.go` | none | `NewObservation`, `Validate`, `ComputeFingerprint` | called by import |
| Fireline, Rule, Crossing | `internal/domain/fireline.go`, `crossing.go` | none | `Validate`, `ToleranceDuration` | called by the loader and the engine |
| policy loader, engine, diff | `internal/policy/` | the compiled rules, never changed | `LoadFireline`, `NewEngine`, `Evaluate`, `DiffNewlyCaught` | serve, evaluate; CEL is a library |
| repository | `internal/storage/` | the table | `Insert`, `Get`, `List`, `ListByFingerprint` | Postgres (pgx pool), Turso (`database/sql`), memory (tests) |
| migrations | `migrations/`, `*/migrate.go`, `cmd/fireline/migrate.go` | goose's version table | `Up` | the same database |
| configuration | `internal/config`, `cmd/fireline/root.go` | environment | `Load`, `openRepository` | every command |
| import | `cmd/fireline/importcmd.go` | one run's local variables | read, build, open, insert, read back, print | repository |
| evaluate | `cmd/fireline/evaluate.go` | one run's local variables | compile one or two Firelines, list, evaluate, diff | repository, engine |
| read API | `internal/api/api.go` | one goroutine per request | three GET routes | repository, engine |
| serve | `cmd/fireline/serve.go` | the command, its shutdown goroutine, the repository handle | load, open, listen, serve, shut down, close | all of the above |

Commands are separate processes that share the table only. Inside a server,
handlers share the repository handle and the engine with the command that will
close the handle. The hard parts are therefore

* imports, evaluations and requests interleaved over one table, with every one
  of them failing, being killed, or losing the answer to a committed insert;
* three notions of time: when an observation was built (`ingested_at`), when it
  became visible, and the as-of time of an evaluation, captured before the list
  by `evaluate` and after it by the API;
* the order and precision a backend gives to a timestamp column;
* pages: `List` has a limit, so something is always left out, and it must be
  the oldest;
* shutdown, which runs in its own goroutine beside the deferred close.

What makes each component correct:

* import: exit 0 means the printed row is the stored row and stays so; a failed
  or killed run leaves at most one row, exactly what it built.
* repository: a row never changes; one row per id; a page is newest first.
* engine: a crossing for exactly the pairs that match and are old enough; an
  error is an error of the whole evaluation; one as-of time.
* evaluate: the diff compares two Firelines over one page and one time; the
  same question about the past keeps its answer.
* API: what was acknowledged is shown; crossings do not come and go.
* serve: a bad Fireline never serves; a handle never leaks; cancelling stops
  the server, and cleanly.

PROJECT.json lists the hazards behind these, each at its line, with the
properties that watch it.

## Modules

The modules of the whole form a chain of `EXTENDS`, each adding its own variables
and actions; an action says what it leaves unchanged of the modules below it.

    Observations <- Policy <- Store <- Import <- EvaluateCommand
                                             <- Api <- Serve
    EvaluateCommand, Serve <- System <- MCSystem
                              System <- SystemProofs <- LogProofs <- ReportProofs
    Log       is what System implements (INSTANCE)
    Selection <- Policy, Columns, SelectionProofs (which most proofs extend)

Four parts are modelled in more detail beside it, where the whole takes them for
granted:

    Fingerprint <- MCFingerprint, FingerprintProofs
    Migrate     <- MCMigrate, MigrateProofs
    Columns     <- MCColumns, ColumnsProofs
    Memory      <- MCMemory, MemoryProofs;  Contract is what Memory implements (INSTANCE)

* **Observations**: the observation record, its construction, and the columns
  of each backend. `Stored(o)` is what a read returns after an insert of `o`:
  Postgres truncates instants to microseconds (`TIMESTAMPTZ` through pgx) and
  renders JSON its own way (`JSONB`, operator `Jsonb`); Turso keeps both.
  `SortsBefore` is the `ORDER BY ingested_at DESC` of the backend: by instant
  on Postgres, by the characters of the RFC3339Nano text on Turso (`TimeText`
  drops trailing zeros of the fraction as Go does; a second is one symbol
  because its text has a fixed width until the year 9999).
* **Policy**: pure operators. A YAML file is what it decodes to; `WhenType` and
  `Cel` stand for the CEL compiler and evaluator; `Evaluate` runs the pairs in
  page order, rule order inside; durations saturate as `time.Time.Sub` does.
* **Store**: the clock, the table and the statements. A statement is atomic.
  `Pages(limit)` is the set of pages `List` may return, one for each order of
  the rows that tie. `migrate` is one step here.
* **Import**: one run per uuid. `pc` goes `start`, `built`, `open`, `inserted`,
  `ok`; every step may fail; `lost` is a run that exited with an error while its
  statement may still commit (`CommitLate`); `killed` is a signal between steps.
  A run drawing its id from `Ids` by being named by it is the assumption that
  two version 4 uuids never collide.
* **EvaluateCommand**: `StartEvaluate` fixes the as-of time, the limit and the
  compiled Firelines; `ListAndReport` lists once and computes. Nothing of the
  computation is visible to others, so it is one step with the list.
* **Api**: a request is received (or refused with 400 at once), queries the
  store, and for crossings evaluates in a later step, with the clock of that
  step. `Routes` are the routes a configuration's clients use. The fields
  `acked`, `answered` and `arrived` are history for the properties.
* **Serve**: the command's control state (`down`, `compiled`, `opened`,
  `serving`, `returned`, `closed`, `exited` or `failed`), its context and the
  shutdown goroutine. `net/http` is outside the repository: `Serve` returns as
  soon as `Shutdown` begins, and hands no request to a handler after that.
* **System**: all of it, with the fairness and the properties of the whole.
* **Log**: the abstract specification of the whole: an append-only log with
  acknowledgements, whose readers get *cuts* (newest first, nothing twice, full
  unless it has everything, and nothing left out that is newer than something
  shown) and whose seekers get one entry or nothing. In `System!ObservationLog` a
  row is an entry, an exit 0 of import its acknowledgement, and the pages of
  requests and evaluations are what readers were shown.
* **MCSystem**: claims, Firelines and a small CEL for the configurations, and
  `SteadySpec`, the system from a state where a server is up and stays up.
* **Fingerprint**: `ComputeFingerprint` step by step over strings that are
  sequences of bytes: keys collected from a map in any order, sorted, and written
  with NULs between. SHA-256 is taken as injective.
* **Migrate**: `config.Load`, `openRepository` and `fireline migrate` as processes
  with an environment each. Goose is modelled from how `*/migrate.go` calls it
  (no session locker): look for the version table, create it or try again, list
  what is applied, and run the file in a transaction with its version. Any
  statement may fail, lose the answer of its commit, or be cut by a kill. A DSN of
  `:memory:` is a database of its process.
* **Columns**: the conversions around the table that the whole abstracts from:
  decoding a file's `observed_at` with its offset, writing it (Turso as the text
  of the UTC time), scanning it in the zone of another process, and encoding JSON,
  which refuses years that do not have four digits. That the
  Turso driver takes texts for dates is what the comments at `turso.go:28-32` and
  `:167-173` say. A date scanned into a string is formatted, as `database/sql` does;
  the comment at `:172-173` expects such a scan to fail, which would turn the altered
  text into a row that does not scan, a case the model has for times and which breaks
  none of the properties. `writeJSON` sends the status before it encodes.
* **Contract**, **Memory**: what the interface and the shared suite promise, with
  observations as values, and the in-memory store, with a heap of cells behind
  the map, payload and time pointer of each struct. Clients write to whatever they
  can reach. `Memory!Abstract` reads each struct through the heap.
* **Selection**: what a loop that appends what it keeps returns, without recursion.
* **SelectionProofs**, **SystemProofs**, **LogProofs**, **ReportProofs**,
  **FingerprintProofs**, **MigrateProofs**, **ColumnsProofs**, **MemoryProofs**: the
  proofs.

Operators whose comment starts with "Mutant:" are plausible bugs next to the
definition they would replace. No specification uses them; PROJECT.json names the
run and property that rejects each.

## Runs

| run | instance | properties |
|---|---|---|
| `evaluate` | 2 imports of 4 files (one without identity, two of one finding by two scanner versions, one of another), 1 evaluation of every pair of 3 Firelines, limits 1 and 3, clock to 2, Postgres with 2 ticks a microsecond | `TypeOK`, `BuiltObservations`, `RowsComeFromRuns`, `AcknowledgedIsStored`, `ReadBackFindsRow`, `RowsImmutable`, `ReportExact`, `NoSilentRuleError`, `EvaluationShowsAcknowledged`, `FindingHistory`, `ImplementsLog` |
| `replay` | 2 imports, 2 evaluations, Turso with seconds of 2 ticks, clock to 2 | `ReplayStable`, `NewestSecondFirst`, `FindingHistory` |
| `read` | 2 imports, 2 requests for crossings or one observation, tolerances 0 and 1, longest duration 1, a server that is up from 1 to 2, Postgres with 2 ticks a microsecond | `PageShowsAcknowledged`, `NewestFirst`, `GetAnswersAcknowledged`, `FreshRowsCross`, `CrossingsPersist` |
| `progress` | 1 import, 1 evaluation, 1 request of any route, 5 Firelines of which 3 do not compile, the server started, failed, killed and restarted, with fairness | `HandleOwned`, `ImplementsLog`, `RunsEnd`, `RequestsEnd`, `CancelEndsServe` |
| `memory` | 2 clients, 2 ids, 2 instants, one write to shared cells | `NothingShared`, `IsRepository` |
| `fingerprint` | 2 calls, 2 names, 2 scanner versions, maps of up to 3 keys of which some begin others | `DistinctIdentityDistinctValue`, `SameIdentitySameValue` |
| `migrate` | 3 commands, 3 environments, 1 retry, with fairness | `AllOrNothing`, `ConflictsOnlyInRaces`, `MigratedIsUsable`, `CommandsEnd` |
| `columns` | 2 imports, 1 client, Turso, offsets and zones that step over both ends of the calendar | `PrintedIsShown`, `NothingSkipped`, `OKHasBody` |
| `turso_order` | as `replay` with a tenth as the tick | `NewestFirst` is violated |
| `postgres_round_trip` | 1 import | `RoundTrip` is violated |
| `clean_stop` | 1 request | `CleanStop` is violated |
| `migrate_throwaway` | 2 commands with `FIRELINE_TURSO_DSN=:memory:` | `MigratedIsUsable` is violated |

Bounds. Two imports give every order of building, inserting and listing two
rows, which is what pages of one row, ties and evictions need; what holds for more
is proved (below). The clock needs one tick to separate two rows and one more to
pass a tolerance of one; the `read` run goes past `MaxDuration` by making that 1,
and starts its clock at 1 so that files can name an earlier time. Limits of 1
and 3 give a page that is full and one that never is. Two requests or evaluations
are what a property relating two of them needs. The routes of `read` leave out
`GET /observations`, whose handler does with its page what `GET /crossings` does
before it evaluates; `progress` has all three. Its clock stands still: nothing in
it waits for time. In `memory` there is one fingerprint and one limit, the least
that orders, ties and cuts two rows; a negative limit, which no caller gives, and
the filter by fingerprint (`FindingHistory` has that of both SQL backends) are in
the model and not in the instance. Three commands let two
migrations race beside a command that needs the table. Calendars have three
instants: both ends and one between. Safety runs use the symmetry of ids,
requests, evaluations and clients, which no definition tells apart; runs with
fairness use none. The system never stops (`migrate` may always be run again), so
its deadlock check is left on and says nothing beyond that; what could hang is the
subject of `progress`. `fingerprint` and `migrate` disable it: their calls and
commands end.

Fairness is weak and per process. `System!Fairness`: an import, an evaluation,
a handler and the serve command each keep running their own code, an error
return included. That is what the operating system and the Go scheduler give,
with one assumption about the database: a call returns. Nothing is assumed of
the clock, of `migrate`, of clients, of cancellation or of kills, and success of
a step is never assumed. `Migrate!FairSpec` is the same for a command: it goes on,
and every statement may fail. Starting and killing a command are not assumed.

## What the runs found

* **Turso pages are not newest first** (`turso_order`). `ingested_at` is TEXT in
  RFC3339Nano, whose fraction loses its trailing zeros, so `...00Z` sorts after
  `...00.5Z`. Within a second the order is not that of the instants, and with a
  limit the newest row can be the one left out, contrary to
  `internal/storage/repository.go:31`. `replay` shows the damage is confined to
  one second.
* **Postgres does not give back what was inserted** (`postgres_round_trip`):
  JSONB re-renders `raw_payload` and TIMESTAMPTZ keeps microseconds, while the
  shared contract (`internal/storage/storagetest/storagetest.go:198-203`)
  compares both exactly. Everything a reader sees is consistent all the same:
  `AcknowledgedIsStored` holds.
* **The graceful shutdown is not** (`clean_stop`): `Serve` returns when
  `Shutdown` begins, and the deferred `opened.close()` runs under the handlers
  `Shutdown` is waiting for.
* **A throwaway database is thrown away too soon** (`migrate_throwaway`):
  `README.md:69` offers `:memory:` before `fireline migrate` and `fireline import`,
  which are two processes, each with a database of its own; the import finds no
  table.

Four more disagreements were met while modelling. The runs stay clear of them, and
they bound what the properties say:

* Identity components whose strings hold a NUL can collide, since
  `fingerprint.go:34-43` does not escape its separator: `{a: "a\0b\0a"}` and
  `{a: "a", b: "a"}` hash one text. `DistinctIdentityDistinctValue` is about strings
  without NUL. (Postgres refuses NUL in TEXT and JSONB anyway.)
* `memory.Insert` of an id that is there replaces the observation, where the SQL
  backends refuse it. Every caller inserts an id once, and so does `Memory`.
* On Turso a tool version or severity that looks like a date comes back as an
  RFC 3339 time (`turso.go:186-197` scans what the driver parsed into a string).
  `PrintedIsShown` holds of it, because the import prints what it read back; what
  was in the file is neither printed nor evaluated.
* An `observed_at` with an offset may be in the year 10000 or -1 in UTC or in the
  server's zone. On Turso its import exits 1 at the read-back and leaves a row
  that makes every page with it a 500. On Postgres the encoder fails after the
  status line (`api.go:124-130`), and every page with it is a 200 without a body:
  `OKHasBody` holds of Turso only, and `NothingSkipped`, which is proved of both,
  says that this is the only way for a 200 to miss a row of its page.
  `PrintedIsShown` is why no such row comes from an import that exited 0: on Turso
  for all zones, and on Postgres if all processes share one (two zones there are
  how an import can print a time that a server cannot).

## Proofs

Every safety property a passing run checks is a theorem of its specification, for
all values of the constants; six need a hypothesis on the backend or its zones, one on the
strings and two on the environments, named below with the reason. Seven modules hold
the theorems of the components, each from an inductive invariant; `SelectionProofs`
holds the lemmas they share.

**Imports and the table** (`SystemProofs`, either backend):
`ObservationsAreBuilt`, `RowsTraceable`, `AcknowledgedRowsStored`,
`ReadBackIsFound` and `RowsNeverChange`, that is `BuiltObservations`,
`RowsComeFromRuns`, `AcknowledgedIsStored`, `ReadBackFindsRow` and
`RowsImmutable`.

`ImportInv` is the conjunction of the types of the
table and of the import runs with the first four properties. None of the four is inductive
alone: that the row read back is the one stored (`AcknowledgedIsStored`) needs
that a row is determined by its id (`RowsComeFromRuns`), which needs that a run
carries its observation under its own id (`BuiltObservations`). Steps of the
readers leave table and runs alone (`ReadersReadOnly`). The import steps fall
into four kinds, with a lemma each: building (`BuildInv`), moving the control
state only (`ControlInv`), storing a row, at once or late (`RowInv`), and
reading back (`ReadBackInv`). `RowsNeverChange` follows from the invariant and
from `OnlyInsertsWrite`. All conjuncts of `ImportInv` are invariants of the
`evaluate` run.

**The server** (`SystemProofs`, either backend): `HandleIsOwned`
(`HandleOwned`) and `AcknowledgedIsFound` (`GetAnswersAcknowledged`).

`HandleOwned` is not inductive, since it does not say that the handle is closed
once the control state has passed `CloseRepository`; `HandleInv` says in which
states it is open, exactly. `GetAnswersAcknowledged` needs that what a request
took for acknowledged when it came stays so (`AcknowledgedStay`), that the row
of an acknowledged id is the printed one (`GetFindsPrinted`, from `ImportInv` and
the primary key), and that no other route answers a get; `GetInv` collects these.
The many actions of requests come down to a few moves of one request
(`RequestMove`, `RequestMoves`), on which every invariant about requests is proved.

**What pages show** (`LogProofs`, and `ReportProofs` for `NewestFirst`). For
`Backend = "postgres"`: `SystemIsLog` (`ImplementsLog`), `PagesNewestFirst`
(`NewestFirst`), `AcknowledgedIsListed` (`PageShowsAcknowledged`) and
`AcknowledgedIsEvaluated` (`EvaluationShowsAcknowledged`). On either backend:
`HistoryIsComplete` (`FindingHistory`), `SecondsDescend` (`NewestSecondFirst`) and
`TypesHold` (`TypeOK`).

The heart of the refinement is `PageIsCut`: a page of the statement is a cut of the
log. Its order is that of the statement; that it is full unless it has everything
is the pigeonhole principle (an injection of `1..n` into `n` rows is onto). The
rest finds for each action the step of the log it is: a list shows a page, a get
tells its seeker, an insert at once or late appends, the read-back acknowledges,
and all others change nothing that the log has (`ViewOfRequests`, `ViewOfRuns`,
`SilentRequest`). This needs `LogInv`: the import invariant, that the
table is finite, that what a run builds is a claim of a file, and in which control
states a request or evaluation may have a page. That a page is in order
(`PagesInOrder`) is then a fact about the log alone (`LogKeepsOrder`), read back
through the mapping. On Turso the refinement is false (`turso_order` is a
counterexample), hence the hypothesis. `PagesNewestFirst` says more than the order:
a page leaves out a row an earlier answer showed only if it is full of rows at least
as new. That relates two requests, and is proved where those are (`RequestSees`,
below): what an answer showed was of the table, which only grows, and a page taken
later keeps it or has no room (`KeepsTaken`).

`HistoryIsComplete` takes a row of the table and any list the statement may return
for its fingerprint: it has the rows of that fingerprint and no others, these are
the rows of one finding because fingerprints tell findings apart
(`FingerprintOfFinding`), a row acknowledged is among them as it was printed, and
the order is that of the ranks (`HistoryOfRow`).

What a backend's order keeps is its `Rank`: the instant on Postgres, the second
on Turso, where `RankDecides` follows the text as Go writes it (the second before
the fraction, `TimeTextStarts`). `ShownInv` is about ranks, so that one invariant
serves both backends. `ShowsOrEvicts` looks at the row in the table now, the page
was taken then; so the invariant says it of the row the import printed, which
never changes (`ShownStays`), and at the end the two rows are one
(`GetFindsPrinted`). A page is new only when it is taken from the table now
(`RequestSteps`, `RunSteps`), and then it shows all that is acknowledged or is
full (`PageShows`). `TypeInv` adds that pages are of the table's type.

**What evaluations and crossings say** (`ReportProofs`, either backend):
`ReportsAreExact` (`ReportExact`), `NoErrorIsSilent` (`NoSilentRuleError`),
`ReplayIsStable` (`ReplayStable`), `FreshAlwaysCross` (`FreshRowsCross`) and
`CrossingsStay` (`CrossingsPersist`).

`CrossingsAreHits` says what the two nested loops of the engine list: one crossing
for each pair of a rule and an observation that the rule hits, and nothing else;
`KeyedIsOnce` and `DiffReports` the same of `DiffNewlyCaught`.
`SaturationIsExact`: a saturated age compares with a tolerance as the exact one
does, because a tolerance is a duration and instants are not negative. `EvalInv`
says of a run that exits 0 that its report was computed so from a page of the
table (`Reported`), and that it sees what an earlier one saw unless its page is
full (`RunSees`, since rows never go). `ReadInv` is the same for requests, with
the clock: they evaluate after they list, so no row of a page is later than their
time, and a later request has a later one.

**The fingerprint** (`FingerprintProofs`): `FingerprintIsIdentity`
(`SameIdentitySameValue`), for all strings, maps and versions, and
`FindingsAreToldApart` (`DistinctIdentityDistinctValue`) under `NoSeparator`, which
says that no name, key or value has a NUL; with one it is false (see above).

A call has every key of its map in its slice or still to come; once sorted, the
slice is the ascending sequence of the map's keys, which depends on the map alone.
The text can be read back: strings without NUL joined by NULs split at the last
NUL in one way (`LastSplit`), and so the fields of two equal texts are equal one
after the other from the end (`SpelledAlike`), which gives the keys and their
values. That every finite set of strings has one ascending sequence is
`StringsAreOrdered` with `ListExists` and `ListIsComplete`.

**The columns** (`ColumnsProofs`): `NoRowIsSkipped` (`NothingSkipped`) on either
backend; `EveryOKHasBody` (`OKHasBody`) for `Backend = "turso"`; and
`AcknowledgedAreShown` (`PrintedIsShown`) under `ScansAlike`, which is Turso in any
zones or Postgres in one.

`ColumnsInv` says of each answer what it has of what its page owes (`Complete`,
`HasBody`, `Honest`), and of each import that exited 0 that what it printed is its row
scanned in a zone of the processes, and encodes. The crossings of a page are rows of
it (`CrossingsAreRows`), so that an answer without a body always points at a row of
its page. `TursoScans`: what scans on Turso is in UTC and in a year the encoder
takes. `SameScan`: under `ScansAlike` the reader scans what the import printed, so
it encodes here too. Without the hypotheses both are false (see above).

**The in-memory store** (`MemoryProofs`): `CallersShareNothing` (`NothingShared`)
and `StoreIsRepository` (`IsRepository`), for any number of clients,
observations, calls and writes. `MemoryInv` says that every reference of an
observation is in a cell made for its holder and its field (`Owns`), that the
heap is what is reachable, and that it is finite, without which there need be no
name for the next cell (`FreshIs`). An operation makes observations and
fills them from others (`InsertIs`, `ReturnIs`); what it does not write looks the
same (`Kept`), a clone looks like its original (`CloneLooksAlike`), and an
observation determines its id, so a listing of structs and one of views order
alike (`ListingIsSeen`). A write to a cell is then a write to one field of one
view (`SeenEdit`), and each step is a step of `Contract`.

**Migrations** (`MigrateProofs`), for any number of commands and retries and any
environments: `MigrationIsAtomic` (`AllOrNothing`), and under `DatabasesStay`,
which says that no environment's DSN is `:memory:`, `MigratedIsFound`
(`MigratedIsUsable`) and `ConflictIsARace` (`ConflictsOnlyInRaces`).

`MigrateInv` adds to atomicity that a command works on the database its environment
names and that one which takes the migration for applied is right. `RaceInv` says
of a command that found the migration pending, in its way or missing, that no
migrate of its database had exited 0 when it started; it is inductive because
what a migrate finished is found by name (`NamedIsDatabase`, `FinishedIsFound`).

**Induction over data.** The induction theorems of the library take a predicate
as a parameter, which the provers cannot instantiate. `LeastOf` replaces them:
every nonempty set of natural numbers has a least element, and an induction
becomes the least counterexample. With it `SelectedInOrder` says what a loop that
appends what it keeps returns (`Selected`, which the engine and the diff are
written with), `ListExists` that a finite set can be listed in an order,
`FlattenExists` that a sequence of strings has a concatenation, and
`FirstDifference` where two strings first differ.

Assumptions: the named ASSUMEs of the modules and the hypotheses named above. The
ASSUMEs say of what type the constants are, that the special values are
not observations, integers, ids, Firelines or cells, that JSONB renders a payload to
a payload, and that a second is some ticks (`SecondAssumption`, which
`ClockAssumption` implies by arithmetic the provers lack). TLC evaluates them on
every run.

Only model-checked: the liveness properties `RunsEnd`, `RequestsEnd`,
`CancelEndsServe` and `CommandsEnd`, which are beyond the prover. The four
violations are counterexamples of TLC.

## Not modelled

* cobra's parsing of flags, and the two output formats of `evaluate`: nothing
  branches on them after parsing; the wording of errors and logs;
* the inside of the libraries: CEL (`WhenType` and `Cel` are constants), SHA-256,
  goose, the pgx pool and `net/http`, modelled from how the code uses them;
* statements of one connection that interleave below a statement: a statement is
  atomic, and so is a call of the in-memory store, which holds its mutex for all
  of it;
* a clock that is set back: `IngestedAt` and as-of times are of one clock;
* several databases under one system: `Migrate` has them, `System` has one;
* files that are not YAML or JSON: reading fails or gives a value;
* `migrations/*/embed.go`, `policy/doc.go`, `domain/doc.go`: no behaviour.

## Plan

1. (done) Observations, Policy, Store, Import, EvaluateCommand, Api, Serve,
   System; the import invariant, the ownership of the handle and
   the answers of `GET /observations/{id}` proved.
2. (done) Log and the refinement; ListByFingerprint; Contract and Memory;
   Fingerprint; Migrate with the environment; Columns.
3. (done) What pages and evaluations show of what was acknowledged, proved on
   Postgres.
4. (done) All other safety properties proved: reports and crossings, Turso's
   seconds, types, the fingerprint's injectivity, the columns, the in-memory
   store and its refinement of `Contract`.
5. (done) `NewestFirst` about what earlier answers showed, the history of a finding
   on Turso, and answers on Postgres, proved.
6. Left: what evaluations and pages show within a second on Turso has no
   property, because it depends on the texts; and the fairness arguments behind the
   liveness properties, which only TLC checks.
