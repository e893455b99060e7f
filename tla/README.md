# Verification of the grocery price publisher

The program collects retail survey prices from the KAMIS open API, has people
review them, and publishes one reviewed generation at a time on a public web
page, next to the provider's own reference prices of a week, a month and a year
ago. It is a Django application over PostgreSQL: management commands write,
request handlers read, and every rule that matters is enforced twice, by a
service function and by a check constraint or trigger of the database.

This directory models that program in TLA+. TLC checks the models on small
instances; TLAPS proves every safety property of the runs, and both refinements,
for all values of the constants. Paths
below are relative to the repository root; `grocery/` is the application.

## 1. Inventory

| Component | State it keeps | Operations | Hard behaviours |
|---|---|---|---|
| Source configuration and gate (`source/configuration.py`, `registry.py`) | one row per source and revision, immutable once an attempt refers to it | bootstrap, gate evidence, change of state | the look for attempts takes no lock |
| KAMIS client (`source/client.py`) | one acquisition in memory: page, attempt, call budget, rows, receipts | fetch pages, retry, give up | retries share a budget; a source that changes between pages |
| Fetch persistence (`source/persistence.py`, `models.py` FetchAttempt, PageReceipt, SourceArtifact) | attempts, receipts, content-addressed artifacts | start, complete, fail | partial evidence refused, crash between transactions |
| Parse generation (`source/generation.py`, `ingest_kamis_recent.py`) | parse runs, snapshots, reference prices, change facts | start or get, complete, fail | crash, replay of the same bytes, a FAILED run for good |
| Price comparison (`pricing.py`, PriceChangeFact) | change facts | compare, store, check again when read | decimal rounding at a boundary |
| Recent publication (`models.py` 1761-2687, migrations 0006-0008) | review decisions, revisions, activations, the channel | record, seal, activate, roll back, withdraw | concurrent transactions, lost answers, stale expectations, opposite lock orders |
| Public read (`public_read.py`, `historical_*_read.py`, `views.py`, `health.py`) | none | catalog, detail, health, freshness command, history, regions and markets pages | several statements against a moving pointer; a clock |
| Historical ingestion (`historical_ingestion_workflow.py`, `historical_collection*.py`, `historical_generation*.py`) | collections, attempts, parts, monthly and daily facts | plan, run parts again from the first, complete | a run that starts over what another left, equal ordinals, identical bytes |
| Historical publication (`historical_reviews.py`, `historical_publications.py`, `historical_activations.py`) | reviews of three collections, bundles, a second channel | review, seal, activate, roll back, withdraw | bundles of three reviews, revoked reviews |
| Control plane actors (`management/control_plane.py`) | reviewer and publisher rows | resolve and lock | order of locks |
| Backup and restore (`scripts/postgres_backup_restore.py`) | dump, manifest and hash files; the target database | back up, restore, clean up a failed restore | a pointer that moves during the dump, power failure, a createdb of unknown outcome, commands that outlive their client |
| Load profile, smoke and secret checks (`scripts/`) | none of the system's | linear procedures | none |
| Observability, security headers, forms, templates | none | per request | none |

How they interact: an ingest command calls the client, then persistence, then
the parser, each in a transaction of its own. The publication services read what
the parser committed and never call it. The public read sees only rows. All
interaction goes through committed rows and row locks, so a component's contract
is a predicate over rows, and its hazards are the ways in which a transaction, a
crash or a reader can come between two of them. PROJECT.json lists the hazards
with the properties that would catch them.

What makes each component correct:

- **Recent publication.** Reviews of a generation form one chain; only an
  approved and current generation is sealed or activated; the activations are
  the history of the pointer; an exact repetition is answered, not refused;
  every call ends.
- **Fetch.** Limits hold over all retries; what the client accepts, persistence
  accepts; stored evidence reconciles; a command that ends, ends its attempt.
- **Comparison and read.** Whatever is stored can be served; a page is of one
  revision; "current" is never claimed on a stale confirmation.
- **Generations.** Identical bytes are parsed once, whoever fetches them and
  whoever crashes; an outcome fits its content and is final; a receipt stays
  true; what stays open has a known cause.
- **Collections.** However runs overlap or die, attempts are numbered without
  gaps, a VALIDATED collection has exactly the parts of its plan, a run's receipt
  tells what is stored, and every refusal has a cause in other rows.
- **Historical channel.** The reviews of a collection are one chain; the pointer
  moves as an abstract channel says it may; what is sealed can be read page by
  page; a seal of complete approved collections is refused only for a cause.
- **Backup.** A receipt's manifest describes its dump and survives a power
  failure; a verified restore is the backup; a restore drops only its own
  database and says truly whether something is left.

## 2. Modules

| Module | What it models |
|---|---|
| `PublicationChannel` | what either publication channel promises, without its tables |
| `PublicationLedger` | what the tables of recent publication promise: one action per committed transaction |
| `PublicationTransactions` | the three services statement by statement, with PostgreSQL row locks; implements the ledger |
| `PublicationLedgerProofs` | theorems about the ledger |
| `PublicationTransactionsProofs` | what the row locks guarantee; the two refinements and the replays |
| `KamisFetch` | one acquisition after another: client and persistence |
| `KamisFetchProofs` | the limits of the client, acceptance, and the sums over receipts |
| `RecentIngestion` | any number of ingest commands over the attempts, artifacts and parse runs they share |
| `RecentIngestionProofs` | theorems about them |
| `PriceComparison` | the decimal arithmetic, the stored constraint and the reader's check, as operators |
| `PublicRead` | requests of several statements against attempts, parsing and a moving pointer |
| `PublicReadProofs` | theorems about the arithmetic, and what a reader is served |
| `HistoricalPublication` | reviews of collections, bundles, the second pointer and the pages read from a bundle |
| `HistoricalPublicationProofs` | chains, readability, refusals and the refinement of the channel |
| `HistoricalCollection` | runs of the historical ingest commands over the collections they share |
| `HistoricalCollectionProofs` | what overlapping runs leave in the tables |
| `BackupRestore` | the backup and restore tool beside a database in use, lingering commands and power failures |
| `BackupRestoreProofs` | what a manifest, a receipt and a cleanup are worth |
| `MC...` (seven) | the instances TLC checks |

### PublicationLedger and PublicationTransactions

A table is the set of its committed rows (`decisions`, `revisions`,
`activations`; `channel` is the one pointer row). `RecordDecision`,
`SealRevision` and `Transition` are `record_review_decision`,
`seal_recent_publication` and `transition_recent_publication`, each guarded by
what the service, the constraints and the insert trigger ask together.
`CompleteParse` is all the ledger needs of the parser.

`PublicationTransactions` opens these transactions up. A session's `pc` is the
statement it runs next, `holds` its row locks, `seen` the rows a SELECT
returned. A statement that locks waits for other sessions (`Blockers`), then
reads what is committed at that moment (READ COMMITTED). `Abort` is a lost
connection at any statement; `BreakDeadlock` is the server aborting a member of
a cycle. A write is invisible until the commit action, which applies it to the
ledger's tables. `CommitsAreLedgerSteps` is `LedgerSpec`: the refinement mapping
is the identity on the committed tables. The property fails if a service commits
on a check that another session's commit has made false.

A call by command first locks its actor's row. Then the approve command locks the
run, its artifact and the source, which is the opposite order of the service, and
the seal command the revisions its decision and copy already have. A direct call
has actor `None`. The artifact lock is folded into the run's, with which it is
always taken.

### PublicationChannel

What is left of a channel without tables: `sealed` revisions, the `approved` ones
among them, and a log of `events` whose last target is what the public sees.
Seals and revocations come at any time, an approval never comes back, and an
event is possible only where the promise allows it. `ImplementsChannel` states
the refinement for both channels by `INSTANCE ... WITH`: `approved` is computed
from the review rows, `events` from the activations by sequence. The two differ in
one constant. `RollbackNeedsApproval` is TRUE for the recent channel and FALSE for
the historical one, whose insert trigger asks a rollback only for a bundle that
was current before (migration 0027). It is a chain of refinements for the recent
channel: statements implement the ledger, and the tables implement the channel.

### KamisFetch

`step` follows `Command.handle`; the client's locals are variables of the same
name; `attempt` is the FetchAttempt row with its receipts. A call to the source
returns a page with any declared total and row count, a transient or terminal
failure, or a header that does not validate: the reply is chosen
nondeterministically, and `PageVerdict` makes the client's checks in order.
`CompleteFetch` and `FailFetch` apply the acceptance checks of `persistence.py`,
and `Crash` ends the process at any point. The last two checks of the client's
loop (`row_total_exceeded`, the second `page_budget_exceeded`) are unreachable;
`FetchWithinLimits` is the statement that makes them so. `RowsOf` sums a list of
receipts by a recursive function, so that sums can be proved about.

### RecentIngestion

Here a fetch is one step that yields some content or fails, and what matters is
what many commands do to the tables. `command[c]` is what one run of `handle`
remembers between its transactions: its stage, the content, the ParseRun object
with the status it was loaded with (`seen`), the failure it is handling. Each
transaction locks the row it decides on with its first statement, so it is one
step; its outcome is `answered`, `unanswered` (committed, but the command gets an
exception) or `rolled_back`. `GetOrCreate` with the unique keys of artifacts and
parse runs is what makes two commands meet in one row. The parser and
`_validate_result` are functions of the content, given as constants. `Reread`
is the unlocked second look of `_finalize_parse_failure`, including its fallback
to the object in memory. `complete_kamis_fetch`'s own replay branch needs a second
call for one attempt, which no command makes; QUARANTINED is never assigned by
the recent path. `faulted` is history: it records that something other than the
content went wrong for this command.

### PriceComparison and PublicRead

Prices are whole won and percentages whole tenths of a percent, as the decimal
scales of the columns make them; `HalfUp` is `quantize` with `ROUND_HALF_UP`.
The code divides with 16 digits more than its operands have, and the prices have
at most 12, so the intermediate quotient never changes the rounding.

In `PublicRead` a generation stands for an artifact, its parse run and its
sealed revision. `attempts` is the table of ended attempts by completion time;
the lock on the source row serialises completions, so their order is the order
of their times. A request is five steps, one per SELECT and one for the clock.
A request that has read the channel keeps its revision object, so later statements
are about that revision even when the pointer has moved.

### HistoricalPublication

The same reading of transactions as above, in one record per session: `tx[s].at`
is the next statement, `tx[s].holds` the row locks. A `SELECT ... FOR UPDATE` that
joins tables takes all its rows in one step. A collection's `content` is a set of
rows <<series, region, month or date>> with the window its plan asked for, or
`None` before it is complete; prices are left out. `Complete` and `SealableContents`
are `_validate_completeness` and the window checks before it; `BundleOf` is the
sealed row; `LogConsistent` and `PointerMayMove` are the deferred triggers and the
channel's update trigger. The pages are operators over one bundle
(`HistoryRegions`, `RegionDates`, `MarketDates`), each with the window that page
counts back from the bundle's own columns. `HistoryMonths` and `DailySpan` are the
code's 36 and 30 as parameters. The insert of a decision waits while another
session has inserted the same UUID and not committed: `InsertDecision` takes a lock
on the index entry, `<<"new decision", id>>`.

### HistoricalCollection

A run holds in `run[r]` what the command has in memory: the plan, the base
ordinal, the partition at hand, the contents it stored. Each transaction is one
step, because it first locks the row it decides on and what it reads besides is
final once written. `CountAttempts` is a step of its own: the MAX over attempt
ordinals runs outside any transaction. `AttemptOrdinal` is base plus partition,
so two runs with one base collide at their first partition and the unique key
refuses one. An answer of the source is a set of <<region, edition>>; equal sets
are equal bytes, hence one artifact and one parse run, whichever scope or
collection they were asked for. `Stop` ends a run anywhere. `CloseSource` is an
operator whose check for attempts ran before the first one was inserted.

### BackupRestore

`backup[b].at` and `restore[x].at` follow `create_backup` and `restore_backup`. The
database is the log of the pointer, the revoked approvals and a count of session
rows, which moves without touching the publication; `Inventory` and `Canonical` are
the two descriptions the tool takes, each at its own moment, with the dump between
them. A file is content and directory entry, `written` by the tool and `synced` by
fsync; `PowerFails` keeps any set between the two. A command that is reported as
failed was refused, carried out, or goes on (`lingering`) in the container after
its client gave up. `target.creator` is history: the restore that made the
database of that name. `RestoreBreaksOff` is a kill or an exception that passes the
cleanup by, `OperatorDropsTarget` the person who follows a receipt.
`VerifiedRestoreIsTheBackup` says that a verified restore holds what its manifest
says and the dump of a completed backup: its own, unless another restore has filled
the same name again.

## 3. Runs

| Run | Bounds | Shows |
|---|---|---|
| `publication_race` | 3 sessions, 5 calls out of an approval, a revocation, a re-approval, three seals and four moves | every commit is an atomic ledger step; reviews are one chain; only approved generations are published |
| `publication_history` | 2 sessions, 7 calls over two generations, direct and through the commands, with fairness | activations are the gapless history of the pointer; the tables implement the channel; rollbacks return; exact replays of transitions, and of decisions by command, are answered; every call ends although locks are taken in opposite orders |
| `decision_replay_race` | two direct calls | **violation**: of two concurrent exact replays of a decision one is refused |
| `kamis_fetch` | the code's own limits (12 pages, 12 calls, 3 attempts), page sizes 1 and 2, totals from 0 to 25 rows | limits, acceptance, reconciliation, and exactly which errors leave an attempt STARTED |
| `fetch_bad_header` | the same | **violation**: a bad header from page 2 on leaves the attempt STARTED |
| `recent_ingestion` | 3 commands, contents that are accepted, refused by the parser, and refused by the generation; every crash and every outcome of a commit | one generation per content; outcomes fit and stay; receipts stay true; open work has a cause; only stored faults spoil a replay |
| `replay_refused` | 2 commands, one accepted content | **violation**: after a transient error the same bytes are refused for ever |
| `public_read` | 2 generations, 2 series, 5 ticks, age limit 2, one request after another | pages are of one revision; current means confirmed; only tiny differences are refused |
| `tiny_change` | the same | **violation**: 2000 won against 2001 makes the whole page answer 503 |
| `historical_publication` | 2 sessions, 8 calls; 2 monthly, 1 regional and 1 market collection of two series and two regions; 3 bundles, 3 operations; `HistoryMonths` 2, `DailySpan` 2 | one chain of reviews; the tables implement the channel; sealed bundles are readable; seal refusals have a cause |
| `historical_collection` | 3 runs, 2 collections, 2 regions, 2 editions and one the parser rejects; two plans, one with overlapping partitions | gapless attempts; VALIDATED reconciles with the plan; receipts match stored parts; refusals have a cause |
| `backup_restore` | 1 backup, 3 restores under one target name, 2 revisions, 3 activations, 1 session row | the manifest describes the dump and survives; a verified restore is the backup; only own databases are dropped; what is said of the cleanup is true |

Why the bounds suffice. A publication conflict is between two transactions, and
the third session is the one that made the state they conflict over; two
generations and two copy revisions are what the uniqueness of editions can tell
apart. Five calls are the shortest story with an approval, a seal, a revocation
and an activation racing it, and one call to spare; seven are a pointer that
moves three times, with its approvals, its seals and a retry. The fetch limits are not scaled down: 12 pages of
one row reach every limit, and totals of 13 and 25 pass it for both page sizes.
Three ingest commands are
one that creates a run, one that disturbs it and one that finds the result.
Requests write nothing, so one reader stands for any number (the theorems have
any set of them); five ticks fit a confirmation, a failure, a change of content
and an expiry between two statements of a request. Eight historical calls are an
approval and a seal of each monthly collection and moves between their bundles,
with a superseded review among them; two regions and days, or months, on either
side of a window's edge are what completeness and the pages tell apart. Three runs
of a collection are one that leaves rows behind, and two that race over them; two
collections are the earlier owner of the bytes and the later one. Three restores
are one whose createdb is of unknown outcome, one that gets the name and one that
comes after both; three activations let the pointer come back to where it was
between the two descriptions of a backup.

Interchangeable identities are symmetry sets where a run has only safety
properties: sessions in `publication_race` and `historical_publication`, the
commands in `recent_ingestion`, runs and collections in `historical_collection`,
restores and revisions in `backup_restore`. The run with a liveness property uses
none.

`CHECK_DEADLOCK FALSE` stands where the system stops for good: in the publication
runs when `MaxCalls` is used up, in the ingestion and collection runs when every
command has ended, in the backup run when every restore has.

**Fairness.** Only `publication_history` assumes any: weak fairness of each
session's next statement (the server executes what it was sent and grants a lock
that stays free) and of `BreakDeadlock` (`deadlock_timeout` is on by default).
Callers are not fair: nobody need call. Nothing is assumed fair about the
source, the network, the parser, reviewers, publishers or operators.

**Disagreements found.** The four violation runs are findings in PROJECT.json.
(1) `record_review_decision` promises idempotent exact replays but looks for the
UUID before it locks anything. The approve command hides this with its actor
lock (`CommandReplayAnswered`). (2) `fail_kamis_fetch` refuses the evidence of an
error that the client really raises, a bad header on page 2 or later; the attempt
stays STARTED, which the freshness query excludes, so readers do not learn of the
failure. `OnlyTheseStayStarted` names the one other error with this effect: the
call budget running out while a late page is retried. (3) A difference below 0.05
percent is rounded to 0.0 and keeps its direction, which the database admits and
the reader treats as corruption of the whole page. (4) One transient error while
facts are persisted is stored as the final outcome of the only parse run that
content can have, so its replay never makes a candidate.

Three things the code does without contradicting any statement about it, which a
reader of the models should know. While the source
answers a partition with bytes that an earlier collection already parsed, a new
collection cannot be completed (`RefusalsHaveACause`); facts that are
approved again, or collected again unchanged, cannot be sealed again
(`SealRefusalsHaveACause`); and a dropdb that outlives a restore which reported
`target_cleanup_failed` may hit a later database of that name (`DropsOnlyItsOwn`).

## 4. Proofs

All are checked by TLAPS without assumptions beyond the named `ASSUME`s of the
modules, which TLC evaluates on every run. Between them the theorems state every
property of every passing run but one (`CallsEnd`, at the end of this section), for
any number of sessions, commands, runs, restores, generations and calls. PROJECT.json
says which theorem states which property.

- **PublicationLedger** (`LedgerAssumption`: every generation has a fact set,
  NULL is no UUID). `LedgerTypes`; `ReviewsFormChains`;
  `ActivationsAreHistory`; `RollbacksAlwaysReturn`; `OnlyApprovedIsPublished`.
  Chains and history are inductive with the types. A rollback returns because
  its target was current (history) and is not current now. `PublishedFromApproval`
  alone is not inductive: nothing in it says that *unpublished* revisions rest on
  approvals. `PublishedInv` adds that for every sealed revision, and that
  activations only name sealed ones.
- **PublicationTransactions** (`TransactionAssumption`: calls have the shape the
  services take, and the approve command never supersedes). The invariant
  `TransactionInv` has four parts: the tables are the ledger's; what a session has
  in memory fits its stage; no row is locked twice; and of each service, which rows
  it holds at which statement. What follows from the last one is the argument of the
  module. Decisions are committed only by a holder of the source row, so
  they stand still for another reviewer and for a publisher that seals; activations
  are committed only by the holder of the channel row; a reviewer that supersedes
  holds all decisions of its generation, and a publisher that moves the pointer the
  decision of its target. So each commit finds true what was tested statements
  before, and is a ledger step (`CommitsImplementLedger`). `TransactionsKeepPromises`
  carries the ledger's theorems over to the statements, and
  `TransactionsImplementChannel` takes the committed tables to the abstract channel,
  from `PublishedInv` and `ActivationHistory`. `TransitionRetriesAnswered` and
  `CommandRetriesAnswered` say why an exact replay is answered: the row it repeats
  was committed before it looked, behind the channel's lock for a transition, behind
  the actor's for a command.
- **KamisFetch** (`FetchAssumption`: limits are positive and the call limit is
  no smaller than the others). `FetchStaysWithinLimits`, by the invariant
  `FetchInv`: while the client asks for another page, all pages so far were
  full, so rows are `(page - 1) * pageSize`, short of a total that fits into
  `MaxPages` pages; hence the next page number is within the limit. `EvidenceInv`
  adds what the receipts, the error and the attempt row say at each step, and gives
  `FetchTypes`, `ClientResultsAreAccepted`, `EvidenceAlwaysReconciles` and
  `OnlyTwoErrorsStayOpen`. Sums over receipts need an induction that no
  library theorem gives these provers; the proof makes it a statement about a set,
  with the well-foundedness of `<` on the naturals (`AllNumbers`): the
  numbers without the property would have a least one.
- **RecentIngestion** (`IngestionAssumption`: rejections have the codes the
  code has, NULL is none of the values). `IngestionTypes`,
  `ContentsHaveOneGeneration`, `RunOutcomesAreFinal`, `ReceiptsAlwaysTrue`. The
  invariant `Fits` says what a command may rely on at each stage: from
  `StartParse` on, its attempt names the artifact of the content it fetched, its
  run is that artifact's, and a final status it has seen is the run's. `Grows`
  says of every step that rows are only added and terminal runs stay as they
  are, so a step of one command preserves what every other relies on
  (`FitsWhileGrowing`), and each action is checked for its own command only.
  `CausesInv` is about causes: the reason of a failed run fits its content or a
  fault caused it, a command that nothing disturbed and whose content is accepted
  reaches its error handler only behind a FAILED run, and every open run is
  accounted for by a command. It gives `OutcomesFitContents`,
  `OpenWorkIsAccountedFor` and `OnlyStoredFaultsRefuse`.
- **PriceComparison** (in `PublicReadProofs`). `HalfUpIsNearest`, `ComparisonsAreStorable`,
  `ReadableUnlessTiny`: for all prices, every comparison satisfies the column
  constraint, and the reader refuses exactly those that round to zero without
  being zero. This is finding (3) as an equivalence.
- **PublicRead** (`ReadAssumption`: prices are positive). `PagesOfOneRevision`,
  `FreshPagesConfirmed` and `OnlyTinyChangesAreRefused` follow from `ReadInv`,
  which says at each step of a request what has been read so far; `ReadTypes` is the
  type invariant. `ReaderKept`
  is the heart: attempts are appended later than every earlier read and facts
  are written once, so no other process invalidates it. The freshness argument
  needs the order of the reads: the confirmation is read first, so the latest
  attempt read afterwards is that one or a later one.
- **HistoricalPublication** (`HistoricalAssumption`: what a collection can turn out
  to contain lies within its window; calls have the shape the services take).
  `HistoricalInv` is `TablesInv` and `SessionsInv`. The second says that a reviewer
  about to decide holds its collection, the decisions about it and the new UUID; a
  publisher about to seal, the collections and sources of its three reviews; a
  publisher about to move, the channel and its target with its reviews; and that no
  two sessions hold a row. `HistoricalTypes` and `ReviewsFormChains` are parts of it.
  `SealedBundlesAreReadable` needs one more argument (`CompleteIsReadable`): sealing
  bounds the span of the daily plans, so every shared date, in particular the last
  (`GreatestNumber`), is near enough to the others for the window that a page
  counts back from it. `HistoricalImplementsChannel` shows that commits of
  decisions, bundles and activations revoke, seal and move, and that every other
  step stutters. `SealRefusalsAreJustified` follows the one call to each statement
  that can refuse it.
- **HistoricalCollection** (`CollectionAssumption`: plans are lists of different
  scopes whose answers are contents; `NoneAssumption`). `CollectionInv`: an ordinal
  that a run finds free is the next one, so attempts have no gaps; only a STARTED attempt is
  overwritten, and only by the one run that made it, so what was fetched stays
  fetched (`FetchedGrows`); a part never changes and was fetched for its scope; and
  a run reaches partition `i` with the parts before it stored. It gives
  `CollectionTypes`, `AttemptsHaveNoGaps`, `ValidatedCollectionsAreWhole`,
  `ReceiptsAreTrue` and `RefusalsAreJustified`. `Frame` plays the role of `Grows`.
- **BackupRestore** (`BackupAssumption`, `DatabaseAssumption` and `CodeAssumption`:
  NULL is no value). `BackupRestoreInv`: a dump lies between two descriptions that
  are equal; the events are only appended, so it holds the events that both
  describe; what is written and fsynced follows from the stage of the backup; and
  while no cleanup has failed, the target of a restore at work is its own. It
  gives `BackupTypes`, `ManifestsDescribe`, `ReceiptsSurvive`,
  `CleanupClaimsAreTrue`, `VerifiedRestoresAreBackups` and `CleanupsDropTheirOwn`.

The types of `HistoricalCollection` and `BackupRestore` (`CollectionTypes`,
`BackupTypes`) are proved and not listed by a run.

Only model-checked: `CallsEnd`, because liveness under fairness and ENABLED are beyond
the prover. The properties of the violation runs are false, so there is nothing to
prove; what a theorem can say about them is in `OnlyTwoErrorsStayOpen`,
`ReadableUnlessTiny` and `OnlyStoredFaultsRefuse`, which bound the cases. That the
checks of the client's last statements are unreachable rests on
`FetchStaysWithinLimits`. No proof uses the bounds of a run; `MaxCalls`,
`MaxActivations`, `MaxSessions` and `MaxTime` are any numbers.

## 5. What is abstracted, and what is not modelled

- Hashes are identities of what they hash. Gate timestamps and roles are constant
  for every generation that exists, since a configuration is immutable after its
  first attempt (`models.py:363-378`), and are not modelled. That check looks for
  attempts without a lock; what follows from it is `CloseSource` in
  `HistoricalCollection`. `QUARANTINED` is a parse status no code writes.
- Foreign-key checks and triggers take `FOR KEY SHARE`, `FOR SHARE` and
  `FOR UPDATE` locks of their own on rows the services hold already or on
  rows nobody updates; they can only add waiting, which the deadlock detector
  resolves like any other.
- `KamisFetch` leaves out byte limits and delays; database faults during
  `fail_kamis_fetch` are in `RecentIngestion`. Replies are one acquisition's: other acquisitions share no
  state with it before completion.
- `PublicRead` leaves out filters, sorting, pagination and the limit on entries;
  the check of every entry comes before all of them in the code. A superseding
  review does not withdraw a publication, in the code or here.
- `HistoricalPublication` leaves out prices, evidence and result hashes, the dates of
  the rights gate, the freshness label of the historical pages and their paging.
  It has one source per kind of collection, as the registry does.
- `HistoricalCollection` leaves out dates within a collection, prices and decimal
  columns; its three kinds take the same steps on different columns. The request
  shapes and byte limits of the historical client are not in `KamisFetch`.
- `BackupRestore` folds Docker, environment, version and file-mode checks into one
  nondeterministic failure, and the migration list into the inventory. A receipt
  is read by its own hash, so a replaced manifest is `backup_invalid`.
- Not modelled at all: views, forms, templates, headers and logging, which have no
  state that outlives a request; the load profile, smoke test and secret checks,
  which act on the system from outside; bootstrap of users and configuration,
  which runs once before anything else.

## 6. Plan

The models cover every component with state of its own, and the safety properties and
refinements are proved. What could still be added:

1. Finer models of what section 5 abstracts, in this order: the configuration's
   own life cycle (gate evidence and state beside the first attempt); the byte
   limits and delays of the clients; the freshness label of the historical pages.
   Each needs its invariant extended, and the proofs above show which parts.
2. A second writer of the recent tables that does not take the locks (an operator's
   SQL, a migration): the triggers alone must then keep the ledger's promises, which
   would split `TransactionInv` into what locks give and what triggers give.
3. `CallsEnd` stays with TLC; a larger instance of it, with three sessions, is the
   only property a bigger machine would tell more about.
