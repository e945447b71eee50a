# bookhound: a TLA+ model

`bookhound` is a command-line program that looks for documents (PDFs) on the
web, keeps a catalogue of them in one SQLite database, and downloads those whose
license allows it. This directory models the parts of it whose correctness
depends on the order of things: several commands working on one database, one
lock file and one download directory, and each of them stopping anywhere.

Paths below are relative to `src/src/bookhound/`.

## 1. The system

| Part | Code | State | Operations |
|---|---|---|---|
| Job queue | `jobs.py` | table `crawl_jobs`: status, priority, retries, next_run_at | `create`, `claim_next_pending`, `mark_retryable` |
| Daemon runner | `daemon.py` | the lock file; events | `run_once`, called by cron or by hand, by any number of processes |
| Catalogue | `repositories.py`, `collect_service.py` | tables queries, collection_steps, sources, documents, document_urls, license_evidence, events | `begin_collection`, `save_collection_step`, `finish_collection`, `save_discovery_result`; listings |
| Commands | `cli.py`, `app_factory.py` | local variables of a run: URLs seen, summary | `search`, `collect`, `download`, `job add`, `daemon run-once`, `export` |
| Downloads | `download_workflow.py`, `downloader.py`, `license_classifier.py` | the download directory; table downloads | gate, prompt, request, temporary file, rename, row |
| Database | `database.py` | table schema_migrations and the schema | `initialize_database` at the start of every command |
| Discovery pipeline | `discovery_pipeline.py`, `query_planner.py`, `sources.py` | candidates by canonical URL | `iter_search` (a step at a time), `search` (all at once) |
| Crawling sources | `seed_crawler.py`, `sitemap.py`, `link_expansion.py` | queue, visited pages, counters, robots.txt cache | `search`, `expand` |
| Remote sources | `arxiv.py`, `common_crawl.py`, `google_search.py`, `unpaywall.py` | none | one request and its parsing |
| HTTP client | `http_client.py` | time of the last request by key, cache | `get` with retries and a rate limit |
| Strings | `url_normalization.py`, `html_links.py`, `html_evidence.py`, `text_decoding.py`, `relevance_scoring.py` | none | pure functions |
| Document comparison | `deduplication.py` | none | `compare_documents`, not called by the program |
| Export | `export.py`, `jobs_daemon_export.py` | none | one SELECT to a file |
| Configuration, logging | `config.py`, `logging_config.py`, `models.py`, `__main__.py` | read once | |

How they interact: every command opens the database (and migrates it), builds
its objects in `app_factory.py` and runs to its end in one thread. `daemon
run-once` takes the lock file, claims one job, and runs the pipeline and
`save_discovery_result` for it through `CollectJobExecutor`. `collect` pulls
steps from the pipeline and commits each one. `download` reads candidates and
their license evidence from the catalogue, asks the classifier and the user, and
writes files and rows. There are no threads and no messages inside a process:
the concurrency is between processes, and they share the database, the lock file
and the download directory.

What is hard, and what makes each part right:

- *Job queue and daemon.* Two runs at once, with the SELECT and the UPDATE of a
  claim in separate statements; a stale lock recovered by two runs; a process
  killed with the lock or with a claimed job; exceptions between a commit and
  the event that reports it. Right if no job is in two hands, a retry time is
  kept, runs exclude each other, events agree with the table, nobody removes the
  lock of another, and jobs are completed in the end.
- *Catalogue.* Long transactions of which any row may be refused; other processes
  committing between the steps of a run; a URL or an identifier that comes back
  with other companions. Right if a step is all or nothing, the counts reported
  are the rows inserted, and URL, document and evidence stay together.
- *Downloads.* Evidence of several kinds for several URLs of one document; a file
  system and a database that cannot change together; two runs in one directory; a
  row that is refused after its file exists. Right if nothing is written against
  the evidence, every row has its file, and the summary is what happened.
- *Migration.* Two first commands at once; a process killed between statements.
  Right if a recorded version is there in full and no command works on less than
  the whole schema.
- *Crawling.* Cycles, limits, robots.txt that cannot be fetched, pages that fail.
  Right if robots.txt is respected, a seed yields exactly what is within reach and
  limits, and a search ends.
- *Discovery pipeline.* The same document from several sources, in several variants
  and under several forms of its URL; sitemaps that name each other; entries and
  links that cannot be read as a URL; answers of another shape; any request failing. Right if every URL has one
  entry, the best of its finds; if a failure that is caught costs its own step only and
  nothing else but what cannot be read ends the run; and if what a
  limit leaves out is reported.
- *HTTP client.* Retries under a rate limit. Right if requests of a key are an
  interval apart.

`PROJECT.json` lists these hazards one by one, each at its line.

## 2. The modules

| Module | What it is |
|---|---|
| `JobLedger` | what the job queue promises, without lock, claims in two steps or processes |
| `Daemon` | `run_once` and `crawl_jobs`, one action per system call on the lock file and per committed statement |
| `Collect` | the writing half of the catalogue under `collect` and under a daemon's job |
| `Download` | license gate, files and rows of `download` |
| `Migration` | `initialize_database`, a statement at a time, by several commands on one file |
| `HttpClient` | one `get` of the HTTP client: rate limit, attempts, end |
| `SeedCrawler` | extends `HttpClient`: the searches of the seed crawler and its robots policy |
| `Web` | what the traversals share: URLs, their canonical forms, the contents of the web |
| `Sitemap` | extends `Web`: the search of the sitemap source |
| `LinkExpansion` | extends `Web`: one expansion of the links of candidates |
| `Discovery` | extends `Sitemap` and `LinkExpansion`: the pipeline over the sources and its merge |
| `MCDaemon`, `MCCollect`, `MCDownload`, `MCMigration`, `MCSeedCrawler`, `MCDiscovery` | the values of the constants for TLC |
| `DaemonProofs`, `CollectProofs`, `DownloadProofs`, `MigrationProofs`, `SeedCrawlerProofs`, `DiscoveryProofs` | theorems and proofs about the module of that name |
| `TraversalProofs` | extends `DiscoveryProofs`: theorems about the sitemap search and the link expansion |
| `GeneralLemmas` | induction, recursive functions, sequences and sums over finite sets: what several proofs need and no library module states |

Definitions named after mistakes (`ClaimUnconditional`, `WriteFailsKept`, ...)
are not part of any specification. Each one stands for a change of the code that
a property of the runs must notice; `PROJECT.json` pairs them under `mutants`.

### 2.1 Daemon

| Variable | Code |
|---|---|
| `lockOwner`, `lockMtime` | existence and modification time of `lock_path`; the owner is a history variable, the file does not say |
| `pc`, `started`, `job`, `number` | the position in `run_once` and its locals `now`, `job`, `retries` |
| `status`, `priority`, `retries`, `nextRun` | the row of `crawl_jobs`; 0 is NULL for `next_run_at` |
| `failedEvents`, `completedEvents` | rows of `events` |
| `collectEvents` | rows of `events` too: one for each time the result of a job was committed to the catalogue |
| `clock` | ticks, `TicksPerSecond` to a second; monotonic |

| Action | Code |
|---|---|
| `AddJob` | `job add` |
| `Begin`, `CheckAge`, `UnlinkStale`, `Acquire` | `exists()`, `_is_stale_lock`, `unlink`, `_acquire_lock` (`daemon.py` 61-82) |
| `Select`, `Claim` | the two statements of `claim_next_pending` (`jobs.py` 56-100) |
| `Execute` | `execute_job` saves its result (the transaction of `Collect`'s `StartJob` to `CommitJob`) and returns, or raises |
| `MarkRetryable`, `ReadRetries`, `RecordFailed` | the `except` branch and the two statements of `mark_retryable` |
| `MarkCompleted`, `Finish`, `Release` | `_mark_job_completed`, the completed event, `finally` |
| `Crash`, `Abort` | a killed process; an exception of the bookkeeping, which leaves through `finally` |

Times are compared as `jobs.py` compares them, as text: `isoformat` writes no fraction
for a whole second, and `Z` sorts after `.`, so a whole second is later than every
fraction of it (`SortKey`, `Arrived`). A retry can therefore start up to a second
early, and `NeverBeforeRetryTime` is stated to the second.

`JobLedger` has a stage and a retry count per job and five kinds of step: add, take,
put back, complete and abandon. A running row that no process holds maps to
"abandoned"; the lock, the SELECT and the events map to stutters.

### 2.2 Collect

`db` is what is committed, `work` what the open transaction sees; SQLite lets one
process write (`writer`). The first statement of every transaction is an INSERT,
so `BEGIN` and that statement are one step. A candidate carries what persistence
looks at: its canonical URL, DOI, ISBN, source and evidence. `Saved`, `Outcome`
and `Rejected` are `_save_discovery_candidate`, what it counts, and the UNIQUE
columns that refuse it. `StartCollect`, `BeginStep`, `SaveCandidate`,
`CommitStep`, `FailedStep`, `FinishCollection` are the loop of
`_save_incremental_collect_result`; `StartJob` and `CommitJob` are
`save_discovery_result` for a job. `CandidateRejected`, `Busy` and `Crash` end a
run. `seen` is `seen_canonical_urls`, and `Fresh` the filter of
`_filter_seen_collection_candidates`. History is which query inserted a row (`by`) and
what a step or job found (`found`): all of it, before that filter. A source that comes
with a URL its run has had already is dropped by the filter and never reaches the
catalogue, so `CatalogIsWhatStepsFound` compares the URLs with all finds, and the sources
with the finds that were first of their run.

### 2.3 Download

A path is a URL and the hash of a content; files are inodes, so that a name can
come to stand for what another process has open. `Prepare` reads candidates and
evidence once; `NextCandidate` and `Prompt` are the gate; `Fetch` is the request
and its checks; `OpenTemp`, `WriteTemp`, `ReplaceTemp` and `UnlinkTemp` (of its `except`
block) are `_write_pdf_atomically`, a system call each, between which another run may
act; `InsertRow` is `downloads.add`,
with the transaction that a refused INSERT leaves open. `OtherBegin` and
`OtherCommit` are any other command that writes to the database.

### 2.4 Migration

The tables and indexes of a schema version are numbered parts of it, in the order
of its script; `objects` are those there are, `versions` the committed rows of
`schema_migrations`, and `writer` and `inserted` the one transaction that may be
open. `Open`, `CreateMigrationsTable`, `ReadVersion`, `CreatePart`, `ScriptDone`,
`RecordVersion` and `Commit` are the statements of `_apply_migrations`; a `CREATE`
commits by itself, and `executescript` commits what is open before it begins, so
`Commit` stands both for that and for the commit at the end. Of two commands that
migrate one file, the later one has its version refused by the PRIMARY KEY and
ends with an IntegrityError, or finds the database locked (`Busy`): the model
lets it fail and start again. `Exit` is the end of the command, `Crash` a kill.

### 2.5 HttpClient and SeedCrawler

`HttpClient` counts time in ticks and only up to the interval, because the code
only asks whether the interval is over. `elapsed` is what
`_last_request_at_by_key` says, `silence` (history) what the transport saw. `Get`,
`ApplyRateLimit`, `Send`, `Retry` and `Return` are the steps of
`_send_with_retries`; whether a `Return` is a response or an exception is for the
module that made the request to say. `SeedCrawler` is that module: `StartSearch`,
`EndSeed`, `TakePage`, `RequestPage`, `PageArrives`, `PageFails`, `SkipLink`,
`FollowLink` and `LinksDone` are `search` and `_crawl_seed`; `AskRobots`,
`RobotsArrives` and `RobotsUnavailable` are `RuntimeRobotsPolicy`, which a page or a
link waits for when its site is new. A failure of a page ends the search of all
seeds with no candidates, as `run_source_search` turns it into an empty result. `Raise`
is what it does not turn into one: the `ValueError` of `urljoin` for a link, the
`InvalidURL` of httpx for a page or a robots.txt; the run it belongs to is over then
(`pc = "raised"`). The seeds themselves are taken to be readable.
The links of each page are chosen at the beginning (`web`), the contents of
robots.txt when it arrives. Policies and the times of requests last from one search
to the next, which is another variant of the query.

### 2.6 Web, Sitemap, LinkExpansion and Discovery

`Web` has URLs as values. What `canonicalize_url` makes of them is a constant; a URL is
odd if that raises, unparsable if `urlsplit` and `urljoin` raise already, and unsendable if
httpx raises `InvalidURL` for it. A URL can be odd and still a PDF
(`safe_is_direct_pdf_url` does not read the port). The configured roots and seeds are taken
to be neither unparsable nor unsendable. The web
is chosen at the beginning and stays. `Selected` stands for the filters of the code;
it is defined without recursion, so that theorems can speak of it.

| Actions | Code |
|---|---|
| `ReadRobots`, `NextRoot` | the loop over the roots, `_sitemaps_from_root` |
| `SkipForLimit`, `SkipSeen`, `ReadIndex`, `ReadUrlset`, `ReadOther` | one turn of the loop of `sitemap_queue` with `_read_sitemap` and `_candidates_from_urlset` |
| `PageArrives`, `PageRefused` | one turn of the loop of `queued_pages` |
| `SkipLink`, `TakeLink` | one turn of the loop over the links of a page |
| `SearchSource`, `SourceFails` | `run_source_search` of a remote source: one of its answers, or a failure that it catches |
| `SourceRaises` | an answer of another shape than the adapter reads: `ValidationError` for a result without title or URL, `AttributeError` for a list in place of an object. `run_source_search` catches neither |
| `StartSitemaps`, `SearchSitemaps`, `SitemapsEnd`, `SitemapsFail` | the same of the sitemap source |
| `StartExpansion`, `ExpandLinks`, `ExpansionEnds`, `ExpansionFails` | `_link_expansion_step` |
| `AddCandidate`, `Yield` | `_add_candidate`, and the next step of `iter_search` |
| `SitemapsRaise`, `ExpansionError`, `AddRaises` | the ValueErrors and InvalidURLs that nothing catches |

A find is a candidate as a step reported it; an entry of `table` says which find it
keeps, of which finds it was merged, and how many. `asked`, `opened`, `finds` and
`steps` are history. `iter_search` and `search` do the same until the last step; that
`search` then sorts its list is left out, as is the text of a link, which adds to its
score. Link expansion is always the last step of a variant here; `build_link_expander`
(`app_factory.py`) returns none when the configuration disables it, and the pipeline
without that step is not modelled. Neither is an httpx that is not installed
(`http_client.py` raises a RuntimeError for it, with the first request). The two
`continue`s of `expand` that ask about a visited page and about the depth are never
reached (`PagesOnce` and the type of `pages` say so), and neither is the second
check of a sitemap against the frontier, which is not queued without the first.

## 3. What is checked

| Run | Bounds | What it shows |
|---|---|---|
| `daemon_production` | 2 processes, 2 jobs, 2 priorities, clock to 2, 2 failures a job, 1 fault, fair | runs exclude each other, only the creator of the lock removes it, every reported failure has its own number; without faults every job is completed and the lock comes back |
| `daemon_stale` | 2 processes, 2 jobs, 1 priority, stale-lock recovery, half seconds, clock to 2, 1 failure a job, 1 fault, fair | one owner per job, owned rows are running, retry times, events and catalogue, an abandoned lock is recovered, `JobLedger` |
| `daemon_freshlock` | violation; 2 processes, no fault | recovery removes a lock that is not stale |
| `collect_catalog` | 2 processes, 2 steps of up to 2 candidates, 1 fault | steps are all or nothing; the catalogue has every URL that was found, and the sources that were first of their run to find it; counts and evidence agree with it |
| `collect_live` | 2 processes, steps of 1 candidate, 1 fault, fair | transactions end, runs end |
| `collect_identifiers` | violation | an identifier is replaced |
| `download_gate` | 2 runs one after the other, 2 URLs of one document, 2 contents, 2 pieces of evidence at any time, 1 fault | the gate; rows have whole files |
| `download_parallel` | 2 runs at once, 2 faults, fair | at most one file without a row for each fault, summaries are right, no temporary file stays, transactions end |
| `download_torn` | violation | two runs share a temporary name |
| `migration_starts` | 3 processes, versions of 2, 1 and 2 parts, a new file or one of any release, 1 fault, fair | recorded versions are complete, commands find the whole schema, the migration gets done |
| `crawler_search` | 2 searches, 2 seeds, 10 URLs on 5 sites (three that cannot be parsed or requested), 4 webs, depth 2, 3 pages a seed, interval 2, 1 retry, any robots.txt and any failure, fair | robots.txt respected and asked for once, least depth, exact results, spaced requests, searches end: by a result, a failure or an exception |
| `discovery_search` | 2 variants, a remote source, the sitemaps of 2 roots and link expansion, 14 URLs, 8 webs, 3 sitemap files, 4 entries, depth 2, 3 candidates an expansion, any failure of any request, answers of an unexpected shape, fair | traversals are exact and report what they leave out, one entry per URL with its best find, a failure that is caught costs its step only and nothing but an unexpected answer or an unreadable URL ends it, and it does end |

Why the bounds are enough. A conflict between runs needs two of them; a third
adds no new pair of steps, except for the stale lock, where the slot that has
been killed runs again. Two jobs are needed for priority and for a claim that
finds its row gone; two failures of one job for a number reported twice. The
clock reaches one retry delay past a retry and one stale age past a crash (`daemon_stale`
holds with a clock to 3 as well: 1,322,850 states, four to five minutes). The
candidates of `MCCollect` are chosen so that each of the interesting relations
occurs: a known URL with other identifiers, a DOI with a new ISBN and the
reverse, both identifiers of two documents, and one URL from two sources; two
steps are needed to meet a URL again in one run, two candidates to fail after a
save. In `Download` two URLs of one document, one of a trusted domain, let the
evidence of one decide for the other, and a content that both serve is
recorded twice. In `Migration` one process can be killed while two others race. The
webs of `MCSeedCrawler` have a page at two distances, circles, a chain longer than
the depth, more pages than the limit and links that cannot be parsed or requested; an interval of 2 ticks with requests of 0
or 1 lets a request come too early, in time, and after a retry. Half seconds are
enough for a time with a fraction and one without. The webs of `MCDiscovery` each bring
one of the cases about: everything within the limits, indexes in a circle that come to
the limit of files, more entries and links than their limits, and a URL that cannot be
read or requested in each of the places one is met; two of its URLs are one document. Two
variants let the second one find, expand and merge what the first one found.

Fairness. `daemon_production` and `daemon_stale` assume that cron starts the command again and again and
that a started process is scheduled (weak fairness of every process's steps and of
time), and that an attempt at a job fails only `MaxRetries` times. The code
retries for ever, so a job that never succeeds is never completed, and one of high
priority whose retry time keeps coming round can hold the others back: `MaxRetries`
leaves that case out, and `JobsComplete` says nothing about it. A killed process may leave a lock or a running job for
ever without recovery, so the two properties of `daemon_production` speak of
behaviours without faults. `migration_starts` assumes that processes are scheduled
and that somebody runs a command again and again; `crawler_search` that its one thread
runs and that a request ends, by its timeout at the latest; `discovery_search` the same,
and that the command takes every step the pipeline yields. `collect_live` and `download_parallel` assume only that a started
command is scheduled, its prompt answered and its requests ended by their
timeout; that a command is started is assumed nowhere there.

Bounds of the models, all named: `MaxClock`, `MaxRetries`, `MaxFaults`,
`MaxBatch`, `MaxSteps`, `MaxActive`, `MaxEvidence`, `MaxLatency`, `MaxSearches`, `Variants`
(`MaxSitemapFiles`, `MaxUrlEntries`, `MaxDepth`, `MaxCandidates` and the like are limits
of the program). Deadlock is checked in every
run; `AllEnded` is the end of a model in which all commands have returned.

## 4. Where the code differs from what it says

- *A fresh lock is removed* (`daemon_freshlock`, `daemon.py:68`). Age and unlink
  are two steps, and the unlink is by name. In the trace nobody is killed and only one
  run judges a lock stale: d1 is slow, d2 finds its lock old enough; d1 then ends and its
  `finally` removes that lock; the slot of d1 begins again (a third run) and creates a
  fresh lock; d2's unlink removes this one. (That d1's own `finally` may remove the lock
  of the run that recovered it is another hazard, which `OnlyOwnerUnlocks` excludes for
  the configuration that is built.) `build_daemon_runner` does not enable recovery, so
  today's commands do not meet it.
- *Identifiers drift* (`collect_identifiers`, `repositories.py:718`). The tests of
  `deduplication.py` say that documents with conflicting identifiers are not
  merged; the repositories find a document by one identifier and overwrite the
  other.
- *Torn files* (`download_torn`, `downloader.py:164`). Two runs share the name
  of the temporary file, so the rename is not atomic for the content.

The failures that the pipeline survives are those `run_source_search` lists.
`test_pipeline_continues_after_real_adapter_failure` (`src/tests/test_source_execution.py`)
has one of them, JSON that does not parse; JSON that parses to another shape ends the
whole run (`SourceRaises`). No text of the repository promises otherwise, so
`FailuresContained` states what the code does.

## 5. What is proved

The theorems hold for every value of the constants that satisfies the ASSUMEs of
the modules: any number of processes, jobs, URLs and contents, and no bound on
clocks, retries or faults except that the bounds are numbers.

*Daemon, with or without stale-lock recovery* (`DaemonProofs`). `TypeCorrect`,
`OneOwnerPerJob`, `OwnedRowsAreRunning`, `RetryTimeRespected`, `EventsAgree`. None
of the invariants is inductive alone: that a claimed row is running depends on
nobody else having it, and the reverse. The inductive invariant joins them to the
fact that a process past `select` has a job in hand (`JobInHand`) and that a row
is claimed only while pending. The conditional UPDATE is where two owners are
excluded; the lock is not used.

*Daemon as built* (`StaleRecovery = FALSE`): `ProductionMutualExclusion`,
`ProductionUnlock`, `ProductionFailureNumbers`. Invariant: a process at a step
of the try block is the owner of the lock. The failure numbers need mutual
exclusion, because count and read are separate statements.

*Refinement* (`DaemonProofs`): `LedgerImplemented`, every step of `Daemon` is a
step of `JobLedger` or a stutter.

*Catalogue* (`CollectProofs`): `TypeCorrect`, `CatalogExact`,
`EvidenceStays`, `KnownKept`, `SummaryExact`, for any number of processes, steps,
candidates, identifiers and faults. All rest on `SavedShape`, what saving one candidate
does to the tables, and on `TablesMove`: every step copies the catalogue from `db` to
`work`, from `work` to `db`, saves one candidate in `work`, or leaves both. `CatalogExact`
needs to know what an open transaction has saved (`OpenOK`): the finds of the places that
are no longer in `todo`, on top of the committed finds. It also needs to know what a run
remembers (`StepInv`): the URLs seen are those of its committed steps and of the one it
saves, which has a greater number than they; then what the filter leaves of a step is
exactly what the step was the first of its run to find (`FreshFinds`, which uses that the
candidates of a step are of one source; `StepAdded`). `SummaryExact` needs more
(`CountInv`): that ids of queries are never shared by two runs, that an open transaction
changes the rows of its own run only, and that a count in a transaction lacks exactly the
candidates still to save.

*Downloads* (`DownloadProofs`): `TypeCorrect`, `GateHolds`, `EveryFileRecorded`,
`TemporariesRemoved`, `SummaryExact`, `RowsWholeApart`, `RowsHaveFiles`. The gate needs an invariant that carries the
decision from `NextCandidate` to `OpenTemp` through the prompt and the request: at those
steps the URL in hand is permitted by what was read, or waits for an answer. A
temporary name needs its owner (`TempInv`): a
run at `write` or `replace` with that path, or one that was killed. The summary needs a
sum over the whole run (`SumInv`): what is counted, what is in hand and what is still to
do make up the total, and the count of downloads is the number of the run's rows.
`EveryFileRecorded` counts: the files without a row or a run about to insert one are at
most as many as the faults.

That a row has its whole file is false when two runs share a temporary name
(`download_torn`). `RowsWholeApart` says that nothing else can break it: for any number of
runs at a time, kills and failed writes, if no two runs are ever writing the same name at
the same time (`PathsApart`), every row has its file. `RowsHaveFiles` is the case of one
run at a time (`MaxActive = 1`), where `PathsApart` follows from `OneActive`. The invariant
(`FileInv`, `NewInv`) follows the inodes: no temporary name stands for a file that has its
final name, nor for the file of another temporary name, so truncating a temporary file,
also one that a killed run left, harms no row; and no name stands yet for the file that a
run is to create for a URL it has still ahead, because a run takes each URL once.

*Migration* (`MigrationProofs`): `TypeCorrect`, `RecordedVersionsComplete`,
`CommandsFindSchema`. Invariant: every version that is recorded or inserted has its
objects, and a command that is at part `n` of version `v` has everything before
that part, because `CREATE ... IF NOT EXISTS` is done or was done by another.

*Crawler and HTTP client* (`SeedCrawlerProofs`): `TypeCorrect`, `RobotsObeyed`,
`RobotsCached`, `RateKept`, `CrawlExact`, for any web, seeds, limits, interval, backoff and number of
retries. The rate needs the client's own time never to run ahead of the true one
(`RateInv`). The robots theorems need to know which policy a request under way is
for (`CallInv`): the URL at hand is undecided until the answer comes, so a file
that arrives is the first of its site and cannot permit what was skipped.

`CrawlExact` compares the traversal with `Reach`, the circles around the seed in the web,
and needs one invariant for what a breadth-first search keeps (`CrawlInv`): the queue
holds the current depth before the next one (`QueueInv`); what is queued or at hand is
within reach at its depth (`SoundInv`); every nearer circle has been visited, and nothing
of the current one is forgotten (`LayerInv`); a link that was looked at is decided and,
where it is to be followed, queued (`TakenInv`); and what was offered so far is what the
visited pages give (`FoundInv`). The circles grow while robots.txt files arrive, so a part
of the proof is that those up to the current depth stay as they are.

*Pipeline* (`DiscoveryProofs`): `TypesHold`, `MergeIsBest`, `FailureCostsItsStep`, for any
web, sources, answers, order of scores and limits. Types and merge are one inductive
invariant (`IInv`): that an entry can be merged needs every find in the table to be
readable, which holds because an odd URL raises before it is added. The plan of the steps
needs to know that what is in hand comes from the web or from an answer (`FromWeb`), so
that a run that ends early has met a URL that cannot be read or requested, or an answer
of another shape.

*Sitemaps* (`TraversalProofs`): `SitemapsAskedOnce`, `SitemapIsExact`, for any web and
limits. What is remembered is asked once and has used up one of the files (`AskedInv`).
The accounting at the end is kept all along by `SearchInv`: what was named so far, by the
robots.txt of the roots read and the indexes read, is requested, queued, or reported with
the reason; and what was inspected is all entries of the urlsets read, or as many as the
limit allows. The number of entries is a sum over the set of urlsets, so one more urlset
has to be taken out of the sum in whatever order the sum was formed (`EntriesGrow`, from
the lemmas about sums). A search that fails may stop anywhere; `SearchInv` is claimed
while a search runs and after it has come to its end.

*Link expansion* (`TraversalProofs`): `ExpansionOffersNew`, `ExpansionIsExact`, for any web,
depth and limit. What is queued, visited or offered is known under its canonical form
(`KnownInv`). The comparison with `Reach` goes layer by layer as in the crawler
(`Exploring`), but here the layers are made of pages that were read, so they grow when a
page arrives: a page at its least distance changes only layers further out
(`LayersGrow`, `LayersStable`). The proof found a hole in an earlier form of `Reach`, which
counted links that cannot be read as URLs: `canonicalize_url` builds the host of an IPv6
literal from `hostname`, without its brackets, so a canonical form may itself be
unreadable and equal to a raw link; such a link is never asked for, and `Reach` leaves it
out now (`PageLinks`).

*Induction.* The library's induction theorems take an operator as a parameter, which the
provers cannot instantiate. `GeneralLemmas` states the same for sets: a set of naturals
that is not empty has a least element (`LeastElement`), so one that contains 0 and every
successor of its elements contains them all (`NaturalInduction`, `BoundedInduction`);
likewise for the subsets of a finite set (`SubsetInduction`). A recursive function is a CHOOSE; that there
is one to choose follows by iteration (`Iterates`, `SumsExist`). With these `Reach`,
`Layers` and the fold that is `Entries` can be reasoned about.

Only model-checked: all liveness properties (they need fairness and ENABLED):
`SearchEnds`, `DiscoveryEnds`, `JobsComplete`, `AbandonedLockRecovered`, `RunsComplete`,
`WriterReleased` and `Migrated`. Every safety property of a passing run has a theorem. The
refinement is proved for the steps and initial states, which is all `JobLedger` states.

## 6. What is not modelled

Strings (URLs, HTML, JSON, scores, the text of licenses), what the remote sources ask and
how they parse it (`Discovery` has their answers), export, configuration and logging:
pure functions or pure input and output, without state that lasts. The listings of the catalogue only read. See `components` in
`PROJECT.json`.

## 7. Plan

In this order:

1. `JobLedger`, `Daemon` and their proofs: done.
2. `Collect` and its proofs: done.
3. `Download` and its proofs: done; `RowsMatchFiles` is proved for runs that write apart
   (it is false for others, see `download_torn`).
4. `Migration` and its proofs: done.
5. `HttpClient`, `SeedCrawler` and their proofs: done.
6. `Web`, `Sitemap`, `LinkExpansion`, `Discovery` and their proofs: done. A run about the
   rate by domain instead of by source is left. Two things the model shows and no text of
   the repository decides: a sitemap that is named twice uses up the limit of files, and
   the expansion begins at depth 0 again for every variant and asks for its pages again.
7. The times of `jobs.py` compared as text: done, in `Daemon`.
8. The composition of `Daemon` with the catalogue: done, by `collectEvents`. Queue and
   catalogue cannot change in one transaction, so a process killed between them leaves a
   job that stays running with its result saved; `EventsMatchTable` says that it is
   never saved again.
