# Buscoficio in TLA+

Specifications, model checks and proofs for the server side of Buscoficio: a job
search assistant that discovers offers, deduplicates them, scores them against a
candidate and prepares applications. The code is TypeScript: a Fastify API
(`apps/api`), a BullMQ worker (`apps/worker`), domain packages (`packages/*`),
PostgreSQL through Drizzle (`packages/database`), Redis. Submission by browser
automation is designed in `docs/` but is not in the repository.

Contents: [system](#1-the-system), [hazards](#2-what-is-hard-to-test),
[modules](#3-the-modules), [runs](#4-the-runs), [findings](#5-where-the-code-and-its-documents-disagree),
[proofs](#6-proofs), [limits](#7-what-is-not-shown), [plan](#8-plan).

## 1. The system

Two kinds of process share PostgreSQL and Redis: API processes (requests run
concurrently) and worker processes (two jobs at a time per queue, one on the
`maintenance` and `dedup-review` queues). Nothing else is shared. All
coordination is by unique indexes, compare-and-set updates, advisory locks, short
transactions at READ COMMITTED, and the ids and retries of BullMQ jobs.

| Component | State it keeps | Operations | Interacts with | Correct when |
|---|---|---|---|---|
| application state machine (`application-engine/state-machine.ts`) | none | `canTransition` and its guards | used by the aggregate | only approved edges, each with its guard |
| application aggregate (`application-engine/engine.ts`, `application-repo.ts`) | `application`, `application_event`, `audit_log` | create, archive, resolve a human action, transition | API requests and documents workers on the same rows | A1 (one active per candidate and job), idempotent creation, chained timeline, A2 (reapplication) |
| document preparation (the same engine, `documents.prepare`) | `application_document`, `application_answer`, advisory lock, BullMQ job `prepare-<id>` | prepare, put an answer, resolve a question | text provider, storage, tailored resume versions | same input same documents; only the user approves answers; only stale answers lose approval |
| search runs and crawls (`search-service.ts`, `search-repo.ts`, `reconciliation-service.ts`, `handlers.ts`) | `search_run`, `search_source_run`, jobs of `search` and `ingest` | start and fan out, crawl a source page by page, finalize, watchdog | source adapters, ingest, matching jobs | S1 (parent derived from children), S2, every run ends, a completed crawl missed nothing |
| ingest and deduplication (`ingest-service.ts`, `job-repo.ts`, `dedup-repo.ts`, `core/jobs`) | `job`, `job_listing` (quarantine included), `application_target`, `dedup_review` | ingest an offer (levels L0 to L3), reject, decide a review | called page by page by `ingest.source`; emits match and review jobs | one canonical job per offer; merges lose nothing |
| matching (`matching-service.ts`, `matching-repo.ts`, `packages/matching`) | `job_match`, `embedding_space`, vectors | score, recompute, activate an embedding space | reads jobs, profile and resumes; its match is what an application starts from | M1 to M4: identity, one current match, explained and bounded scores |
| scheduler (`scheduler-service.ts`) | BullMQ job schedulers | sync with `search_config` | API on configuration changes, worker at start | a scheduler for each active configuration |
| rate limiter (`rate-limiter.ts`) | counters and blocks in Redis | acquire, penalize | all source requests | no more than the limit per window; a penalty lasts |
| targets and sources (`application-targets.ts`, `sources.ts`, `target-enrichment-service.ts`) | target status, policy review | review, change status, detect platform | ingest creates targets | nothing is active without a policy review |
| match engine (`packages/matching`) | none | score, recommended resume, missing requirements | evaluated by matching over jobs and the profile | means of what is present, caps for hard requirements, no dependence on the order of rows |
| candidate profile (`candidate-repo.ts`, `profile.ts`) | `candidate_profile` and its nested rows | put, add, change and delete | matching and documents read it | one profile, and everything added is its |
| resumes (`resumes.ts`, `resume-repo.ts`) | `resume`, `resume_version`, files | upload a version, tailor one | matching and preparation name exact versions | version numbers unique, file for each row |
| documents package (`packages/documents`) | none | validate claims, resume variant, cover letter, answers | preparation; asks the text provider | nothing untrue is rendered or reused, a failed provider is stood in for, a contradicted one is not |
| AI clients, source adapters (`packages/ai`, `packages/job-sources`) | none | plans, vectors; pages of offers | preparation, matching; crawls | an error is classified as retryable or not |
| storage, logging, configuration, web client | files | I/O | | out of scope, see section 7 |

`PROJECT.json` lists every component with its sources and whether it is modelled.

## 2. What is hard to test

`PROJECT.json` lists the hazards one by one, at their lines, with the properties
that would catch them. They come from six habits of the code:

1. **Check, await, act.** `createFromMatch` makes four reads before the insert;
   `archive`, `resolveHumanAction`, `prepareDocuments` decide on a status read
   earlier; `raiseHumanAction` expects PREPARING without reading it.
2. **Derived rows.** `finalizeRun` reads children and writes the parent, without a
   lock, from several workers and from the watchdog.
3. **At-least-once jobs.** A job is retried, delivered again after a stop, or while
   its first worker still goes on; a retried job repeats what it did.
4. **Deterministic job ids.** BullMQ ignores an `add` with an id it knows, and it
   knows failed jobs, too.
5. **Several writers of one row.** The user's answer against the preparation's,
   the watchdog's failure against the source job's result, two merges of one job,
   scorers and their cached vectors.
6. **One rule written twice.** The time a candidate's roles cover, the order of
   language levels, rounding: matching and documents each have their own, and what one
   says the other checks.

## 3. The modules

| Module | What it is | Code |
|---|---|---|
| `ApplicationStateMachine` | pure operators: table, guards, `canTransition` | `state-machine.ts` |
| `ApplicationLifecycle` | what the aggregate promises, abstractly: `Open` and `Advance` | S/A invariants as the code enforces them |
| `Applications` | the concurrent commands on the application table | `engine.ts`, `application-repo.ts`, `idempotency.ts`, `policy.ts` |
| `ApplicationsProofs` | its theorems | |
| `SearchRuns` | search.run, ingest.source, search.finalize, the watchdog, BullMQ | `handlers.ts`, `search-service.ts`, `search-repo.ts`, `reconciliation-service.ts` |
| `SearchRunsProofs` | its theorems | |
| `JobIngest` | offers becoming jobs, and the decisions on similar ones | `ingest-service.ts`, `job-repo.ts`, `dedup-repo.ts`, `core/jobs/dedup.ts`, `filters.ts` |
| `JobCatalogue` | what ingestion and reviews promise, abstractly: a listing is found once, a job opens once, is refused or merged | as `JobIngest` |
| `JobIngestProofs` | its theorems, and that it implements `JobCatalogue` | |
| `DocumentPreparation` | documents.prepare against the user's commands | `engine.ts`, `application-repo.ts`, `routes/applications.ts`, `documents/answer-content.ts`, `answers.ts` |
| `DocumentPreparationProofs` | its theorems | |
| `Crawl` | the page loop of `ingest.source` under the rate limiter, up to the match jobs | `search-service.ts`, `handlers.ts`, `rate-limiter.ts`, `fetch-client.ts`, `arbeitnow.ts`, `remoteok.ts`, `search-query.ts` |
| `CrawlProofs` | its theorems | |
| `Matching` | match.score against edits, activations, restarts, recomputes | `matching-service.ts`, `matching-repo.ts`, `hashes.ts`, `routes/matches.ts`, `handlers.ts` |
| `MatchingProofs` | its theorems | |
| `Experience` | the months that roles cover, the order of language levels | `signals.ts`, `claims.ts`, `facts.ts` |
| `MatchEngine` | pure operators: the signals, the score, the recommended resume | `engine.ts`, `signals.ts`, `category.ts`, `similarity.ts`, `weights.ts` of matching |
| `CandidateProfile` | the profile's requests; the engine evaluated in every state | `candidate-repo.ts`, `routes/profile.ts`, `resume-repo.ts` |
| `CandidateProfileProofs` | its theorems, and those about the score and the resume | |
| `Claims` | pure operators: the view of a profile, the verdict on each kind of claim | `claims.ts`, `facts.ts`, `answer-content.ts` |
| `Documents` | the cover letter's loop and decision, the variant, answers | `cover-letter.ts`, `resume-variant.ts`, `answers.ts`, `ai/text` |
| `DocumentsProofs` | its theorems, and the lemmas about the time that roles cover | |
| `MC...` | values for the constants of the module of that name | |

How they fit together. `ApplicationStateMachine` is used by `Applications`, `Experience`
by `MatchEngine` and `Claims`, `MatchEngine` by `CandidateProfile`, `Claims` by
`Documents`. `Applications` implements `ApplicationLifecycle` and `JobIngest`
implements `JobCatalogue`. The others meet at a
table and share no variable: what an ingest job does is a count in `SearchRuns`, a loop
in `Crawl` and a transaction in `JobIngest`; the result of `prepareCoverLetter` is
any text in `DocumentPreparation` and the subject of `Documents`; the score is a
function of the identity in `Matching` and a computation in `MatchEngine`.

Conventions. A command or job is a record in a variable (`cmd[p]`, `start`,
`ingest[r][s]`, `worker[w]`, `user[u]`) with the `step` it is at and what it read on
the way; each await is an action, a repository transaction is one action, and any
other command may run in between. An exception, a lost connection and a stopped
process are the same action (`Abandon`, `StartThrows`, `Throw`): the command ends
and what it wrote stays. An operator named `X_Something` before an operator `X` is a
plausible bug in `X`; the mutants of `PROJECT.json` put it in the place of `X` and
show which property notices.

### Applications

`row[a]` is the row of `application` as far as the commands read it; `head[a]` the
last transition event of its timeline; `audited[a]` the audit actions written;
`cmd[p]` the command a process runs; `clock` a day.

| Code | Actions |
|---|---|
| `createFromMatch` | `BeginCreate`, `findByIdempotencyKey`, `findActiveByJobCandidate`, `CheckReapply`, `createWithBootstrap`, `AuditCreate` |
| `archive`, `resolveHumanAction`, `transition`, status part of `prepareDocuments`, `raiseHumanAction` | the action of that name decides from a status it reads (`raiseHumanAction`: from none), `transitionWithEvent` or `transitionConflict` is the compare-and-set, `AuditStatusChange` the audit entry |
| the phase that is not there yet | `submissionTransition` (only with `WithSubmission`): the approved edges from APPROVED on, as an environment |

The idempotency key is the triple the hash is made of; a hash collision is not
modelled. `createWithBootstrap` is one step because it holds the advisory lock of the
slot and a transaction; the insert still goes through the two unique indexes
(`InsertConflicts`), which is what the mutants take away one at a time. Matches that
are not current, jobs that are not active and AUTO mode end a create command at its
first read and are not enumerated.

### SearchRuns

`parent` and `child` are the two tables, `start` the `search.run` job, `ingest[r][s]`
the `ingest.source` job, `finalizeQ[r]` the number of finalizers that wait, `fin[f]`
what a finalizer read and is about to write, `sweep` the watchdog's position.
`stale` holds the runs older than `WATCHDOG_TIMEOUT_MS`; `rewritten` and `dropped` are history. The
offers of a source run are a count: what ingest does with them is another module.

| Code | Actions |
|---|---|
| `startRun` and the `search.run` handler | `createRun`, `createSourceRun`, `skipSourceRun`, `StartFanOut`, `FanOut`, `StartThrows` |
| `runSource` and the `ingest.source` handler | `IngestStart`, `finishSourceRun`, `EnqueueFinalize`, `IngestThrows` |
| `finalizeRun` | `FinalizeRead`, `FinalizeWrite`, `FinalizeThrows` |
| `reconcileStaleRuns` | `listStaleRuns`, `ReconcileNext`, `failRunningSourceRuns`, `ReconcileRead`, `ReconcileWrite` |
| time, BullMQ | `TimeOut`, `Crash` |

`Crash` stops the worker process: each active job is delivered once more or given up.
With `SlowStart` a run may time out while its children are still being created;
without it the creation of a run takes less than the quarter of an hour of the
watchdog. With it `EveryChildEnds` is false: the watchdog ends the run with the
children it finds, the next child is created, the job dies, and no later sweep looks
at a run that is not `running` (`docs/arquitectura/06-workers-y-colas.md` promises the
watchdog for "hijo o padre"; the code selects parents). The liveness run therefore
takes `SlowStart = FALSE`; the safety run takes TRUE.

### JobIngest

`job`, `listing`, `review`, `targets` are the tables. A job is identified by its dedup
key, which a unique index keeps unique; a review by the job created with it. `worker[w]`
is an ingestion, `decider[u]` a decision. An advisory lock is not a variable: a worker
inside the transaction holds the one of its URL (`UrlFree`), and from L3 on the one of
its company and location (`BlockFree`). PostgreSQL at READ COMMITTED: a statement sees
what is committed when it runs, the writes appear together at the commit, the later of
two conflicting inserts fails.

| Code | Actions |
|---|---|
| `ingestRaw`, invalid offer | `insertQuarantine` |
| `upsertTarget`, L0 to L2 | `KnownListing` (L0 answers), `Lookup` |
| L3 | `Fuzzy`: takes the block, then merge, review or distinct |
| writes of `ingestJob` | `ReadJob` and `Attach`, or `Create` with its review; `Conflict` is the unique violation, `Recover` the code after it |
| `evaluateHardFilters`, `markJobRejected` | `markJobRejected` |
| `decideReview` | `ReadReview`, then `decideReview` with `Merge` |
| the worker stops | `Crash`: the transaction never was, what was committed stays |

`Offers` are what a source may return as one configuration filters it: a listing
identity, a URL, a job, a target, whether the filters let it pass and whether it is
well formed. `Score[k][c]` is the weighted trigram similarity, compared with `High` and
`Medium`; where several candidates are best, any of them is the first row. L0 to L2 are
one step: between them other workers only add rows or move listings, and the outcome is
that of a look-up made a moment earlier or later, or of the unique index. `mergedFrom` is
kept because its update starts from a row read before (`ReadJob`, `ReadReview`). Left
out: enrichment of targets over HTTP and the audit entry of a decision.

`JobCatalogue` is the promise without locks, workers and steps: `Find` puts a listing
into the catalogue once, with a job (`Join`, `Open`) or without one (`Quarantine`);
`Open` makes a job active, once, and only when no active job of its block is equivalent,
and with a rival if one is in the gray zone; `Merge` archives a job that has a rival and
moves all its listings there, again if more have come since; `Refuse` may come at any
time, also after a merge. The status, the candidate of the review, the listings with a
row and the job of each are its variables. `NoTwins` and `GrayZoneAsked` follow from it.

### DocumentPreparation

`docs`, `events`, `answers` and `status` are the rows, `lock[a]` the session advisory
lock `application-prepare:<id>`, `job[a]` the only BullMQ job an application can have,
`worker[w]` a preparation, `user[u]` a request about answers. A profile is a set of
facts, a wording of an answer claims a set of facts, and it is verified when it claims
some and the view has them all; `SalaryFacts` are those that a view has only with
`includeSalary`. The input hash is the view itself (job content, day, prompt and model
change it in the same way). A document is its kind, the input hash in `generatedBy`
and its bytes; the variant is a function of the input, the cover letter any text.

| Code | Actions |
|---|---|
| `POST prepare`, BullMQ | `PostPrepare`, `TakeJob`, `Stall`, `Throw`, `Refused` (ConflictError) |
| `prepareDocuments` up to the lock | `BeginPreparation`, `StartPreparing`, `LoadInputs`, `withApplicationLock` |
| under the lock | `ReadFresh`, `FindVariant`, `InsertVariant`, `FindCover`, `InsertCover` or `CoverRefused`, `ListAnswers`, `MarkStale`, `Revalidated`, `Unlock` |
| `PUT answers`, `POST answers/resolve` | `BeginRequest`, `LoadFacts`, then `PutAnswer`, or `FindPrior` and `ResolveQuestion` |
| other commands | `EditProfile`, `archive`, `resolveHumanAction` (one step each: their races are in `Applications`) |

A `Stall` is a worker BullMQ has lost sight of: the job is delivered again while the
worker may go on, with its lock. Left out: stored files and tailored resume versions
(both keyed by content, so that a repetition finds them), blockers (derived on read),
the audit of answers, the wording of anything.

### Crawl

`child[r]` and `job[r]` are the child run and its BullMQ job, `worker[w]` what an
execution has on its stack, `blocked`, `window`, `count` the limiter's keys in Redis for
the one bucket `<source>:search`. Time is a tick; `admitted` and `declined` are history.

| Code | Actions |
|---|---|
| `startRun`, `ingest.source` | `startRun`, `TakeJob`, `EndJob` |
| `acquire` | `CheckBlock`, `CountRequest`, each one Redis command, then `Sleep` |
| `penalize` | part of `AnswerRateLimited` |
| answer of the site | `AnswerPage`, `AnswerRateLimited`, `AnswerError` |
| page loop, catch block | `IngestOffer`, `PageDone`, `DatabaseFails`, `FailSource` |
| loop over new jobs | `SignalMatch` |
| time, faults | `Tick`, `Crash` |

The listing does not change during a behaviour: on a board that is edited between two
pages an offer can move past the reader, and no code could tell. `evaluateSearchQuery`
is modelled by what the decision depends on: whether a keyword occurs, how the location
relates to the configured ones, the remote type. Counting in Redis is capped at `Limit`
(from there on nobody passes). The bucket of the enrichment service is another one.

### Matching

`content`, `data`, `today` are the inputs of a score as versions; `known` and `active`
the embedding spaces, `runtime` the model each process was started with; `jobVectors`,
`resumeVectors` the caches; `matches[j]` the rows of a job; `job[j]` the BullMQ job with
the id `match-<job>`; `scorer[w]` a score with what it has read. `asked` is history: the
jobs a recompute was accepted for with nothing in flight and no input edited since.

| Code | Actions |
|---|---|
| reads of `score` | `ReadInput` one query at a time, `ReadSpace` with the identity |
| `findMatchByIdentity`, `setCurrentMatch` | the actions of that name |
| `ensureJobEmbedding`, `ensureResumeEmbedding` | `getJobEmbedding`, `embedJob`, `getResumeEmbedding`, `embedResume` |
| `upsertCurrentMatch` | one transaction |
| API | `Enqueue` (POST recompute), `ActivateSpace` |
| environment | `EditJob`, `EditCandidate`, `NextDay`, `RestartWorker`, `Stall`, `Throw` |

A hash is what it is made of, and a vector the text and the model it comes from.

### MatchEngine, Experience, CandidateProfile

Scores are ten-thousandths and weights hundredths, the engine's own precision; floating
point is taken to be exact. Names are compared in their normal form, a text for a
category by the categories of its terms. `profiles` are the rows by creation: nothing
makes the row unique, and `getProfile` takes the oldest. `user[u]` is a request between
its read and its write. Nested rows carry their `owner`. In `CandidateProfile` the
engine is evaluated in every state where no request is in flight, over three jobs. A
resume is created under a new id. The operators of `CandidateProfile` carry its name
(`ProfileInit`, `ProfileNext`, ...) because its proofs also extend those of `Documents`,
for what they share: `computeExperienceMonths`, of which both packages have a copy. Two
roles that start together can be in either order, since the set of roles says nothing of
theirs: `StartOrders` are all the orders the sort can leave.

### Claims, Documents

A claim is a record of its kind and values; `validateClaim` gives `verified`, `rejected`
or `unverifiable`. Three operators say what is true of the profile without the code's
rules: `Backed`, that some fact is behind the claim as it was made; `Holds`, that the
sentence the letter makes of it is so (years as `formatYears` prints them, "My experience
spans", "I completed"); `Overstates`, what the code lets a sentence say beyond that: up to
half a tenth of a year, the dates of an education as experience, a degree that is not
completed. Claimed years are hundredths, since the code takes any number; those of a skill
are tenths, the scale of their column, so rounding to tenths never exceeds them.
`letter` is a preparation (at most two attempts of the provider, then `Decide`), `answer`
the answer resolved last; the profile is edited at any time. The provider is external
and lists any claims of `Offers`. What a draft says are places in its list of claims.
Wording, tone and files are left out. `TemplateIsVerified` is about up to 80 years of
experience: `validateYearsExperience` rejects any number above that, true or not.

## 4. The runs

| Run | Bounds | Shows |
|---|---|---|
| `applications` | 2 applications, 1 slot, 1 match, both modes, 2 processes | `OneActivePerSlot`, `OneApplicationPerKey`, `AuditNeverAhead`, `HumanReasonShown`, `TimelineIsChain`; the engine implements `ApplicationLifecycle` |
| `reapplication` | 2 applications, 2 slots, 1 process, cooldown 1 day, 2 days, submission on | `ReapplicationEarned` |
| `search_runs` | 1 run, 2 sources, 2 finalizers, 2 attempts, 1 offer, 2 faults, slow starts | `NotReportedEarly`, `ParentReportsChildren`, `NoLostFinalization`, `OnlyItsJobRewrites` |
| `search_liveness` | 2 runs by retry, 1 of 2 sources usable, 1 fault | `EveryRunEnds`, `EveryChildEnds` |
| `crawl` | 2 runs, 2 executions, 2 pages of which the first has nothing relevant, limit 1, penalty up to 2 ticks, 2 attempts, 1 stall each | `RateRespected`, `CompletedMissesNothing`, `NewIsHandedOver`, `CrawlEnds` |
| `ingest` | 4 jobs of one company and location, 3 listings, 3 URLs, 7 offers, 2 targets, 3 workers, 2 decisions under way, 1 crash | `NoTwins`, `VacancyKept`; ingestion implements `JobCatalogue` |
| `ingest_archived` | 3 offers, one of them of the merged job at another URL, 1 worker, 1 decision, no crash | finding 1 |
| `matching` | 1 job, 2 workers, 2 spaces of different models, 2 versions of the job and of the resumes, 2 days, 2 edits, 1 restart, 1 stall | `OneCurrentMatch`, `SpacesUncontaminated`, `VectorsAsIdentified`, `RecomputeIsFresh` |
| `scoring` | 2 requests at a time, 6 edits, 3 jobs, 2 profiles, 2 skills, 5 roles, 3 language names of 2 languages, 3 resumes | `NestedBelongsToProfile`, `ExperienceIsCovered`, `UnmetLanguageIsCapped`, `SkillsNeverHurt` |
| `preparation` | 1 application, 1 question, 2 wordings, 2 workers, 1 user, 1 attempt, 1 edit, 1 stall | `OneDocumentPerInput`, `EventsAreBacked`, `ApprovalIsHuman` |
| `documents` | 3 profiles, 30 claims of every kind, any list of two, 2 attempts, 1 edit | `NothingUnbackedIsSaid`, `NothingLeftOut`, `TemplateOnlyAfterFailure`, `TemplateIsVerified` |
| `degree_completed` | the same | finding 2 |

`applications`, `search_runs`, `ingest`, `matching` and `preparation` also check the type
invariant of their module.

Why these bounds are enough. A1, idempotency and the timeline are about pairs of rows
and pairs of commands: two applications and two processes give every interleaving of
two commands, including the A-B-A of a human action resolved and raised again while an
older raise waits. A reapplication needs an earlier application, a request and a clock
that passes the cooldown; the history of other slots is there as the second slot. Its run
has one process (two, with the submission edges, have millions of states): that requests
which overlap change nothing is the theorem `Reapplication`. In a
search run the cases are: a child done, failed, skipped or running beside another one,
two finalizers or a finalizer and the watchdog between a read and a write, a first and
a last attempt, one crash and one after it. In an ingestion: one pair of jobs at the
merge threshold, three pairs exactly at the review threshold, so that a review can name a
job that another review archives; a URL shared by two jobs, a listing whose content
changes, one identity that is malformed first; a third worker so that a pair races while
a candidate is created. In a preparation: two workers on one
application (redelivery), two inputs with different variants and any letter for either, a
wording with a claim and one without, a request around each step. In a crawl: two executions in one bucket at its limit,
a page without relevant offers in front of one with, a first and a last attempt, one
delivery after a crash. For a match: two scorers with different inputs or models, one of
which reads before and writes after the other. For a letter: two attempts, which is all
there are, and two claims, so that one can be true and the other not. For a score: roles
that overlap, nest, touch, are reversed or open; one language under two names; a skill
that is required and one that is preferred. `VIEW` definitions leave out what no checked
property or later step reads, and say so; symmetry is over application ids, processes,
sources, workers, never in a liveness run. Deadlock is checked in the application, ingest,
crawl and document runs; searches, preparations, matching and scoring come to an end (of
their jobs or bounded edits), so it is off there.

Fairness (`FairSpec` of `SearchRuns`, used by `search_liveness` only). The watchdog is
a repeatable job, so a sweep that can go on does (`WF(SweepNext)`); time passes
(`WF(TimeOut)`); a `search.run` job that has begun goes on, throws or dies. No fairness
for waiting jobs, ingest jobs or finalizers: that a run ends must not depend on them.

Fairness of `Crawl`. Time passes (`WF(Tick)`); every request is answered or times out,
Redis and PostgreSQL answer, and an idle execution takes a waiting job
(`WF_worker(Step \/ TakeJob)`, one condition per execution: each awaits one thing at a
time). No run has to start and nothing has to crash. `CrawlEnds` needs more than that
single steps end: a sleeper must find the window open or the block expired before its
attempts and those of the others are used up.

## 5. Where the code and its documents disagree

Two runs are counterexamples:

1. **`ingest_archived`.** A merge decided by a human "moves the created job's listings
   into the candidate job and archives the loser", and its test expects the loser to have
   none. The URLs go with the listings, but the loser is still found by its dedup key: the
   run shows a later offer of the same job at another URL whose lookup chooses the archived
   job, out of sight.
2. **`degree_completed`.** "A factual statement cannot enter the document without an
   explicit, validated claim", but the status of an education is not validated, and the
   sentence of a degree says that it was completed: a verified letter says so of a degree
   in progress.

The rest are replayed by hand, `tlc -config <cfg> <module>`; each of these
configurations ends in a counterexample to the property it names.

| Configuration (module) | Property | What happens, and what says otherwise |
|---|---|---|
| `MCReapplyFresh` (`MCApplications`) | `RejectionNeedsSupersedes` | Archiving a rejected application first avoids `supersedesApplicationId`, confirmation and cooldown, which ADR-021 (`docs/decisiones/13-alternativas-adr.md:155`) and A2 ask for after REJECTED. |
| `MCReapplyCooldown` (`MCApplications`) | `CooldownAfterEveryRejection` | The cooldown counts from the rejection the request names; naming the older of two avoids that of the newer (`docs/arquitectura/03-modelo-de-dominio.md:261`). |
| `MCIngestChained` (`MCJobIngest`) | `ArchivedIsEmpty` | Two reviews of a chain: the first decision merges a job into another and archives it, the second, which named that job as its candidate, moves its own listings into the archived one (`dedup-repo.ts:72`: nothing asks for the status of the survivor). |
| `MCSearchFinalizers` (`MCSearchRuns`) | `FinalizerIsIdempotent` | `finalizeRun` is documented (`search-repo.ts:165`) as safe to call from multiple workers. One that read before a source job finished can write after one that read later. |
| `MCPrepareAgain` (`MCDocumentPreparation`) | `AcceptedIsInFlight` | "BullMQ sólo deduplica en vuelo" (`docs/plans/phase-4-application-preparation.md:208`), but a job that failed its last attempt keeps its id: the next POST is answered 202 and starts nothing. |
| `MCPrepareTwice` (`MCDocumentPreparation`) | `OneEventPerInput` | "mismo input ⇒ mismos documentos y sin eventos duplicados" (`docs/plans/phase-4-application-preparation.md:146`), but bytes that are stored already keep the hash of the input that stored them first (`application-repo.ts:729`): an input whose letter has those bytes has none of its own, and its next preparation, with nothing changed in between, inserts another letter and appends `documents_prepared` again. What does hold is `EventsAreBacked`. |
| `MCRecomputeBlocked` (`MCMatching`) | `RecomputeNeverBlocked` | "so recomputation is never blocked" (`routes/matches.ts:30`): the same, for match.score. |
| `MCSalaryAnswer` (`MCDocumentPreparation`) | `OnlyStaleIsDemoted` | A preparation revalidates answers against a view without salary and takes the approval of those about a salary that the profile supports. |
| `MCNewJobsForgotten` (`MCCrawl`) | `EveryNewJobIsHandedOver` | An attempt that is retried after a later page failed forgets the new jobs of the first pages; the next attempt finds them known and no match job is ever made for them. |
| `MCRetryAfter` (`MCCrawl`) | `PenaltyNeverShortened` | "respeta `Retry-After`" (`docs/arquitectura/06-workers-y-colas.md:53`): of two answers the later one sets the block, also when it is the shorter. |
| `MCRoundedYears` (`MCDocuments`) | `YearsAreNotRoundedUp` | "A factual statement cannot enter the document without an explicit, validated claim" (`cover-letter.ts:25`), but years are validated as claimed and printed by `toFixed(1)`: 2.96 years, valid against 2.97, become "3.0 years". |
| `MCStudySpan` (`MCDocuments`) | `SpansAreOfRoles` | The same: the dates of an education verify a `date_range`, whose sentence is "My experience spans". |
| `MCNativeLanguage` (`MCCandidateProfile`) | `UnmetNativeIsCapped` | The parser of requirements writes the level as `Native`, the table of levels has `native`: the comparison with a missing entry is false, and a requirement of a native level is met by anybody who has the language at all. |

Seen while modelling and without a run: a run whose children were all skipped is
`completed` while one with no children is `failed`; `documents_prepared` can follow the
transition to ARCHIVED in the timeline; the lost update of an answer (`OnlyStaleIsDemoted`
catches it too, given a second fact and an edit); a `search.run` job that throws
after inserting its run inserts another one when it is retried
(`docs/arquitectura/06-workers-y-colas.md`: "`search_run` única por ventana");
two decisions of one review at once can record `kept-separate` for jobs that were merged,
since neither the read nor the update of the review is conditional; two merges into one
job can lose an entry of `mergedFrom` or replace a promoted target; a malformed offer
takes its identity for good, so its repaired version is a `duplicate` without a job; an
archived job that receives a refused listing is `rejected` again; of two rows that name
one language (`en` and `english` are different texts to the unique index) the last decides,
also when the other meets the requirement; a salary claim with only a maximum is rendered
though nothing could verify it, and the letter's view has no salary at all; two POSTs of the same profile insert two rows,
the younger of which is never read again.

## 6. Proofs

`ApplicationsProofs` proves, for every set of applications, slots, matches and
processes, every cooldown and every clock bound, from the named assumptions on the
constants (the match determines the slot, null values are not values, bounds are
naturals):

| Theorem | States |
|---|---|
| `TypeCorrect` | `Spec => []TypeOK` |
| `OneActive` | `Spec => []OneActivePerSlot` (A1) |
| `OneRowPerKey` | `Spec => []OneApplicationPerKey` |
| `ChainedTimeline` | `Spec => TimelineIsChain` |
| `AuditFollows` | `Spec => []AuditNeverAhead` |
| `ReasonShown` | `Spec => []HumanReasonShown` |
| `Reapplication` | `Spec => []ReapplicationEarned` |
| `Refinement` | `Spec => ImplementsLifecycle` |

The argument. A1 alone is not inductive: a command in flight carries a transition it
decided on long ago, which must still be an approved edge when it commits. The
inductive invariant `IndInv` adds

- `CommandInv`: a pending commit goes along an edge of `ALLOWED` of an application that
  exists, and a create command that audits does so under an application id;
- `HeadInv`: the last event of a timeline ends at the status of the row, which gives the
  chain: the commit requires `status = expected`, writes `from = expected`, and the
  previous event ended at the status.

`TableSteps` reduces the disjuncts of `Next` to three things that can happen to the
table: an insert, an update, nothing; `InsertEffect`, `UpdateEffect` and `TableEffect`
say what each does. A1 then rests on two facts: an insert needs an empty slot (the
partial unique index), and no approved edge leads from an inactive status to an active
one (`AllowedEdges`), so a transition never occupies a slot again. The refinement maps
`status` and `slot` to the columns: `createWithBootstrap` is `Open`,
`transitionWithEvent` is `Advance`, everything else stutters.

The other three each need what a command in flight knows. `AuditInv`: one that is about to
audit did what it audits, and of an archived application that stays so, since `ARCHIVED`
has no way out. `ReasonInv`: a command about to commit has a reason only for REQUIRES_HUMAN_ACTION, and
always when it goes there from PREPARING.
`EarnedInv`: what the policy found (a rejection and its cooldown, or an archived rejection)
is still true when the row is inserted, many awaits later. It holds because a rejection is
never taken back: `EarnedForGood` needs `HeadInv` to tell an archived rejection from any
other archived application by the last event.

`SearchRunsProofs` proves, for every set of runs and sources, every registry, any finite
number of finalizers, any number of attempts and faults, with and without slow starts:

| Theorem | States |
|---|---|
| `Inductive`, `TypeCorrect` | `Spec => []IInv`, of which `[]TypeOK` |
| `ReportedInTime` | `Spec => []NotReportedEarly` |
| `ParentIsDerived` | `Spec => []ParentReportsChildren` (S1) |
| `NoWakeupIsLost` | `Spec => []NoLostFinalization` |
| `OthersKeepTheOutcome` | `Spec => OnlyItsJobRewrites` (S2) |

The arguments. Nothing locks the parent, so the proof is about the order of things.
`OrderOK`: no job of a run begins before all of its children were created (`Began`,
`Children(r) = Registered`); a run that does not exist has left no trace. Then, of a run
within its time, whoever derived a row did so when no child was running, and a child that
has ended runs again only if its own job is delivered once more, which `rewritten` records
(`CompleteStays`): so `InTimeOK` can say of every finalizer that waits to write, and of
every ended run, that its row is the one its children still have. `NoWakeupIsLost` needs
`RunningOK`, that a running child has a job that is to end it, and `DueOK`, that the last of
those jobs leaves a finalizer behind, also when it is tried or delivered again: the step
from a child's end to the enqueued finalizer is why `reporting` counts as pending. The
hypothesis `~GivenUp` is needed: a job out of attempts or deliveries between the two leaves
nobody but the watchdog, whose part is `EveryRunEnds`. The counters are a sum over a
set; that it exists and is bounded (`SumExists`, `SumBounded`) is an induction over the
naturals, done here by way of the least number of a set (`NumberInduction`).

`DocumentPreparationProofs` proves, for every set of applications, questions, workers,
users, facts and wordings, whatever claims a wording has and whatever variant an input
gives, and any number of attempts, edits and stalls:

| Theorem | States |
|---|---|
| `Inductive`, `TypeCorrect` | `Spec => []IInv`, of which `[]TypeOK` |
| `DocumentsAreUnique` | `Spec => []OneDocumentPerInput` |
| `NoEventForNothing` | `Spec => []EventsAreBacked` |
| `ApprovalsComeFromTheUser` | `Spec => []ApprovalIsHuman` |

The arguments. `LockOK`: who is between `ReadFresh` and `Unlock` holds the lock of its
application. So what a preparation did not find is still not there when it inserts it
(`FoundOK`), which is `DocumentsAreUnique`, and what it inserted and has announced to
nobody is its own (`OwedOK`): there is one document more than there are events for its
input, until it appends one. A preparation that fails in between leaves that document
behind, which is why the events are bounded by the documents and not equal to them.
Approval does not rest on the lock, which requests about answers never take: `SeenOK` says
that what a preparation is about to write back was approved when it was listed, `PriorOK`
that what a request is about to reuse was signed; and nothing that was signed is unsigned.

`JobIngestProofs` proves, for every set of offers, jobs, workers and decisions under
way, every partition into blocks and any two thresholds, assuming that the similarity is
symmetric (as trigram similarity is) and that null is no value:

| Theorem | States |
|---|---|
| `BasisHolds`, `TypeCorrect` | `Spec => []Basis`, of which `[]TypeOK`: a listing has a job, one that exists, unless it was quarantined |
| `Separated` | `Spec => [](NoTwins /\ GrayZoneAsked)`; `GrayZoneIsAsked` the second alone |
| `VacancyStays` | `Spec => []VacancyKept` |
| `RefusalsHold` | `Spec => []RefusedIsRejected` |
| `Refinement` | `Spec => ImplementsCatalogue` |

The arguments. `Basis` adds to the types what an ingestion, a review and a decision name:
jobs that exist, in the block of the offer. `Separated` needs to know what a worker that
is about to create has seen: `CreatorOK` says that it holds the lock of its block and
that every active job of the block is either below `High`, and below `Medium` unless
there is a candidate. The lock keeps others from creating there (`Creators`,
`FuzzyKeeps`), and nothing but a creation makes a job active (`ActiveJobs`), so the
statement is still true when the worker commits. `VacancyStays` rests on `Rooted`: the
first job of a block has no review, since a review needs a candidate in the same block
(`NewReview`); only the job a review was created with is ever archived (`ArchivedBy`);
so that first job is in the catalogue for good. It does not use who holds which lock.
`RefusalsHold` does not use the locks either. Two workers may judge offers of the same
job at once, one refused and one not, so what is owed is owed for the job and not for the
listing (`Owed`): while a job is active and one of its listings is refused, some worker
is at the filters of that job with a refused offer, or a human has decided about the job
(which may have moved the listing there). `DecisionsStay` and `FilterLeft` say that
neither goes away but through `markJobRejected`; without a crash, nothing else ends the
work of a worker at the filters. `Refinement` takes the guard of `Open` from `Separation`,
which holds `CreatorOK`, and what a review asks about from `Compared`; every commit is one
step of `JobCatalogue` and every other step none: a merge that is decided twice, by two
requests at once, archives the job again and moves what came in between.

`CrawlProofs` proves, for every number of runs and executions, every page limit, limit,
window and penalty, every number of attempts and stalls, and every listing in which only
the last page is empty (`ListingAssumption`, which is how the adapters recognise the end):

| Theorem | States |
|---|---|
| `RateIsRespected` | `Spec => []RateRespected` |
| `NothingIsMissed` | `Spec => []CompletedMissesNothing` |
| `NewIsNotForgotten` | `Spec => []NewIsHandedOver` |

The arguments. A request is let through by the command that counts it, so `admitted`
never exceeds `count`, which is capped: the earlier read of the block plays no part.
`NothingIsMissed` needs the state of the loop in between, `Reading`: the pages behind an
execution are known, and of its page all but what it has in hand; `known` only grows, so
nothing another execution does disturbs it, and after a page without a next one there is
nothing (`NothingAfterTheLast`). `NewIsNotForgotten` needs that two executions never hold
the same run's new jobs for nothing: `WorkerOK`, and that the only steps that drop a
stack with new jobs in it are a retry or a crash, after which the property claims nothing.

`MatchingProofs` proves, for every set of jobs, workers, embedding spaces, versions and
days, and any number of edits, restarts, stalls and attempts:

| Theorem | States |
|---|---|
| `TypeCorrect` | `Spec => []TypeOK` |
| `OneMatchIsCurrent` | `Spec => []OneCurrentMatch` (M1, M4) |
| `SpacesStayPure` | `Spec => []SpacesUncontaminated` |
| `VectorsAreIdentified` | `Spec => []VectorsAsIdentified` |
| `RecomputesAreFresh` | `Spec => []RecomputeIsFresh` |

The arguments. `OneMatchIsCurrent` is inductive with the types: both transactions end in
`MakeCurrent`, which keeps identities apart. The vectors need `ScoreOK`: a score that has
named its inputs runs in a process of the model of the space it named, and holds the
vectors its identity names, whatever the cache says by then. A restart ends the scores of
the process, so the model under a running score never changes. `RecomputesAreFresh` needs
`Fresh`: of a job that was asked for, every score in progress, an older one included,
agrees with the inputs as they are (`Agrees`), because nothing was in flight when it was
asked for and nothing was edited since; so whichever of them is the last to write makes the
same identity current.

`DocumentsProofs` proves, for every set of profiles with any number of roles, every claim
a provider can list and every repair policy, assuming that null is not a number
(`NoneAssumption`), that claims are of the kinds of the schema (`OffersAssumption`) and that
roles have a start and numbers for dates (`ProfilesAssumption`):

| Theorem | States |
|---|---|
| `TemplateIsLastResort` | `Spec => []TemplateOnlyAfterFailure` |
| `NothingIsLeftOut` | `Spec => []NothingLeftOut` |
| `OnlyWhatIsBacked` | `Spec => []NothingUnbackedIsSaid` |
| `TemplateHolds` | `Spec => []TemplateIsVerified` |

The arguments. Underneath is the loop of `computeExperienceMonths`. `SweepExists` shows
that the fold has a value at all, by an induction over the cardinality done as in
`SearchRunsProofs`. The loop's invariant is `Swept`: after `n` ranges in the order of
their starts, the total is the number of months the first `n` cover and the cursor is the
greatest of their ends, so of the next range exactly what lies behind the cursor is new
(`SweepStep`). Hence `MonthsAreCovered`, in whatever order roles that start together are,
and, as such an order exists (`OrderExists`), `RangesAreCovered`. On that rest
`VerifiedIsBacked`, that a claim the validator passes has a fact of the view behind it;
`BackedIsSaid`, that its sentence then holds but for what `Overstates` names; and
`YearsAreVerified`: tenths of years rounded down are within the validator's tolerance.
The invariant of the loop, `IInv`, keeps with every letter the view it was checked
against: a plan that was refused or failed only ever leads to the outcomes of `Accepted`
and `Outcomes` (`DraftHolds`, `TemplateDecision`), and edits in between change the
profile but not the view. That the template only follows an attempt that went wrong is
`Excused`. An answer that is given again was verified against the profile of that moment
(`ReuseStep`).

`CandidateProfileProofs` proves, for every number of requests at a time, every set of
bodies and of jobs, assuming what the schemas say of them (`JobsAssumption`,
`BodiesAssumption`, `TextsAssumption`):

| Theorem | States |
|---|---|
| `NestedIsOwned` | `ProfileSpec => []NestedBelongsToProfile` |
| `ExperienceCounted` | `ProfileSpec => []ExperienceIsCovered` |
| `LanguageCaps` | `ProfileSpec => []UnmetLanguageIsCapped` |
| `SkillsHelp` | `ProfileSpec => []SkillsNeverHurt` |
| `ScoreIsMean` | `ProfileSpec => []ScoreIsMeanOfPresent` |
| `OneRecommended` | `ProfileSpec => []OneResumeRecommended` |

The arguments. `ProfileInv`: a POST holds the id of the first row, rows are never removed,
and inserts only append. `RowsOK`: there are finitely many rows, of the bodies that were
sent, and no two resumes with one id. The rest is about the engine, for any candidate that
satisfies this. `Rounds` and `RoundsInOrder` say of `Math.round` of a quotient that it
stays between whole bounds of it and keeps the order of numerators; so the share of known
skills grows with the skills (`ShareGrows`, `SkillsSignal`), and the mean with any signal
as long as the same ones are present (`MeanFollows`), within the bounds of those that are
(`MeanIsBounded`). `SkillsHelp` also needs that the resume with the same id is the same
resume, or its similarity could change. `OneRecommended` is that the comparator (score,
version, id) is a total order and a finite set has a first element in it (`FirstExists`).

## 7. What is not shown

Only model-checked: liveness under fairness (`EveryRunEnds`, `EveryChildEnds`,
`CrawlEnds`), which is beyond the prover, and the two counterexamples. Every safety
property that a run checks is also a theorem. Proved and in no run:
`GrayZoneAsked`, `RefusedIsRejected`, `ScoreIsMeanOfPresent`, `OneResumeRecommended`.

Not modelled, on purpose: the scheduler (a stale scheduler only starts a search run, any
of which `SearchRuns` allows), the review and status changes of application targets
(single guarded updates that no modelled component reads) and their enrichment over HTTP
with its own limiter bucket, educations and links in the candidate profile, stored files
and text extraction of resumes, the translation of a board's JSON, HTTP and prompts of
the AI clients, storage, logging, configuration, authentication and read-only routes, the
web client (it keeps no state the server relies on), `packages/browser-automation`
(empty). The similarity of jobs, the verdict of the hard filters and the semantic
similarity of a resume are constants or given values. Isolation below the statement, hash collisions, clock skew between processes
and the loss of PostgreSQL or Redis data are outside every module.

## 8. Plan

Written: the application aggregate with its refinement, search runs, document
preparation, ingest, crawl, matching, documents and the candidate profile, all of them
with proofs. What would come next, in this order:

1. The composition of `Crawl` with `JobCatalogue`: what a completed crawl handed over is
   in the catalogue.
2. The states of application targets, and the scheduler against configuration changes.
