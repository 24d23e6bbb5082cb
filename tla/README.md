# Verification of the maimai MCP toolkit

TLA+ models of the toolkit, the TLC configurations that check them on small
instances, and theorems about them that the TLA+ proof system checks for all
instances. Everything is translated from the Rust sources under `crates/` and
`apps/`; comments name the functions a definition stands for, and
`PROJECT.json` gives their lines.

Contents: 1 inventory, 2 modules, 3 correspondence with the code, 4 runs,
5 bounds, 6 fairness, 7 proofs, 8 disagreements with the documentation,
9 other observed behaviour, 10 what is not modelled, 11 how to run.

## 1. Inventory

The server is one process (`maimai-stdio`, 60 tools) that answers MCP tool
calls over stdin and stdout. Handlers are detached tokio tasks: calls run
concurrently and may outlive the end of the input. State lives in one SQLite
database (`maimai-storage`, up to eight connections, 30 s busy timeout), in
catalog and image files on disk, and in mutexes of the services
(`maimai-app`).

| Part | State | Operations | Hard because | Correct when |
|---|---|---|---|---|
| Catalog refresh jobs (`app/catalog_refresh/job`, `storage/catalog_refresh_job`) | job and source rows; the owner lock file; per process: lifecycle lock, task handle, a terminal state that waits for its write, a progress channel | open, start, status, run, maintain, shutdown | starts race across calls and processes; rows are written by the task, by calls, by shutdown and by the next owner; any statement may fail; shutdown and crash anywhere | one active job; none forgotten; a settled job never changes; its outcome agrees with its sources |
| Catalog publication and snapshot (`app/catalog_refresh/publish`, `catalog/store`, `catalog/alias`) | data files, ETag sidecars, the published snapshot, `reload_lock` | persist bundles, roll back, touch on 304, load, add/delete alias | several files change together; loads race with publication; rename, sync or rollback fails; crash between renames | bundles are whole; what is served was on disk; an ETag is never ahead of its document; acknowledged edits hold |
| LXNS OAuth binding (`app/oauth`, `storage/oauth`, `app/score_service/lxns`) | authorization, pending confirmation and token rows, each with a generation | link, exchange, prepare, confirm, refresh, retry after 401, unbind | rotating refresh tokens, compare-and-swap, lost replies, superseded links | a claim belongs to one call; races never leave a dead refresh token; unbound means unbound |
| Group rankings (`app/rankings`, `storage/rankings`) | job and snapshot per group; `active` and `terminal_errors` maps; recovery cell | ensure, status, clear, run, reap, retry, shutdown; reports | handle entered after spawn; errors remembered without a generation; drained once; a refresh collects from caches and concurrent workers; a report reads in several statements | a snapshot is what its job completed with and accounts for every member; no job forgotten; shutdown waits; a report is one snapshot |
| QQ identity (`app/identity`, `storage/identity`) | one job row, one snapshot, a shared refresh flight, a terminal state that waits for its write | refresh (direct, background), status, directory queries | leaders and followers of a flight, panics, recovery, retries | one flight at a time; every follower is told how it landed; the row is settled |
| Player scores (`storage/player_cache`, `app/score_service/cache`) | per player a shared B50 snapshot and the full scores | queries of tools and ranking workers, settings, daily reset | late writers of different ages and quality | full scores are one request's and never go back |
| Score services, completion, rise, rankings' reports | none between calls | source selection and fallback, decoding, lists, lookups | provider shapes, fallbacks, numeric edges | what a provider sent arrives; what is asked is shown; lists are best and ranks agree |
| Rating and scoring rules (`core`) | none | rating, tables, calculation, search of combinations | pruning, rounding, caps | the search finds what enumeration finds |
| Catalog loading and queries (`catalog/load`, `projection`, `plate`, `query`) | none between loads | merge of four sources, plates, search | identities that disagree, ambiguity, filters per source | nothing is lost, queries are exact, a lookup never guesses |
| Provider clients (`providers`) | connections | requests and replies | limits, redirects, shapes, retries | a reply is taken for what it is |
| Diving-Fish credentials, settings | single-statement rows | bind, clear, switch | - | part of the sessions of `ServiceTools` |
| State database (`storage/store`, `schema`) | the SQLite file | open, migrate, import old records and tokens, stores and reads | killed between any two steps of an opening | an opening cut off anywhere is completed by the next and loses nothing |
| MCP surface and process start (`mcp/protocol`, `contract`, `apps/maimai-stdio`) | the contract, the settings | build the contract, check and route a call, start and stop | a service fails to open when others are open | a call reaches its tool or is refused; what was opened is closed |
| Drawn images (`app/image_output`, `app/b50_image`) | the image directory, render slots | draw, save, clean up | saves and cleanups without a lock, failures, kills | no image is replaced, or removed before its time |

How they interact. A tool call of a catalog refresh goes through the job
coordinator; its background task plans, takes the process-wide `refresh_lock`,
runs the blocking publisher and reloads the snapshot under `reload_lock`, which
alias edits also take. Rankings and scores read the published snapshot, refresh
OAuth tokens through the binding service, and look names up in the identities.
`lifecycle.rs` starts the services (the catalog job coordinator first claims
the owner lock, then recovers) and stops them in the order rankings, identity,
catalog jobs, database.

## 2. Modules

State machines, with the abstract specifications they implement and the
modules that prove about them:

| Module | Models | Refines | Proofs |
|---|---|---|---|
| `CatalogRefreshJobs` | the job table and every actor that writes it | `RefreshJobLifecycle` | `CatalogRefreshJobsProofs` |
| `CatalogPublish` | files, snapshot and alias document under two locks | | `CatalogPublishProofs` |
| `ImageFiles` | the image directory | | `CatalogPublishProofs` |
| `OAuthBinding` | three rows and the provider | | `OAuthBindingProofs` |
| `RankingJobs` | job and snapshot of a group, the coordinator's maps | | `RankingJobsProofs` |
| `IdentityJobs` | the flight with leaders and followers, the background job | `SharedRefresh` | `IdentityJobsProofs` |
| `ScoreCaches`, `GroupScores` | score caches and their queries; a group refresh and its readers above them | | `GroupScoresProofs` |

The publisher is one step pair (begin, end) in `CatalogRefreshJobs` and all of
`CatalogPublish`: the first asks who may publish when, the second what a
publication leaves behind. `RankingJobs` has the life of a ranking job,
`GroupScores` its work.

Pure parts: a question and its answer, in modules that extend one another.
`ScoreRules`, `ScoreSearch` (scoring); `Ratings`, `RiseScores`, `RankReports`
(lists); `Catalogs`, `Plates`, `CatalogQueries`, `Lookups`, `CatalogTools`
(catalog); `Completion`; `ProviderReplies`, `ScoreProviders`, `ScoreTools`
(scores); `RankTools`, `ToolSurface`, `ProcessStart`, `ServiceTools`,
`StateDatabase`. `ToolAnswers` puts a question to one of them per step, and
`ToolPromises` says what the answers promise, without the computation it
checks. A provider's replies, what a fresh cache holds or the moment a process
is killed are part of the question, so that these modules have no state that a
second actor could change; where a second actor can, a state machine above has
it.

`MC...` modules instantiate them for TLC; `MCToolAnswers` holds the questions.

`ToolPromisesProofs` proves promises of `ToolPromises` for every catalog, every
set of scores and every reply, and `RankPromisesProofs`, above it, those about
ranks for every ranking (section 7).

## 3. Correspondence with the code

The `map` of `PROJECT.json` gives the lines of the definitions that carry the
state, the operations and the rules. A helper whose lines already belong to the
definition it serves is not listed again: it is the same code, cut into
operators.

### CatalogRefreshJobs

`status`, `outcome` and `rows` are the two tables; `owner` the advisory lock on
the database; `life` a process between `open` and exit; `active` and `slot` are
`runtime.active` and `runtime.pending_terminal`; `task` the program counter and
progress queue of `run_job`; `call` the tool calls; `refresh` and `writers` the
`refresh_lock` and the blocking publishers, which outlive an aborted task.
Claim, Recover, Crash and Exit are the life of a process; RunTask the task from
plan to terminal write; PersistProgress the consumer of its channel; CallBegin,
RunCall and LockLifecycle the calls (`start_with`, `status`, `maintain`);
RunShutdown the shutdown sequence. Every lock acquisition, every statement and
every await between them is a step of its own. A statement is carried out or
fails without effect; the read-back of a start can fail after the commit, as
in the code. What a freshness plan finds due and what a fetch returns is
nondeterministic.

### CatalogPublish

`disk[f]` has the bytes of a file as a version number and its revision (size
and mtime as one stamp); `served` is the published snapshot, taken from
`load`, whose two looks at the revisions (before and after reading) are steps
apart. `ref` follows a refresh of one or more sources: fetch, persist file by
file (backup, rename), directory sync, rollback, ETag, 304 touch, and reload.
`alias` are the add and delete calls under `reload_lock`. `acked` and `torn`
are history variables for the properties.

### ImageFiles

Every call of a drawing tool: the permit of `render_slots`, the drawing, the
save (a hidden temporary, a hard link under a name that must be free, the
next suffix when it is not, the unlink), and the cleanup (list, expire, sort
by age, remove what is over `max_files`). A step is one file operation other
threads may see. Any of them may fail, and the process may be killed.

### OAuthBinding

One subject; rows of others are independent. Links are numbered by the order
they are handed out and refresh tokens by the provider's rotations, so that the
properties can say which link a token came from, which the code's own
`generation` cannot: it restarts at 1 when a row is deleted, and the model
does that too. A call is a record of what it remembers across its awaits.
`restarted`, `unbound` and `lost` are history variables.

### RankingJobs

`job` and `snap` are the row and the snapshot of a key (namespace and group);
`active` and `errors` the maps of `CoordinatorState`; `task[k][g]` the task of
generation `g`: `work` (refresh_b50, refresh_song), `failing` (storing the
failure), `leaving` (its error remembered, about to return it), `ok`, `err`,
`panic`. Tool calls and shutdown are actors that share `settle_task`,
`persist_join_failure` and `retry_terminal_errors` as the code does. Every lock
block and every statement is one step. `complete_*_ranking` is one transaction
and hence one step; what it fetched is left open. `dropped` is a history
variable: tasks whose handle or remembered error made place for another one.

### IdentityJobs

`row` and `snap` are the job row and the age of the snapshot; `active` and
`pending` the fields of `RefreshState`, behind a mutex that is held for single
steps, save by `start_refresh_job`, which keeps it from its look at the cache
to the spawn. A flight fetches, replaces the snapshot and lands with its
result or a panic. An actor first recovers, reaps a finished flight and retries
a pending terminal state, then leads, follows, starts a job or reports status.
The refinement maps flights to flights, the actors that wait for one to
callers aboard, and what they return to what they are told.

### ScoreCaches and GroupScores

A score list is the instant the provider read it (`seen`), which the program
does not know; what it stores is stamped with the `now` of the request. `b50`
and `full` are the two caches of a player, `query` the tool calls and ranking
workers from their settings over cache, provider and fallback to the store.
In `GroupScores` a `run` reads members and caches, spawns at most
`max_concurrency` workers, collects them in any order and replaces the
`ranking`; a `reader` reads it statement by statement meanwhile.

### The pure modules

Texts are short sequences of letters with a table of capitals, digits and
blanks, so that trimming, folding and prefixes are computed and not assumed.
Fractions are exact. Documents (catalogs, provider replies, contracts,
databases) are records of the fields the code looks at. What may be left out is
a set of at most one value. `Using` computes a value once; TLC counts the cost
of its argument where it is used. In `ServiceTools` a question is a session:
the tools a subject calls one after the other, with the callbacks between them.
In `StateDatabase` it is a script: openings of one file, each cut off before
any of its 21 steps, with stores and reads in between.
## 4. Runs

| Run | Module | Checks | Shows |
|---|---|---|---|
| `calls` | `MCCatalogRefreshJobs` | SingleActiveJob, RunningJobAttended, RecordedTerminalFits | two concurrent calls, two successive jobs, a failed statement, shutdown anywhere: one active job, none forgotten, no recorded terminal state goes stale |
| `sources` | `MCCatalogRefreshJobs` | OutcomeMatchesRows, RunningJobSettles | two sources per job, every publication and reload result, lost progress writes, a crash: what a settled job reports agrees with its source rows, and every running job is settled |
| `handover` | `MCCatalogRefreshJobs` | TaskRunsUnderLock, ImplementsLifecycle | two processes hand the database over by shutdown, exit and crash: work is done under the owner lock only, and the table implements `RefreshJobLifecycle` |
| `files` | `MCCatalogPublish` | BundlesWhole, AckedAliasServed, RefreshReloadUndisturbed, ServedWasOnDisk, ImagesKept | a publication against alias edits, with failed renames, syncs and rollbacks and a crash; and image saves against cleanups |
| `oauth` | `MCOAuthBinding` | ClaimIsExclusive, StoredTokenIsCurrent, RejectedTokenNotReused | link, exchange, confirm, refresh, retry and unbind by three calls, with lost replies and a crash |
| `rankings` | `MCRankingJobs` | SnapshotIsCompleted, InterruptedHasNoTask, RunningJobAttended, ShutdownDrains | two calls and shutdown share the maps of the coordinator, with failed statements and a restart |
| `identity` | `MCIdentityJobs` | PendingFits, RecoverySparesFlights, ImplementsSharing | two calls and the background job share flights; implements `SharedRefresh` |
| `identity_live` | `MCIdentityJobs` | CallsAnswered, RunningJobSettles | every call that waits for a flight is answered and every running job is settled |
| `scores` | `MCGroupScores` | FullScoresWhole, FullNeverGoesBack, RankingAccountsForMembers, ReportIsOneSnapshot | queries of tools and ranking workers of any age store into the two caches of a player while a group ranking is rebuilt and read |
| `rules` | `MCToolAnswers` | SearchExact, RatingIsBest, RecommendationsPay, RanksAgree, NothingLost, QueryExact, NeverGuesses, CompletionAdds, ScoresArrive, AskedIsShown, CallsArrive, StateSurvives | every operation without shared state, asked everything of bounded sets of questions and compared with a definition that does not use its computation |
| `queued_orphan` | `MCCatalogRefreshJobs` | EveryJobSettles (violated) | section 8 |
| `unbound` | `MCOAuthBinding` | UnboundStaysUnbound (violated) | section 8 |

Every property of a passing run has a mutant: a change of one definition, the
way a slip in that code would look, with which TLC finds the property violated
under the run's own configuration. Deadlock is checked, save in `scores`,
where budgets of calls are used up, and in `rules`, where a behaviour ends with
the answer to its question.

The question of a state space is in the initial states of `rules`: it has one
initial state per question, and the number of questions is its size. The
promises, in the words of `ToolPromises`:

- SearchExact: totals add up, and a search finds something just when some
  vector of counts fits; it counts the vectors one by one and shows only such.
- RatingIsBest: a B50 holds every chart once and is worth as much as any choice
  of records within the capacities of its two sections.
- RecommendationsPay: playing a recommended chart up to its target raises the
  rating by the gain that was promised; a full section without advice has no
  chart that would raise it. Both of charts whose scores are rated by the
  catalog (section 9, Rise).
- RanksAgree: a report lists those that match, with consecutive ranks and
  nobody behind another who is worse; a member's rank is that of the whole
  report, counted from either end; every player of the public list is on one
  page; what a tool shows is of today's ranking and of whom was meant.
- NothingLost: loading four sources loses no chart, mixes no two songs, and
  fails only for what really is ambiguous.
- QueryExact: a query shows the charts that some listing fits, and only those,
  every song once, in order.
- NeverGuesses: a text, a number or a name is resolved to its only exact match,
  else to its only match, else to nothing.
- CompletionAdds: a plate lacks just the charts it names and the player has not
  completed; pages, tables and counts agree.
- ScoresArrive: nothing is made of half a reply, and a player's scores arrive
  as they were sent, or not at all.
- AskedIsShown: a list shows as many of the fitting scores as were asked for,
  none behind one that is left out; a batch gives everyone their own.
- CallsArrive: a call goes to the part its tool belongs to; what it changes is
  what later calls of that player find; what a start opened is closed.
- StateSurvives: however often a process dies while it opens the state, the
  next that opens it finds what one undisturbed opening leaves.

## 5. Bounds

State machines. Every guard compares what one actor remembers with one row or
one map entry, so two actors that race (two calls, two processes, a call and
shutdown) meet every kind of conflict; the theorems of section 7 hold for any
number. `oauth` has three calls, since a retry after 401, a refresh that loses
the compare-and-swap and a rebind are three parties.

- `calls`: one process, two calls, one source, two jobs, one fault. `sources`:
  two sources, one call, one job, one fault, one crash. `handover`: two
  processes, one call, one job, one fault, one crash. A stale record needs one
  predecessor and one successor; sources and hand-over need one job.
- `files` has three setups: a source of two files, the smallest bundle that can
  be torn, with an optional one (two faults, one edit); a source with an ETag
  (three edits, one fault); and images alone (three calls, one stem, two slots,
  `MaxFiles` 1, one fault or kill). `MaxVersion` 1: what is torn or ahead is seen
  with two versions. `Ttl` and `Attempts` 2: an image of this second, one of
  the last, one that has expired; a name taken, the next one free.
- `oauth`: two links, two rotations, one lost reply or failed statement, one
  crash.
- `rankings`: one group, since the maps are per key and an actor settles one
  key after the other; two generations, two faults (the second in the repair
  of the first), one restart.
- `identity`: two calls, two flights, one background job, one fault, two days.
  `identity_live`: one flight, two jobs, one day.
- `scores`: two members, two calls, one chart, one reader, workers one at a
  time, a day of two instants with a reset; budgets of queries alone, a refresh
  after a query, and reports during two refreshes.

Symmetry is used for calls and processes where no definition tells them apart,
never in a run that checks liveness; in `handover` and `identity` it is used
with a refinement, which is a safety property.

Questions of `rules`:

- Score search: at most four notes, one or two digits; an open bound is
  replaced by zero or by what cannot be reached.
- B50 and rise: capacities 2 and 1, three recommendations, achievements of
  0.01 % and constants in tenths; the score the expectation gives is left open;
  the pool of 30 candidates is larger than the instance.
- Rankings: pages of two rows; names stand for texts of one letter; fit indexes
  count from the lowest (the code's may be negative, and only their order
  matters); members are compared by QQ as numbers.
- Catalog: about a thousand combinations of small documents of four sources,
  plate documents, and three published catalogs for the queries.
- Providers: one body limit for all clients; a body is as long as its tokens,
  raw evidence as long as its body; a player's own records stay below the raw
  limit; lists contain no lists but where a list stands for a record; batches of
  up to three players finish in any order; NapCat's timeout is its default.
- Tools: at most two reads per call; the group argument of a lookup is left to
  the users' preferred groups; a musicId is its digits.
- Surface: a contract with an editor's slip next to the real one, one or two
  environment variables at a time; sessions of up to four calls, each of which
  ends before the next.
- State database: scripts of up to twelve events on one file, every opening cut
  off before each of its 21 steps and pairs of cuts, one process at a time, the
  same `now` within a script; numbers above u32 and side-car files left out.
  Rows with equal sort keys come in the order of their row key.
- JSON may be nested 128 deep, as in `serde_json`; documents are as deep as the
  question needs, and one deeper.

## 6. Fairness

`sources` and `queued_orphan` use `FairSpec` of `CatalogRefreshJobs`,
`identity_live` that of `IdentityJobs`. Weak fairness: tokio polls a ready task,
a call under way, the shutdown sequence and a started blocking thread again; a
restarted server opens its database; and a client keeps calling the status tool
while it follows a job, which the contract of
`refresh_maimai_sources_job_status` asks of it and which drives `maintain`.
Strong fairness for taking a mutex (`Plan`, `LockLifecycle`; the actors of
`IdentityJobs`): tokio's mutexes are first come, first served, and may be taken
and freed while one waits. Nobody owes a crash, a fault, a panic, a foreground
refresh, a shutdown, a dropped call or the end of the process.
## 7. Proofs

Checked by tlapm with Z3, Zenon and LS4, for any sets of actors, players,
sources and charts and any bounds. The assumptions are named where the constants are
declared, and TLC evaluates them in the runs. Where a property is not
inductive, its strengthening was an invariant of a run before it was proved.

### CatalogRefreshJobsProofs

`TypeCorrect`; `LockDiscipline`: a process from claim to release is the owner, a
task works only while its process is up or aborting, and a call that is about
to insert or spawn belongs to one that is up, from which `TaskRunsUnderLockHolds`
follows. `SingleActiveJobHolds` and `Implementation` (refinement of
`RefreshJobLifecycle`) rest on `JobInv`: the terminal states that slots and calls
carry have an outcome that fits their kind (`FitInv`). Every step is a step of
the abstract job or leaves the table alone.

The second half is about who settles a job. `AgentInv`: a serving process has at
most one agent of the active job (its task, a recorded terminal state or a
call), and the row still allows what the agent will do. It gives
`RunningJobAttendedHolds`, `RecordedTerminalFitsHolds` and
`OnlyTheServerWritesHolds` (an action property: no other process writes the
table while one serves). `RowsInv`: what the task knows of a source, what is in
its channel and what its row says agree; it gives `OutcomeMatchesRowsHolds`.

### CatalogPublishProofs

`FilesInv`: the files of the bundle in flight that were replaced have the
offered version, the others the old one; stamps are ahead of or past what loads
have seen; a load in progress knows what it read; locks and the alias document
agree. It gives `BundlesWholeHolds`, `RefreshReloadUndisturbedHolds`,
`AckedAliasServedHolds` and `ServedWasOnDiskHolds`. `TargetsAssumption`: bundles
are disjoint, one source is tagged, a source with an optional file has no other.

Of `ImageFiles`, `ImagesKeptHolds` (action): no image is replaced, and what is removed had expired
by its call's time or had `MaxFiles` others at least as new. The invariant:
names in use are apart, slots are kept, and what a cleanup knows was saved.

### OAuthBindingProofs

`ClaimIsExclusiveHolds`: as long as no row was deleted under a call that names
it, a claim is one call's and names the authorization that was claimed.
`BindingInv`: every version of a refresh token that was never stored is carried by
one call (or lost), every version is stored at most once and under one
generation, the stored one is the newest that anybody knows, and nobody knows
one that was not issued. It gives `StoredTokenIsCurrentHolds` and
`RejectedTokenNotReusedHolds`.

### RankingJobsProofs

`SnapshotIsCompletedHolds` and `InterruptedHasNoTaskHolds` from `IInv`: every step
of a live process is a "move" (what may happen to tasks, jobs, snapshots, maps
and actors), and moves preserve the invariant without a look at actions.
`RunningJobAttendedHolds` and `ShutdownDrainsHolds` from `DutyInv`: which actor
has to settle which task. With three calls TLC refuted a first form of the
property; what it found is in section 9.

### IdentityJobsProofs

`PendingFitsHolds`, `RecoverySparesFlightsHolds` and `Implementation` (refinement of
`SharedRefresh`: a step is a stutter or lands, departs, boards, alights, abandons,
leaves, closes, or is gone). The invariant: one terminal state is owed at a time,
handles belong to flights that departed, flights are numbered in order of
departure, and the mutex has one holder.

### GroupScoresProofs

`FullScoresWholeHolds`, `FullNeverGoesBackHolds` (action), `RankingAccountsForMembersHolds`,
`ReportIsOneSnapshotHolds`, for finite sets of players and charts and calls that
are no workers. `IInv` is `CachesInv` (what a query holds is sound, both caches of a player are
whole) and `GroupInv` (members of a refresh are in one place each and are counted,
a snapshot is published once per generation, a report has read all or none of a
snapshot's rows). Both halves have contracts (`CachesKept`, `WorkersKept`), so that
neither looks at the actions of the other.

### ToolPromisesProofs

`RatingIsBestHolds`: for every catalog, every set of scores, both modes and any
capacities. `RatingAssumption` says that questions are of catalogs and scores as
the loader and the decoders make them (constants, achievements and ratings not
negative). The lemma `RatingInvariant` only ties the answer to the operator that
models the code; the substance is in what that operator computes, shown in three
steps: a sum over a set does not depend on the order (`AnyOrder`), nor on
whether the code adds along a list or the reference over a set (`SumIsWorth`);
`ChartOrder` is a strict order, total on distinct charts, so that `Sorted` lists
every record once (`Places`, `Sorts`); and no n records of distinct charts are
worth more than the first n (`FirstIsBest`, by induction on the capacity with an
exchange), nor are others of the same charts (`NoWorse`). That the record kept
of a chart is in the section of all of its records needs that the version flag
is the catalog's (`Judges`).

`RecommendationsPayHolds`: for every catalog, every set of scores, both rules and
any capacities; `RatingAssumption` says of a rise question that the catalog is
finite and the rule one of the two. The lemma `AdviceInvariant` only says that the
answer is one the code may give, whichever charts the draw takes. The substance:
one record more raises the best choice of a section by what its rating is above both the old one of its
chart and the least of a full section (`Raises`: no choice gains more,
`NoBetter`, and one gains as much, `AsGood`, whether the new record takes the
place of the old one, of the least, or a free one). So does a play the total
(`TotalAfter`), and an item's gain is just that (`AdviceIs`, `Gains`). Where
nothing is advised in a full section no target passes the floor, or the chart is
in the list with a capped rating, which none exceeds (`SongRatingGrows`,
`NoneLeft`). `OldRatingIs` is where scores rated by the catalog are needed.

Induction uses sets for predicates (`NatSet`, `SubsetInduction`), since a theorem
with an operator parameter cannot be instantiated.

`RepliesWholeHolds`: the part `RepliesWhole` of ScoresArrive, for every reply,
whatever its bytes, status and value. `ReplyAssumption` says what a question to
a provider is: a known operation, grant, list or source; chunks and lengths that
are numbers; a body that is one JSON value or none. A NapCat list names no field
twice (serde refuses that of a field it reads). The lemma `RepliesInvariant` only
ties the answer to what the client makes of the replies. For each client, an
answer that is no refusal has come through all of its checks (`DfReply`, `OperationHolds`,
`TokensHold`, `GroupHolds`, `AccountsHold`, `FetchHolds`), each of which needs a
whole reply: what was read is what was sent and no longer than the limit. The
other way, a whole reply of success to a valid request is answered with. What a
fetch assembles is in the order of the source's parts, each document from its
own endpoint (`AssembleIs`, `FetchUses`).

### RankPromisesProofs

`RanksAgreeHolds`: for every ranking, public list and argument that fits its
type. `RankAssumption` says what a question may hold: a stored ranking has one
entry of every member (its primary key), finitely many records, the public list
names every player once, values are not negative, and an argument is there once
or not at all. The lemma `RanksInvariant` only ties the answer to the code's
operators; the proof goes along the lists they make:

- `ByKey` is the order of keys compared number by number; with distinct keys it
  is total (`KeyOrders`), and the position in a sorted list is the number of
  those ahead (`Standings`, `Enumerated`), which counts the same from either end
  (`FromEitherEnd`).
- A report is a window of that list (`ReportIs`, `WindowRows`, `WellPlaced`), of
  B50s (`ReportsHold`), of a song, where one best play of each member is kept
  (`SongReportsHold`), and of the public list (`PagesHold`, `RangesHold`,
  `LookupsHold`). A member without a rating is behind all others, so that
  leaving them out of the report changes no rank (`StandingAmongRated`).
- A tool answers by one of six ways (`RankToolCases`); whoever `rank_at` shows is
  found by the second read too when it returns the same (`RankAtShown`).
- A member named by a text is one whose name contains it and whose score no other
  reaches (`ResolvedIs`, `MemberForIs`): for this trimming, folding and the order
  of numbers as texts are proved (`TrimIs`, `FoldedTrim`, `TextOrder`).


### Only model-checked

- Liveness: `RunningJobSettles` (twice) and `CallsAnswered`; fairness and ENABLED
  are out of the prover's reach.
- The other nine promises of `rules` (of ScoresArrive all but RepliesWhole). The
  loaders, decoders and queries they are about are folds and recursive functions
  over documents and texts, whose values for every input need an induction over
  data.
- The two violations.

## 8. Disagreements with the documentation

- `queued_orphan`: `start_catalog_refresh_job` commits the queued row and then
  reads it back. If the read fails the caller gets an error, nobody spawns the
  task, and later starts answer "already running" until the process restarts.
- `unbound`: unbind deletes the rows, and generations start at 1 again. An
  exchange or refresh that was waiting for the provider matches the next
  binding's rows and stores the tokens of the account that was unbound.

## 9. Other observed behaviour

Seen while modelling and modelled as it is; no run states the contrary.

Catalog files. Bytes that a failed publication rolls back may be served, if an
alias edit reloads in between; a rollback gives restored files a new
modification time, so they count as fresh; a file that both looks of a load
miss may have existed in between, which `ServedWasOnDisk` excepts. `shutdown`
aborts the task but not the blocking publisher, which may replace files after
the release. After an uncertain disk state the previous snapshot is said to stay
active until a repair, but the next alias edit reloads and serves the torn files.

OAuth. `prepare` may save a confirmation for a link that was meanwhile
superseded: confirming it answers "not found". A token whose expiry cannot be
stored ends the exchange without giving the claim back, which stays busy until
it expires. A link given with a partial context can never be used by prepare;
confirm ignores the state; a bind attempt after expiry deletes the link, so that
a pending confirmation then answers "not found"; unbind reports a change only if
there was a token.

Rankings. `shutdown` drains the handles once: a call that started a task before
and enters its handle afterwards leaves it at work when the database is closed;
`ShutdownDrains` excepts exactly these late or replaced handles. A remembered
error names no generation and may fail a newer job, whose task then publishes
nothing; when two statements fail a newer job's error may be forgotten, and with
three calls an older task's error can push a newer one out of the map: the row
then stays running until the next start (`dropped` excepts both). A panicked task
whose handle was replaced leaves its row running until the next start. A report
that is read while it is replaced may be empty or fail; rows and cache status are
read separately. A member's rank counts unrated members that the report leaves
out; a song ranking keeps a member's best chart by rating; `rank_at` reads the
ranking twice; reversed ranges, a bad context size or output mode are refused only
after a refresh may have been started; `resolve_song` takes the first hit and
`searchLimit` has no effect.

Identity. A direct refresh takes `fetched_at` before its flight starts, so it may
move back; a panic of a direct flight may be reported to an unrelated reaper;
shutdown can return while another call still holds a terminal state whose write
then fails; a snapshot is read before written in a deferred transaction, which
may fail as busy; a member listed twice in a group fails all of it; a refresh cut
off by `max_groups` replaces the full snapshot; users and memberships, and cache
and job, are read in two statements.

Scores. A slow B50 request from before the reset overwrites today's entry; stamps
of the request's time may let older data overwrite newer, and newer be dropped as
stale; a B50 of the same rating is not rewritten; a refresh that spans the reset
is labelled with the time it ended; `local_scores` reads records and profile
separately; a song refresh without a developer token fails as a whole; resolving
with one result hides ambiguity.

Scoring search. Constraints on a type without notes are ignored; a zero for a
disallowed judgment is refused though it could be met; a target below a type's
minimum is called a constraint error; an empty loss range answers "not found"
before constraints are looked at.

Rise. The old rating and the gain use the catalog's constant while the B50 uses the
record's own, and a record with a rating and no achievement counts as never
played: RecommendationsPay excepts charts with such scores (`RatedByCatalog`).

Score tools. A song with numbers of both kinds is refused even when the kind was
named; a plate filter by a single Diving-Fish number ignores the kind; the fit
label "equal" cannot be filtered by; a query that timed out may have stored its
scores; an unknown plate filters to nothing; the server argument is looked at
after the fetch; candidate counts are lengths of truncated lists.

Catalog. A utage for two that only Diving-Fish lists fails the whole load, as does
a dxdata song with numbers of two songs or a shared title; equal titles of dxdata
are merged; an id written as a number answers to that number; the fit index of a
utage comes from index 0 in one projection and from none in another; projections
of the official list never count as region cn; filters look at each source's
projection but sorting at the merged value; descending relevance shows the worst
first; limit 0 shows nothing; a wrong format is refused after the query; the song
count of a version counts listings; a fractional bpm alone is a reversed range.

Plates. A custom plate that names a song of both kinds without a type, an unknown
reference, or a number listed twice fails the whole load; a dx sheet of a utage
with a plate's version is a member without charts; doubled ids of a CN plate
count twice; SYNC counts as full sync; the best record of a chart is by
achievement only; two tools normalise a version differently; level progress
without a JP capability uses cn.

Providers. A token reply whose `error` is not a text is not seen to say no, and
its tokens are taken (`ResponseStatus` fails to parse as a whole). The Diving-Fish client looks at `is_redirection` before NOT_MODIFIED, so
that a 304 is reported as a redirect; an LXNS list of one score that cannot be
read is a player without scores, and so is a 200 without data, which replaces the
snapshot; of a records object with one array any name is taken; a 401 that is not
JSON is not retried; two records of one chart fail as a storage error;
`song_scores` keeps the snapshot even when the filter fails; a dxdata proxy's 200
with a bad body is not retried at GitHub; a 304 without an ETag sent is accepted;
NapCat's envelope without status is accepted.

State database. One unreadable imported row makes all reads of that player fail;
the import compares `updated_at` as text and overwrites newer rows; two processes
that open at once can make an ALTER fail. Process start: when the catalog
refresh service fails after the state was opened, the state is dropped and not
closed; a display offset accepts a second sign; LXNS OAuth texts are validated
even without a client id.

Images. A save that is killed leaves its hidden temporary; a permission change by
path may fail a save whose image another cleanup removed; a failing save after
the link leaves its image; a name reused within its second may be removed by a
cleanup that listed the older one, which `ImagesKept` excepts; two images of one
modification time may both be removed by two cleanups.

## 10. What is not modelled

- Drawing and layout, style setting, covers; wording and redaction of errors; the
  JSON schemas of tools; the views of music info and of today's charts; the
  catalog's history; formatting of alias tools; uploads that no tool calls.
- SQLite itself: a statement or an immediate transaction is one step, is carried
  out or fails without effect, and survives a crash once committed.
- Time: expiry, lifetimes and resets are instants or nondeterministic; clocks do not
  jump.
- A second process on one database other than by hand-over: the owner lock
  refuses it.
- Batches of music info bound only themselves (four per request), and other
  services share the image directory; in `ImageFiles` all of them are calls.

## 11. Running

    tlc -workers 2 -config MCCatalogRefreshJobs_calls.cfg MCCatalogRefreshJobs
    tlc -workers 2 -config MCToolAnswers_rules.cfg MCToolAnswers
    tlapm CatalogRefreshJobsProofs.tla

`PROJECT.json` lists the components, the runs with their configurations, the
mutants, the source lines of the definitions, the hazards of the code with the
properties that address them, and the theorems.
