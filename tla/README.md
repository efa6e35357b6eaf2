# Verification of VERORI

TLA+ models of VERORI, checked with TLC and proved with TLAPS. VERORI is a
monorepo: an Axum API, a worker that runs jobs from a Postgres table, a Next.js
front end, the packages they share, and a scaffolder for new modules. The models
are of the parts that keep state and can go wrong under concurrency, crashes and
retries: the job queue, the worker process, the transactions of service methods,
the example module that goes through all three, the list screens of the web app,
its sessions and guards, and the scaffolder.

Every definition is translated from the code; `PROJECT.json` ("map") names the lines
each one stands for.

## 1. Inventory

| Component | State | Operations | Talks to |
| --- | --- | --- | --- |
| Job queue, `packages/queue` | rows of `jobs` (status, attempts, `available_at`, `locked_until`, key, last error), row locks of a `claim` in flight | `publish`, `listen`, `claim`, `complete`, `fail`, `reclaim_expired`, `redrive`, `count_by_status` | Postgres; called by API, workers and `queue-admin` |
| Worker process, `apps/worker` | poll loop, listen loop, reaper; a `JoinSet` and a `Semaphore` per drain; the cancellation token | `run`, `poll_loop`, `listen_loop`, `reap_loop`, `drain_all`, `drain`, `run_job`, shutdown | queue by calls, publishers by `NOTIFY`, consumers by callback |
| Transactions, `packages/db` and `packages/transactional` | the ambient transaction (a task local), the attempt | `tx::run`, `tx::conn`, `#[tx]` | Postgres row locks and deadlock detection |
| Example module, `apps/api`, `apps/worker` | rows of `examples` | create, update, delete, bulk update, bulk delete, publish, list, get; `on_created`, `on_published` | transactions, queue, both ends |
| Web list screens, `components/composite`, `features/{examples,users}` | url (page, sort, filters, search), the debounce of the search box, selection, open dialog, action states | `AppCrud`, `useCrudQuery`, toolbar, table, pagination, dialogs, server actions | API; Next.js router |
| Authentication and guards, `packages/auth`, `apps/web/src/lib/session.ts`, layouts | the httpOnly cookie, sessions and accounts (Better Auth) | sign in, up, out, reset, profile, roles, bans, `getSession`, guards of layouts and pages | API by bearer token |
| API contract, `openapi.json`, `generated/api-types.ts` | none | the endpoints offered, the types of those that have any | every call of the web app |
| Scaffolder, `scripts/new-module.ts` | the files it writes and the shared files it edits | `scaffoldApi`, `scaffoldWorker`, `scaffoldWeb`, `write`, `insertAfter`, `appendModule`, `addQueueChannel` | the file system |
| Worker and API settings | read once | ranges and defaults, `backoff_for`, `rate_limit` | environment |
| API HTTP layer, `apps/api/src/lib.rs`, `shared/` | rate limit buckets | order of layers, timeout, error mapping | clients |
| UI kit, landing page, migrations, seed, logging | none of their own that changes at run time | | |

Hard behaviours, by component:

* Queue: a lease that runs out while its worker still runs the job, after which
  `complete` and `fail`, which look at nothing but the id, act on a row that is
  someone else's; two claims over the same rows; publishes of one key interleaved;
  a commit whose answer is lost; a redrive while a worker of the drive before is
  still at it. It must keep its retry budget, strand no row, make up no outcome, and
  enqueue a key once.
* Worker: two loops that drain at once, notifications that are lost, a signal or a
  kill between claim and settlement, a batch larger than the permits. It must
  bring every job to an outcome by polling alone, keep its limits, and stop.
* Transactions: conflicts that are retried, deadlocks, a COMMIT that fails or is
  not answered, a future dropped in the middle. An answer must match the table,
  a commit must be whole, no transaction may stay open.
* Example module: the job is published on a second connection while the
  transaction of `create` is open, so the event can be seen before its example, and
  without it. No committed example may go unannounced.
* List screens: a debounced search that fires after the url has moved on, navigations
  that replace each other, an answer that comes for a dialog that was closed or for a
  page the reader is leaving, rows that others remove in between. What is on the
  screen must be what the url asks for, and nothing may be sent twice.
* Sessions: a session that ends between two requests, tabs that share a cookie,
  guards in layouts that links within the layout do not run, a sign-out that fails.
  Nobody may be sent round in circles, be trapped, or see the app without a session.
* Scaffolder: a run that dies half way, two at once over one file, a run repeated,
  anchors that are gone, a name that is the beginning of another. It must not break the
  build of others, repeat lines, or write over what the user changed.

The hazards are listed one by one, at their lines, in `PROJECT.json`.

## 2. Modules

```
JobLifecycle            what the queue promises of one job
     ^ FollowsLifecycle (refinement)
JobQueue                the table and its statements
     ^ EXTENDS               ^ EXTENDS
Runner                  Examples                Transactions
the worker process      service and consumers   #[tx] methods over row locks

ListQuery               which page is shown     ApiContract     what the api offers
     ^ EXTENDS                                       ^ EXTENDS
CrudDialogs             selection and dialogs   Session         who is signed in, and where
     ^ EXTENDS
ListScreen              both, with others       Scaffolder      runs over shared files
                        and failing requests
```

`MC*` modules instantiate these for TLC, `*Proofs` and `JobQueueRefinement` hold
the theorems. Operators whose comment begins with "Mutant:" are not part of any
specification: each is a plausible bug in the definition that follows it, which
the property named in `PROJECT.json` ("mutants") must catch.

### JobQueue

One action is one SQL statement as Postgres commits it. `claim` is two, since its
inner `SELECT ... FOR UPDATE SKIP LOCKED` holds locks before the outer `UPDATE`
commits: `ClaimLock` takes `locks[w]`, then `ClaimCommit`, or `ClaimLost` when it
commits and its rows never arrive, or `Crash` when it does not commit. `publish`
is three statements outside a transaction (`PublishInsert` or `PublishConflict`,
then `PublishNotify` or `PublishSelect`) and may fail after each.

| Code | Model |
| --- | --- |
| a row of `jobs` | `jobs[j]`; status `"absent"` until inserted |
| `available_at <= now()` | the flag `due`; the clock is `BecomeDue` |
| `locked_until` | `lease`: `"none"` (NULL), `"live"`, `"expired"`; the clock is `LeaseExpires` |
| `last_error IS NOT NULL` | `error` |
| the `Job` values in a worker's memory | `runs`; `nth` and `lapsed` are ghosts the code does not know |
| `uuid` drawn by an insert | the id of a publish call is the id it would draw |

`Overrun` is the set of jobs whose lease may run out under a running handler. A
job outside of it is *steady*: its lease is longer than any of its runs, which is
what a lease is configured for. The properties of a steady job say what that buys;
the others hold for all jobs. Handlers are not stopped when their lease runs out
(`run_job` has no timeout and renews nothing), so the code itself guarantees
nothing about who is steady.

### Runner

Every loop that drains is a worker of JobQueue. `pc` is its program counter through
`select!`, `drain_all` and `drain`; each action conjoins control with the statement
it runs. A permit of the `Semaphore` is a run past `"claimed"`, the `JoinSet` is the
loop's runs. Ticks are steps that may come at any time, since `select!` may
take a ready tick over a cancelled token. `PollStops` is `listener.abort()`: it drops
the listen loop's claim and jobs, although the comment at `runner.rs:216` says that
no job is abandoned while it is leased to this process; the reaper brings them back
(`EveryJobSettles`). `Kill` and `Restart` are the process and its supervisor.

### Examples

One record per request. `create` is `CreateInserts` (BEGIN, INSERT), the publish
statements of JobQueue one by one on another connection, then `CreateCommits` or
`CommitFails`; an error or a dropped future is `RequestFails`. `publish_to_queue` is
`FindToPublish`, publish, `PublishAnswers`. `HandleCreated` and `HandlePublished` are
the consumers in their own transactions; `HandleFails` covers not found, failed
statements, and a COMMIT that took effect and was reported as failed. Rows that
are not committed are invisible, so a row appears when its create commits.

### Transactions

A call is one run of a `#[tx]` method, given by the writing statements of its body;
a nested `#[tx]` method only adds statements, because `tx::run` inside a transaction
just calls its operation. A statement takes a snapshot, then locks and writes the
rows it found one by one and waits for rows others have written (READ COMMITTED).
`Deadlock` breaks a circle of waiting calls at any of them. `Commit`,
`CommitUnclear`, `Rollback` and `Dropped` end a transaction.

`is_retryable` searches the *text* of an error for a SQLSTATE. Whether the text holds
one is the driver's affair, so a conflict is retried or is not, and every
property holds for both. That conflicts *are* retried is not claimed here.

### ListQuery, CrudDialogs, ListScreen

One reader on one list, of examples or of users (`screen`), with the parts of `AppCrud`
that have state.

| Code | Model |
| --- | --- |
| the search parameters of the url | `url`, a record; 0 and `""` for one that is absent |
| `router.push`, Back, Forward | `going`, `hist`, `at`; `Commit` is the page that comes |
| `useTransition` of the footer | `busy` |
| the search box and its `setTimeout` | `term`, `timer`: the parameters in the closure, which may be stale when it fires |
| `find_page` of the API | `Counts`, then `Fetches`: two statements, `torn` when the table changed between |
| the page the API answered with | `shown`; the footer's numbers are `Footer(shown)` |
| the selection of `AppCrud`, its open dialog | `selected`, `dialog` |
| `useActionState` of each dialog | `pending`, by kind; `sent` the submissions on their way; `live` while the dialog that sent it is mounted |
| `revalidatePath`, `updateTag` | an `ok` answer brings the page of the url with it, or `refresh` makes it fetched again once the reader has arrived |

Next.js is external: it sends server actions one after the other, shows the old page until
the new one is there, fetches the pages of its history again. What a dialog sends
(`Sends`) and what its action reads (`Needs`) are sets of field names taken from the forms
and from the actions; an action refuses (`Refused`) what does not have what it needs.
Dialogs are modal, and Escape closes them with the answer still awaited (`Dismisses`).
Rows are numbered in the order of creation, which is that of their ids; `Value` is what they
hold in the other columns, and rows may tie there as they do in `published`. `ORDER BY` names one column, and a
fetch lists the rows that match in any of `Orders(u)`, so ties may fall differently each time.
`OthersChange` is anybody else who writes to the table. Back and Forward are used at any
time and replace the navigation under way, a reload only with no answer awaited.

Two things the code does not give are left out of what is claimed. Back or Forward to the very
page on the screen, while the navigation of a search is under way, replaces it and changes no
dependency of the effect in the toolbar, so what was typed is never searched for: `SearchSettles`
leaves out the runs in which that happens (`BackOnScreen`). And an answer whose count and rows
were read at two moments (`torn`) may state a total that its rows do not add up to: `FooterTrue`
then speaks of the rows alone.

### ApiContract, Session

`ApiContract` holds the endpoints of `openapi.json` (`Offer`, method and path) and
the operations of `generated/api-types.ts` that have types, with what they take and
answer. A call of the web app is `ByHand` (a method and a path in a string) or
`ByClient` (through the generated client, an operation); `InContract` says that the
endpoint exists and that a call typed by hand has no type it could have used.

`Session` is one browser whose tabs share one cookie, the accounts, and the sessions
that tokens stand for. A page request (`going`) carries the cookie of when it was sent.
`Serves` is the server's answer: the guard of the layout if the layout is rendered
(`LayoutSends`), then what the page itself asks (`PageSends`, and `PageThrows` when a call
of it is turned away); `ServesBadly` is a call that fails. A link within a layout does
not render the layout (`Follows`), a typed address does (`Enters`). A form is sent
(`Submits`), run at the API (`Runs`, `Refuses`, `Fails`) and answered (`Answers`), and only
the answer touches the cookie. `Expires` and the forms of the other tab change the API's
mind in between. Better Auth is external; a ban ends the sessions of the banned.
Pages are given as their links and forms, so `Entry` bounds only the addresses that are typed.
The calls are those of the forms and pages of the model, compared by method and path, not by
fields; what the dialogs of the example list call is not among them. `NobodyReachesTheApp` holds
of every page but the overview `/admin`, which asks for no session of its own: that it is brought
to people without one is said in section 3.

### Scaffolder

A command is a plan of steps (`Plan`): `write` a file, `append` or `insert` lines in a shared
file, `check` for the channel. A step is two actions, the look (`existsSync`,
`readFileSync`) and the write, and between the two anything may happen: another run, a
kill, an edit. A shared file is the bag of its lines, so an overlapping run that writes
back what it read loses the lines of the other, as the code does. `Edits`, `Removes` and
`DropsExample` are the user. `FileNeeds` and `LineNeeds` say what a generated file or line needs
to compile, from the imports in its template. `addQueueChannel` searches the whole text for
`QueueChannel::` and the variant, so it finds `Example` in `ExampleCreated` and `A` in
`QueueChannel::ALL`: `Begins` and `InAll` say which names begin which, and `Mistaken` which
variants a run may therefore leave out without a word.

## 3. Runs

The queue's instances stop (publishers, redrives and kills are finite), and so do readers
and users of the others (`MaxActs`, `MaxRuns`), so no run checks for deadlock. What must
happen before they stop is said by `EveryJobSettles`, `ShutdownCompletes`,
`EveryCallReturns`, `OrphanIsBuried`, `SearchSettles`, `DeletedLeaveScreen`, `VisitSettles` and `NotTrapped`.

| Run | Instance | What it shows |
| --- | --- | --- |
| `queue` | 2 publishers of one key, 2 workers (symmetric), 2 attempts, 1 redrive, j2 may overrun; 227k states | `RetryBudget`, `LeasedIffProcessing`, `OutcomeIsEarned` and `EnqueuedOnce` whatever leases do; `ExclusiveRun` and `FollowsLifecycle` for the steady job |
| `progress` | 1 process, 2 calls of one key with budgets 2 and 0, 1 redrive, 1 signal or kill; 94k states, fair | `BatchBounds`, `PollFinishesBatch`; `EveryJobSettles`, `ShutdownCompletes` by polling alone |
| `events` | 1 create whose event has 1 attempt, 1 publish request with 2, 1 redrive, 1 loop that may claim the event again while it still holds it; 354k states, fair | `AnnouncedIfCommitted`, `DoneIsSeen`, `UnpublishSticks`, `OrphanIsBuried` |
| `atomic` | a bulk update, a bulk delete and a nested method over 2 rows, 2 attempts; 60k states, fair | `AnswerMatchesTable`, `WholeBody`, `NothingLeftOpen`, `EveryCallReturns` |
| `screen` | either list, 2 rows and room for a third, 1 or 2 to a page, a search that finds the oldest, columns with ties and without, 4 acts of reader, others and faults; 283k states, fair | `NoEmptyPage`, `FooterTrue`, `OneAtATime`, `ClosesOnlyWhenDone`, `DeletedLeaveScreen`, `SearchSettles` |
| `session` | 2 people, 2 tabs, 2 tokens, 4 acts; 105k states, fair | `CallsInContract`, `VisitSettles`, `NotTrapped`, `NobodyReachesTheApp` |
| `scaffold` | 2 terminals, 2 runs in all, 2 modules, channels whose variant begins another's or that of `ALL`, edits of 2 kinds of file; 583k states | `NoneTwice`, `DeclaredHasFiles`, `DoneIsWired`, `CleanBuilds`, `EditsKept` |

Five runs are expected to fail. Each checks a sentence of the repository against what
the code does, and is a finding in `PROJECT.json`:

| Run | The sentence | What the code does |
| --- | --- | --- |
| `zombie` | "a leased job must not be claimed twice" (`packages/queue/tests/queue.rs:197`) | the `fail` of a worker whose lease was reclaimed reopens the row under its new holder, and a third claim leases it |
| `concurrency` | "How many jobs one worker process runs at the same time." (`apps/worker/.env.example:3`) | poll and listen loop have a `Semaphore` each, so a process runs twice that |
| `rollback` | "Writes run inside one transaction and roll back together." (`README.md:33`) | `create` publishes through the pool, so its job stays when the transaction is rolled back |
| `edit` | "create, edit and delete through dialogs" (`app-crud.tsx:42`) | `updateExampleAction` asks `Number.isInteger` of an id that is a string, so a filled edit dialog is always refused |
| `compiles` | "scaffolds a complete, compiling module ... registers it everywhere" (`README.md:59`) | a variant that begins another's name, or that of `ALL`, is taken to be there and never inserted; the consumer that names it does not compile |

The first three lose no job: `EveryJobSettles` holds with all of them in the model.
The orphan of the third ends in the dead letter queue (`OrphanIsBuried`) after
spending its retries.

Three more such sentences are not true of the code, and of the models, without a run of
their own:

* `removeUserAction` reads `userId` (`user.actions.ts:62`) while the delete dialog sends `id`
  (`app-crud.tsx:200`), so deleting a user is always refused. `ButtonsKeepTheirWord` would show it
  with `Screens = {"users"}`.
* The bulk dialog sends no `published`, which `bulkPublishExamplesAction` reads as false
  (`example.actions.ts:116`): Publish selected (`crud-types.ts:61`, `example-crud.tsx:116`) unpublishes.
* "Admin only" (`app/(admin)/layout.tsx:22`): a link within the admin app does not render the layout, and
  the overview `/admin` asks nobody itself, so it is rendered on a session that has ended, and to an
  administrator who was demoted, until a full load.

### Bounds, and why they are enough

* Jobs: the statements treat rows one by one, except for keys (two publishers
  of one key are enough to clash) and batches. `progress` claims one row at a time;
  that a batch larger than its permits keeps `BatchBounds` is proved, for every size.
* Workers: two are enough for a late worker against a present holder; the third claim
  of `zombie` is made by one of them.
* Attempts: two allow a retry and a last attempt; zero, which the schema allows,
  is in `progress`; `zombie` needs three. In `events` the job that meets late results has one
  attempt and a second one by its redrive, the steady one has two; one loop is enough there for
  a late run beside a present one, since it may claim what it still holds.
* `MaxRedrives` bounds the operator, `MaxStops` signals and kills. Both are in the
  guards of the actions they bound. One of each reaches every state that differs
  in kind.
* Transactions: two rows and two methods that lock both are the smallest deadlock;
  a third call is one that waits without being in the circle.
* Lists: three rows at two page sizes give one, two and three pages, a last page that is
  full and one that is not. `MaxActs` counts what readers, others and faults do,
  never what the program does; four allow typing, paging away, and an answer or a
  change by others to come in between. `SortKey` has `published`, in which rows tie, and a
  column of each list in which they do not (`Value`).
* Sessions: two tokens allow a session that is replaced; two tabs one that works with a
  cookie the other has changed. Whoever is signed in first, each of the two has any role,
  is banned or not, or has no account yet.
* Scaffolder: two runs overlap, or the second repeats a first that was killed. The
  terminals differ in what they may be asked for, so that every kind of module
  meets every other, with a channel that is found in another and one found in `ALL`; migrations carry a stamp, of which there are as many as runs.

### Fairness, and why the code justifies it

* `Runner`: intervals tick (`tokio::time::interval`) and the database answers (WF of
  ticks and of `Drain`). A cancelled token stays ready, and `select!` picks among
  ready branches at random, so it is seen although ticks keep coming (SF of
  `PollStops`). `DrainClaim` and `DrainClaimed` of the poll loop are strong: a loop
  that keeps coming to a channel with rows gets some, and not each of its claims
  fails. Handlers return (WF of the jobs of a loop): an assumption about consumers,
  which the code does not enforce, as `run_job` has no timeout. Processes
  are restarted. Nothing is assumed of the listener, of publishers or operators.
* `Examples`: the same in the terms of JobQueue.
* `Transactions`: a call is polled, and Postgres detects deadlocks. Nothing
  makes a statement fail or a future be dropped.
* `ListScreen`: a `setTimeout` fires, the server runs what it was sent and answers, React
  commits the page that has come (WF of each). The reader has to do nothing, and no
  request has to fail.
* `Session`: a page request is served, a form is run or refused and is answered (WF of
  each). Nobody has to sign out, end a session or follow a link.
* `Scaffolder`: none; everything said of it is safety.

## 4. Proofs

Proved for every number of jobs, workers, processes, calls, rows, bodies, budgets, batch
sizes, people, tabs, modules and terminals, and for every value of the bounds, from the
assumptions on constants named in each module (functions of the right type, `Batch` and
`Concurrency` positive; in Examples that a created-event's key belongs to its example
alone). `PROJECT.json` lists 41 theorems; among them they state every invariant and every
action property that a passing run checks, and the refinement of `JobLifecycle`.

| Theorem | Rests on |
| --- | --- |
| `JobQueueProofs!TypeCorrect` | one lemma per group of actions |
| `RetryBudgetHolds`, `LeasedIffProcessingHolds`, `OutcomeIsEarnedHolds` | `TableInv` = `RowsInv /\ LocksInv /\ RunsInv /\ CallsInv` |
| `ExclusiveRunHolds` | `ExclusiveRun` relative to `TableInv` |
| `JobQueueRefinement!EnqueuedOnceHolds` | `EnqueueInv` relative to `TableInv` |
| `DoneIsFinalHolds`, `RefinesLifecycle` | `StepMoves`: what a statement may do to a row |
| `RunnerProofs!RunnerImplementsQueue` | each action of Runner is a step of JobQueue or none |
| `RunnerRetryBudget`, `RunnerExclusiveRun` | `RunnerImplementsQueue`, and what is proved of the queue |
| `RunnerFollowsLifecycle` | the two refinements one after the other: processes, table, lifecycle |
| `PollFinishesBatchHolds` | `LoopsInv` |
| `BatchBoundsHold`, `RunnerTypeCorrect` | `IInv` = `LoopsInv /\ HandsInv /\ ClaimsInv`, with the cardinality lemmas of the library |
| `ExamplesProofs!ExamplesImplementQueue`, `ExamplesTypeCorrect` | each action of Examples is a step of JobQueue or none |
| `AnnouncedIfCommittedHolds`, `DoneIsSeenHolds` | `AnnounceInv`, with `TableInv` through the refinement |
| `UnpublishSticksHolds` | `MarksStep`: which run a step that marks belongs to; `ExclusiveRun` through the refinement |
| `TransactionsProofs!TypeCorrect` | |
| `AnswerMatchesTableHolds`, `NothingLeftOpenHolds` | `AnswerInv`; `NothingLeftOpen` is inductive with the types |
| `WholeBodyHolds` | `BodyInv` = `LocksInv /\ DoneInv` |
| `ListScreenProofs!OneAtATimeHolds`, `ClosesOnlyWhenDoneHolds` | `ScreenInv` = `SentInv /\ DialogInv /\ OneAtATime` |
| `ScreenTypeOKHolds`, `NoEmptyPageHolds`, `FooterTrueHolds` | `ListInv` = `NavInv /\ SubmitInv /\ ReaderInv`, with `FetchedIsPage`: what a page says of the list it was cut from |
| `OnlyTiesAreOpen`, `EveryRowOnOnePage` | the rank of a row among those that match (`Ranked`, `RankGrows`), that without ties there is one order (`OneOrder`), and division (`OnePage`) |
| `SessionProofs!NobodyReachesTheAppHolds`, `CallsInContractHolds` | `Tabs`, and that every call of a form or page is one of the contract's (`EndpointsOffered`, `PageCallsOffered`) |
| `SessionTypeOKHolds` | `SessionInv` = `Tabs /\ ApiOK /\ BrowserOK /\ Room` |
| `ScaffolderProofs!NoneTwiceTheorem`, `EditsKeptTheorem` | `RunType`, `TextInv`, `FileInv`, and `PlanSteps`: what a plan may consist of |
| `ScaffolderTypeOKHolds` | `RunType`, `FilesType` |
| `DeclaredHasFilesHolds` | `WrittenInv`, `DeclInv`, and `PlanOrdered`: what a plan declares it has written before |
| `DoneIsWiredHolds` | `WrittenInv`, `WiredInv`, `FileInv`, and the tables of the plans (`ApiTable`, `WorkerTable`, `WebTable`) |
| `CleanBuildsHolds` | `CleanInv`, `WiredInv`, `FileInv`, `PlanTogether`, and `PlanIsGrounded`: where all of a plan stands, what it asks for stands |
| `CompilesHolds` | `CleanBuildsHolds`, where no variant can be mistaken |

Why the strengthenings are needed:

* `TableInv`. The budget is kept because a pending row has an attempt left: claim does
  not compare `attempts` with `max_attempts`, so it is `fail`, `reclaim_expired` and
  `redrive` that must never leave a spent row pending (`RowsInv`). Claim acts on
  rows it locked a step earlier: that they are still pending and due is `LocksInv`, which
  holds because every other writer skips or waits for locked rows. That a late
  `complete` never hits a row that is absent is `RunsInv`, and that a publish never
  inserts over one is `CallsInv`.
* `StepMoves` reduces `Next` to five moves of one row, so that the refinement is
  proved once per move. It needs `ExclusiveRun`, which is why it holds for steady jobs
  only: `zombie` is its counterexample for the others.
* `EnqueueInv` adds that a call that returned has exactly one answer, without which the
  answers of two calls could be equal and empty.
* `AnnounceInv` ties where a request is to where its publish call is: an open create
  whose call has returned has its row in the table, because the key of its event is
  its own and so an insert cannot have met a conflict.
* `MarksStep`: only a run of a job about an example marks it, and leaves `runs` by that step, which
  names the run; `ExclusiveRun` then says of a steady job that it is the run of the last claim,
  while the job is in processing.
* `BodyInv`. A commit sees only what the call holds, so that it is whole has to be known
  earlier: no two calls hold one row and what is held is not taken away (`LocksInv`), and
  what a finished statement named and is still there is held (`DoneInv`).
* `IInv` of Runner. That a loop holds at most a batch is only inductive if a claim under
  way has locked at most a batch (`ClaimsInv`) and a loop that claims has empty hands
  (`HandsInv`), which its program counter must imply (`LoopsInv`).
* `SentInv`. A form that is pending cannot be submitted, so two live submissions of one kind
  would need the pending state to be lost while the dialog lives: a live submission keeps
  its kind pending, and those of a row belong to the open dialog of that row, since
  closing that dialog unmounts it.
* `TextInv`. A run writes back what it read; no line comes twice because what it read was
  good, and its line was not in it when it looked. What others wrote in between does
  not matter, since it is overwritten.
* `FileInv`. A run that never met another has nobody to make a file between its look and
  its write.
* `ListInv`. That a page is empty shows when it arrives; that its number was within what
  matches must be known of every url the reader can still get to: in the history, in the
  navigation under way, in the closure of the timer (`GoodUrl`, of `NavInv`). Clicking a page
  keeps the query and goes where the footer counted rows; anything else goes to page one. While
  no row leaves, what matched still matches, so the count of a page that was fetched is a bound
  for ever. `SubmitInv` is there since the rows to be created must fit among those that
  can be: each create that was submitted has a free number to itself.
* `WrittenInv` and `DeclInv`. A line that declares a module is found in a file, or in what a run
  has read and will write back, perhaps after the line was gone from the file; in both places
  what it declares must be there. What a run has behind it in its plan it has written.
* `WiredInv`. What a run that was alone has behind it stands in the file, and in whatever another
  run, which came later, is about to write over that file (`Settled`): a run that begins after
  this one said Done may not undo it.
* `SessionInv`. A session that is opened takes the next number, and there must be one: `Room` says
  that every sign-in whose answer is awaited has a number reserved.
* `CleanInv`. Between runs all that stands has what it needs. While the one run is under way, what it
  has brought may lack what its plan still has to bring, so each file and line either has what
  it needs or is of that run; when the run says Done, `WiredInv` gives that its whole plan stands,
  and `PlanIsGrounded` that a whole plan lacks nothing. What vouches for others may not hang on the
  lines of the example module (`OwnLines`), which the user may drop at any time. `PlanTogether`
  is there for the channel: a run asks whether it is listed before it has added anything
  to that file, so what it finds was complete.

Only model-checked: everything under fairness (`EveryJobSettles`, `ShutdownCompletes`,
`OrphanIsBuried`, `EveryCallReturns`, `SearchSettles`, `DeletedLeaveScreen`,
`VisitSettles`, `NotTrapped`), since the provers do not handle ENABLED. The library's
induction theorems take an operator as a parameter, which no installed prover
instantiates; where a proof needs induction over numbers (`Ranked`) it takes the
smallest counterexample instead, by `WFMin` and `NatLessThanWellFounded`. RECURSIVE
operators are out of the provers' reach, and no module here declares one.

## 5. Not modelled

* Worker and API settings, `backoff_for`, `rate_limit`: numbers read once, and one
  computation each. The length of delays is not in the models; a job or a lease is due or
  not due.
* The HTTP layer of the API. What reaches a handler of it, a request that is dropped
  by the timeout, is in Transactions and Examples. The statuses of guards (401, 403)
  are declared by no operation of the examples in the contract, which a reader of the
  generated types should know.
* Limits on texts and on bulk sizes, which are refused before anything happens, and `get`.
* The Queue button of the example rows: what it calls, `publish_to_queue`, is in Examples.
* Better Auth: passwords, reset tokens and its own rate limits. It is external to the
  repository, and modelled by what the web app relies on.
* Roles: an administrator who is demoted keeps the pages of `/admin` that make no guarded call
  until a full load, as somebody whose session has ended keeps its overview. No property speaks of
  roles, and `NobodyReachesTheApp` leaves the overview out.
* A redelivered `on_published`, before its job is done, marks again and so overrules a user who took
  the mark back after the first time; `UnpublishSticks` is about late deliveries.
* The total of a torn answer, and which page a row is on among rows that tie: the code promises
  nothing of either, and no property claims it.
* What a killed run leaves undone: a field without its value, or a variant without its arm, breaks the
  build of the api or the queue until somebody adds the line; `DeclaredHasFiles` is about the module
  tree, `CleanBuilds` about runs that were not killed.
* Names: that `NAME_PATTERN` admits the keywords of Rust, for which the generated module does not
  compile, is outside of the model, whose names are model values.
* The fields of the calls of the web app, and the calls of `features/examples` but its list.
* The `try_unwrap` error of `tx::run`: it needs code that keeps a transaction handle, and
  there is none.
* The landing page, the theme, the sidebar's own state and the UI kit are markup, or
  vendored. Migrations and seed run once, in order, by a library; logging is output.

## 6. What could still be added

In order of what it would add: theorems about `Applied` and `AfterCommit` for any sequence of
changes to a query; an abstract specification of the scaffolder (a run is one step) that the
runs which overlap nothing implement; the settings as functions over bounded inputs
against reference definitions.

## 7. Running

In this directory, with TLC and tlapm on the path:

```
tlc -config MCJobQueue_queue.cfg MCJobQueue
tlapm JobQueueProofs.tla
```
