# Verification of GoTeacher in TLA+

GoTeacher is the back end of a teacher-management site: a Gin HTTP server over MySQL, Redis and RabbitMQ, and a
consumer process that handles the order events.  This directory holds TLA+ models of it, TLC configurations that
check them on small instances, and proofs that TLAPS checks for every instance.  Definitions carry the names of the
functions they model; `PROJECT.json` maps each to its lines.

Contents: [Inventory](#1-inventory) · [Modules](#2-modules-and-the-code) · [Runs](#3-runs) · [Fairness](#4-fairness) ·
[Proofs](#5-proofs) · [Disagreements](#6-where-code-and-documents-disagree) ·
[Not modelled](#7-what-is-not-modelled) · [Plan](#8-plan) · [Running](#9-running-the-tools)

## 1. Inventory

| component | state | operations | interacts with |
|---|---|---|---|
| Order pipeline (`service/order.go`, `repository/order.go`, `mq/mq.go`, `cmd/consumer`) | `product`, `orders`, `points_record`, `notification`; three durable queues; three goroutines | create an order and publish it; three handlers; cancellation transaction; product create, edit, delete; shutdown, crash, restart | server → fanout exchange → consumers; all through MySQL rows |
| Login and sessions (`service/auth.go`, `router/auth.go`) | Redis key `auth:token:{id}` | login, verification of each request, logout, expiry | every administrator's request passes it |
| Administrators' accounts (`service/admin_user.go`) | `admin_user` | create, edit, delete; each may end a session | deletes session keys |
| Teachers and bindings (`service/teacher.go`) | `teacher`, `teacher_sales` | edit, bind salesmen | bindings are moved by transfers |
| Resignation transfers (`service/resign.go`) | `teacher_resign`, `teacher_sales` | read a snapshot, then a transaction of DELETE, UPDATE, INSERT | bindings; migration of its table |
| Diagnose reports (`service/diagnose.go`) | `diagnose`, `diagnose_audit_log` | open the detail page, submit the text, two audits | pages that act on what they saw earlier |
| Monitoring (`service/mon_event.go`, `service/mon_alert.go`) | `mon_event`, `mon_alert`, the scan loop | ingest a batch, scan, push to the chat robot, acknowledge, clean up daily | ingestion, scan and cleanup meet in the event table |
| AB module configuration (`service/ab_module.go`) | `ab_module`, `ab_module_item` | create, edit, delete; move an item; aggregated read | the web page reads both tables in two statements; seeded at a start |
| Lists of the console (`handler`, `service` and `repository` of every component above) | none; a scan in the browser | twenty lists, pages, details and an overview: fields checked, defaulted, turned into conditions and arguments | reads every table, beside its writers |
| SQL logging (`database/sqllog.go`) | wrapped connections, statements, rows, transactions | every call of `database/sql` on the driver | below all repositories |
| Migration and seeds (`database/database.go`, `schema.sql`) | the columns of every table | one sequence of statements at every start | runs before the server listens |
| Server process, routing, configuration (`cmd/server`, `router`, `config`, `response`) | the process | start, serve, graceful stop | starts migration and the scan loop |
| Load test (`cmd/loadtest`) | what it noted and counted | note the stock, log in, place orders, wait, count, judge | drives the server over HTTP, reads the pipeline's rows |
| Live pass-through, sanitizing, conversions, connections | none | stateless | |
| API documentation, deployment scripts | none | outside the running system | |

What makes each of them hard, and what makes it correct:

- **Order pipeline.** Three goroutines write three columns of one row while a fourth party may cancel it; handlers are
  several autocommitted statements; messages are redelivered after a crash, duplicated by an operator, dropped after a
  failure.  Correct means: a cancelled order keeps no reward, a completed one has everything, whoever finishes last flips
  the status, nothing is oversold, ends are final, every published order is decided.
- **Load test.** It knows the pipeline from answers and rows only, and reads the rows one statement after the other while
  consumers, crashes and requests it gave up go on.  Correct means: what it waits for is enough to know that its orders are
  decided, a pass means that stock and orders agree, a breach is not reported without a cause.
- **Sessions and accounts.** Two stores without a transaction: a row is changed, then a key deleted; a login reads the
  row, then writes the key.  Correct means: names are unique, a session does not outlive its account or password except
  where the two stores cannot agree, a token once rejected stays so, an account to sign in with remains.
- **Bindings and transfers.** Transfers run concurrently and in any direction, over a unique key; what a record names is
  read before the transaction.  Correct means: nobody becomes unbound, transfers arrive, records name what moved.
- **Reports.** Pages act on stale reads.  Correct means: no audit step is skipped, repeated or lost, a pass is final, a
  verdict falls on the text its author saw.
- **Monitoring.** Scans overlap with acknowledgements, restarts and other scans; one INSERT stands for a batch; the cleanup
  runs when a loop in memory sees the date change, in bounded DELETEs that another process may issue too.  Correct means:
  every white screen has its card, one pending alert per fault, one push, an
  acknowledgement is final, a lasting fault is reported, no row is kept for long after its time, a cleanup ends.
- **AB modules.** Two tables joined by convention only, checks before writes, a read of both in two statements, seeds that
  look at one of them.  Correct means: an item has its module, the page shows what is there, the seeds fit.
- **Lists.** The text of a WHERE clause and its arguments are built apart, in one case along a Go map; the total, the page
  and each aggregate are statements of their own.  Correct means: every argument meets its placeholder, a field left out
  filters nothing, a page is the due part of what matches, an answer adds up, pages turned to the end miss nothing that
  stayed where it was.
- **SQL logging.** `database/sql` probes, prepares, retries and falls back behind the caller's back, and a driver may lack
  any optional interface.  Correct means: the log has one line for what was done, and none for what was only tried.
- **Migration.** DDL commits at once, the sequence may stop anywhere and runs again at every start.  Correct means: it
  ends in the current columns and loses nothing.

The full list of hazards, each at its line and with the properties that watch it, is in `PROJECT.json`.

## 2. Modules and the code

| module | models | EXTENDS / INSTANCE |
|---|---|---|
| `OrderLifecycle` | what the customer is promised: placed, rewarded, completed or cancelled | |
| `OrderPipeline` | server, queues, consumers, cancellation, products, disturbances | refines `OrderLifecycle` |
| `LoadTest` | the load test beside the system it drives | composes `OrderPipeline` |
| `Sums` | lemmas about sums over, counts in and bounds of finite sets, for the proofs that count | `TLAPS` |
| `OrderPipelineProofs` | theorems about the pipeline and the load test | `LoadTest`, `Sums` |
| `Reports` | detail pages, submissions and audits as concurrent requests | |
| `ReportsProofs` | its theorems | `Reports`, `TLAPS` |
| `MonEvents` | ingestion of event batches | |
| `AlertLives` | what those who watch the site are promised: raised, told once, closed | |
| `MonAlerts` | scan loops, alerts, pushes, acknowledgements over `MonEvents` | composes `MonEvents`, refines `AlertLives` |
| `MonRetention` | the daily cleanup over `MonEvents` | composes `MonEvents` |
| `MonitoringProofs` | theorems about ingestion, alerts and retention | `MonAlerts`, `MonRetention`, `Sums` |
| `Handovers` | what a transfer promises: one step from one teacher to the other | |
| `Transfers` | bindings and transfers with row locks | refines `Handovers` |
| `TeacherServer` | server starts, the migration of `teacher_resign`, and the requests of `Transfers` | composes `Transfers` |
| `TeacherServerProofs` | theorems about transfers and the migration | `TeacherServer`, `TLAPS` |
| `Accounts` | accounts in MySQL, sessions in Redis | |
| `AccountsProofs` | its theorems | `Accounts`, `TLAPS` |
| `AbModules` | modules and items of the AB configuration, its page, its seeds | |
| `AbModulesProofs` | its theorems | `AbModules`, `TLAPS` |
| `ListQueries` | from a request's fields to the statements of its list, and what MySQL makes of them; definitions only | |
| `SqlLog` | the wrapped driver under `database/sql`, and its log | |
| `PagedLists` | a console that turns pages and a writer, both over the wrapped driver | composes `ListQueries` and `SqlLog` |
| `ListsProofs` | theorems about the log and the lists | `PagedLists`, `Sums`, `SequenceTheorems`, `TLAPS` |
| `MC…` | values of the constants, symmetry | the module they are named after |

How the models read the code:

- A SQL statement outside a transaction is one step; between two statements of a handler anything may happen.  The
  pattern check-then-write of the services is therefore two steps, and the condition that decides is the one in the
  `WHERE` clause or in a unique key.
- A transaction is a sequence of steps whose writes are invisible until the commit, with the row locks other sessions run
  into: `tx` and `RowLocked` in `OrderPipeline`, `Unlocked` in `Reports`, `Exclusive` and `Shared` in `Transfers`.
- **OrderPipeline.**  `pc[c]` is where `mq.Consume` and the handler of queue `c` are: `Deliver` (receive), `OrderStepDone`
  (precheck), `DeductProductStock` or `InsertReward` (work), `MarkOrderStepDone` (step column and status in one UPDATE),
  `Settle` (ack, or nack without requeueing).  `CancelOrder`, `DeletePoints`, `DeleteNotification`, `CommitCancel` are the
  statements of `MarkOrderStockFailed`.  `Crash` leaves the unsettled message at the head of its queue, which is how it is
  redelivered; `Stop` cancels the context, after which every database call fails (`DbFails`).  `Republish` stands for an
  event published again from the management console.  A message is its order's id, since the other fields are copied
  from the row and never change.
- **LoadTest.**  `stage` is where `main` is; `SystemStep` is any step of the pipeline, so that everybody else goes on
  between two statements of the test.  A request goes to the server once a worker has sent it (`PlaceOrder`), is answered
  (`Answered`) or given up after the client's timeout (`GivenUp`) while the server may still handle it.  `Pending` is the
  condition of `waitConsumed`, `CountSold` and `CountProcessing` the aggregates of `report`, `JudgeStock` its comparison.
  `Login` chooses `before`, the rows that `created_at >= start` leaves out: the start is put back by a second.
- **Reports.**  `page[p]` is an open page: `GetDiagnose` and `ListDiagnoseAuditLogs` are its two reads, `Send` the request
  its user makes whatever happened since, `CheckExists` the service's read, `UpdateDiagnose` and `Commit` the transaction.
  `From` is the status a request must find (`WHERE status = ?`).  How often a text was written stands for the text.
- **MonEvents, MonAlerts, MonRetention.**  `Cleaned` is the loop of `IngestEvents`; the event table is kept as counts inside
  the sliding window, which `LeaveWindow` shortens.  `job[j]` is where `runMonAlertOnce` and `checkMonRule` are; a second job
  stands for a second server process during a deployment.  The alert table is a sequence of rows per fault (project and
  rule), and `UniqueKey` is `uk_dedup_pending(dedup_key, status)`.  `torn` says of each fault whether its detail, a JSON text
  cut at byte 1000, now ends inside a character; it may change whenever rows come or go (`EventStep`).  A scan reads it in
  `BuildMonAlertDetail`, or has any cut when queries of the detail fail (`DetailFails`), and the table refuses the INSERT of a
  torn one (`Accepted`, `RefuseMonAlert`).  `MonRetention` keeps the rows by the time they were
  stored: `TickerFires` compares the date as the loop of `StartMonAlertJob` does, `DeleteMonEventsBefore` is one bounded DELETE,
  `CleanedUp` the test that ends the loop of `cleanupMonEvents`; `CleanupFails` and `StartAgain` are how a day is skipped.
  Time goes in units between which every loop comes round (`Pass`).
- **Transfers, TeacherServer.**  `op[c]` holds what `AddResign` has read and what its transaction has done so far;
  `Rollback` covers a duplicate key, a deadlock and a lost client.  `columns` are those of `teacher_resign` that have come
  and gone, and its id, so that a table without them is not taken for no table; `server` is the statement of
  `migrateTeacherResign` a start is at, `found` (history) what it found.  `Stop` may strike between any two.
- **Accounts.**  `op[c]` is the statement a request is at; `white` is the whitelist.  `Kick` is the DEL after a change by
  another operator.  `Fail` ends a request at any statement, `Restart` all of them, and creates the first account again if
  the table is empty.  A password is the number of times somebody else changed it, since one's own change ends no session.
- **AbModules.**  `op[c]` is the statement a request is at: the reads of `CreateAbModuleItem` and `UpdateAbModuleItem` are
  steps of their own, so that a deletion fits between any two.  `page` is a call of `AbConfig` between its two reads.
  `Start` inserts the seeds when they are due, `StartFails` is the exit when a key of theirs is taken.  An item is visible to
  requests through its module only (`GetAbModuleItemByID` joins the two tables), the page and the unique key see the rest.
- **ListQueries.**  One operator per handler, service and repository function.  A statement is the sequence of its
  conditions, each with its number of placeholders, and apart from them one list of arguments; `Selects` binds the two from
  left to right.  The order in which `teacherWhere` walks its Go map is a parameter.  `Int64` wraps.
- **PagedLists.**  `Plan` are the statements of a request, `Issue`, `QueryRuns`, `ReadRow`, `ReadEnd` one of them going
  through `SqlLog`; `TurnPage` asks for the next page.  The writer's change becomes visible with its statement or its commit.
  What is due (`Wanted`, `Due`) is stated from the request's fields, without SQL.  `scan` is what happened to the rows since
  the first page.
- **SqlLog.**  `call[c]` is one call of `database/sql`: `Take`, `Discard`, `Connect` get a connection, `ErrSkip` is the probe
  that is declined, `PrepareContext`, `Older` the ways around, `Runs`, `RunFails`, `BadConn` the driver's answers, `CloseRows`
  the end of the rows.  `inner` are the optional interfaces the driver has.  `database/sql` and the MySQL driver are external.

Variables marked *history* in the modules are no state of the program; they record causes the properties speak of
(an interruption, a text's version, an overlap) and no guard of a modelled action reads them, apart from the bounds.

## 3. Runs

| run | instance | properties | states |
|---|---|---|---|
| `PipelineFaults` | 2 orders of two pieces, three in stock; 1 crash, 1 database failure, 1 duplicate | `NoOrphanRewards` `CompletedIsWhole` `CompletionNotMissed` `UnrecordedDeductionsAreInterrupted` `StockIsConserved` `ImplementsLifecycle` | 1,279,237 |
| `PipelineLive` | 1 order of one or two pieces, one of them too many, no product at first, stocks of 0 and 1; 1 crash, 1 database failure, 1 shutdown, 2 administrator's writes; fair | `PublishedIsDecided` `DeletedProductCancels` `StopCompletes` | 235,711 |
| `LoadTest` | 2 requests of the test for the last piece; 1 crash | `DrainedIsDecided` `VerdictIsRight` | 2,268,134 |
| `Reports` | 1 report, 2 pages, 3 texts, 1 failure | `LogIsAPath` `BothAuditsApproved` `DetailExplainsStatus` `PassedIsFinal` `OnlyRejectsMisplaceVerdicts` | 568,646 |
| `MonAlerts` | 2 jobs, 1 project, 2 rules (one urgent), single events, 1 failure; fair | `OnePendingPerFault` `UrgentIsPushedOnce` `ImplementsAlertLives` `LastingFaultIsReported` | 304,808 |
| `AckCollides` | 1 job, 2 project names (one empty), 2 rules | `AckClosesPending` (violated) | |
| `MonRetention` | 2 loops, 7 half days, batches of up to 3 entries cut at 2, DELETEs of 2 rows, one day of retention, 1 restart or failure; fair | `RetentionIsKept` `CardsShowTheirEntries` `CleanupEnds` | 71,704 |
| `TeacherServer` | 3 teachers, 2 salesmen (one never synchronised), 2 sessions, 2 records, any number of starts | `ServesCurrentColumns` `RecordsNameTheMoved` `BoundStaysBound` `ImplementsHandovers` `UpgradeKeepsTexts` | 782,200 |
| `RestartLosesText` | 1 session, 1 record | `TextsAreKept` (violated) | |
| `Accounts` | 2 requests at a time, up to 3 accounts, 2 names, 2 logins, 1 password change each | `UsernamesAreUnique` `SessionsAreCurrent` `AccountsRemain` `RejectedStaysRejected` | 1,576,623 |
| `AbModules` | 2 requests, 1 page read, 2 module keys, 1 item key, up to 2 modules and 3 items, one of each seeded | `OrphansAreContended` `SeedsFit` `ItemsStayVisible` | 519,139 |
| `Lists` | 20 lists of 3 rows as they stand, with every request of up to two criteria or any kind of page; four lists with 1 or 2 writes, 1 fault, drivers with and without the optional interfaces | `PageIsDue` `ScanMissesOnlyMoved` `AnswerAddsUp` `LogMatchesOutcome` | 317,539 |

What they show is in the comment above each property.  In short: the conditional statements and unique keys carry the
system.  Every stale check in the services is harmless because the statement that follows decides again; each passing
property comes with a mutant of the code (a dropped guard, two statements swapped, a reset forgotten) that breaks it.
The type invariants of the modules say what each variable is; they are part of the inductive invariants below and proved, and
no run spends a property on them.

**Bounds.**  `Budget` limits each disturbance of the pipeline, `MaxFailures` and `MaxSkips` those of the reports, alerts and
cleanups; one of a kind is enough to separate any two statements, and two orders of two pieces for a stock of three are
enough for one to take what the other was promised and for a remainder that no longer suffices; liveness needs one order,
since each consumer handles its queue in order and an order waits for nothing but its own three messages.  Shutdowns are in
`PipelineLive`, and the proofs cover them for any budget.  The load test
has no rows of others before its start in TLC's instance (`Order = Jobs`); its proof covers them, whichever of them the
start leaves out.  One report suffices as reports share nothing.  `MaxSubmits = 3` allows a text, a rewritten one and one
more after a late reject.  Three teachers give chains and opposite directions, two sessions every pair of statements.
`MonRetention` cuts a batch of three at two, so that cleaning shifts positions and the cut leaves something out; five rows
are what two loops with DELETEs of two rows do not finish in one round; seven half days hold a retention, a skipped
cleanup and the day after.  In `MonAlerts` threshold 0 with one row is the smallest excess, two jobs are an overlap, and two rules are one
that is refused at every scan and one that must not starve for it; a second project would be visited as a second rule is
checked.  Several projects, with the empty name whose count takes all of them, are in `AckCollides` and in the theorems.
Two requests and two logins suffice for a login across a change, and `MaxId = 3` for two accounts to delete each other and
the first one to be created anew.  Two modules are enough to move an item, and three items for a seed and two that are
being added at once.  In `Lists` two criteria expose an argument in another's place, as each column's texts are its own;
the pages asked for include zero, negative, oversized and overflowing ones (`MaxInt = 127` is the widest int); times are
half days around the longest span; one write separates the count from the page and one page from the next, a second
one undoes the first.  Bounds on history or growth (`MaxRecords`, `MaxTokens`, `MaxChanges`, `MaxRows`, `MaxKept`,
`Horizon`) are guards that only stop the model from going on.  Symmetry is used for orders, pages and sessions in runs
without liveness.  No run switches the deadlock check off: in the pipeline `Quiescent` stands for the idle system,
`Over` for a load test that has exited, elsewhere there is always another request or another round.

## 4. Fairness

- `OrderPipeline`: `Consume(c)` for each queue and `CreateOrder(o)` for each request, since the Go scheduler runs every
  goroutine, and a call either returns or fails; `Exit`, since `wg.Wait` returns when the loops have; `Restart`, since the
  process is supervised.  Crashes, failures, shutdowns, duplicates and administrators are not fair.
- `MonAlerts`: `Tick(j) \/ Scan(j)` for each job: the ticker fires and no call blocks for ever (the robot's client times
  out after five seconds).  Events, failures, restarts and acknowledgements are not fair.
- `MonRetention`: `Loop(j)` for each loop, for the same reason.  Time, events, failures and restarts are not fair.
- The other modules state safety only: their requests are independent, and nothing must happen unless a user asks.

## 5. Proofs

All theorems hold for any values of the constants that satisfy the named assumptions; TLC evaluates them on every run:

- `PipelineAssumption`, `OrdersAreFinite`: types of the bounds, seeded products are products, there are finitely many orders
  to sum over; `LoadTestAssumption`: the test's requests are requests for an existing product;
- `ReportsAssumption`, `SqlLogAssumption`: types; `AccountsAssumption`: there is a name, and room for one account;
- `QueriesAssumption`: the clock and the spans are numbers, and an int holds the size of the largest page;
  `ListsAssumption`: the console and the writer are two callers, NULL is neither a number nor a text, and each scope's rows
  have the columns of its list, its requests the fields;
- `AbAssumption`: the seeded items belong to seeded modules, ids are numbers; `TransfersAssumption`: there is a teacher, so
  that a salesman can be bound at all;
- `MonEventsAssumption`: projects and classes are finite sets, so that rows can be counted, and the type nobody lists is no
  class; `MonAlertsAssumption`: what a rule is; `MonRetentionAssumption`: `main` starts the loop (`Process # {}`) and the day,
  the retention and the LIMIT are at least 1.

**OrderPipelineProofs.**  `NoOrphanRewards` is not inductive: whether a reward may be left behind depends on what the
open transaction has seen and on where the other handlers are.  `PipelineInv` adds what is needed: a consumer at work has
its message (`InFlight`), messages have rows (`MessageInv`), what the columns of a row say of each other (`RowInv`), that
the stock consumer alone decides an order it is past its check of (`StockInv`), that a reward consumer about to write has
granted (`RewardInv`), and that the transaction holds the row from its UPDATE on and has deleted every reward there was
(`TxInv`, the reason why the UPDATE comes first), besides `TypeOK`.  `PipelineInvariant` proves it, one step per action.
From it follow `CancelledHasNoRewards`, `CompletedHasEverything`, `CompletionIsNeverMissed`, `EndsAreFinalHolds`,
`RewardsLeaveOnlyByCancellingHolds` and, with a count of deductions, `UnrecordedDeductionsHaveACause`.
`PipelineImplementsLifecycle` proves the refinement: phases and rewards are read off the committed rows, so that the whole
cancellation maps to one `Cancel` at its commit, each successful `InsertReward` to `Grant`, the last step column to
`Complete`, and everything else to a stutter.

`StockAlwaysConserved` is about sums over orders.  `Taken` and `Promised` are `MapThenSumSet`, which adds its terms up in the
order in which CHOOSE draws them, so `Sums` first shows that the sum is there and does not depend on the order.  This would
be an induction over sets; instead it takes a smallest subset for which the claim fails (`SmallestSubset`, from the library's
theorem that the strict subsets of a finite set are well founded) and derives a contradiction.  Then a deduction changes one
term (`SumTakeOut`, `SumSame`) by what the conditional UPDATE took from the stock, every other step none, as long as no
administrator overwrites the stock; and what an order was promised is a term of what was taken (`SumBound`), as an order
whose stock column is 1 has been deducted.

*The load test.*  `LoadTestRunsThePipeline` (`LoadSpec => Spec`) shows that the test only adds requests, so that every
theorem about the pipeline holds beside it.  `DrainedIsAlwaysDecided` uses this: `PipelineInvariant` says that an order
with its stock column written and, unless it was cancelled, its reward columns too is completed or cancelled, provided that
a reward column is never 2 (`RewardColumns`, which the pipeline's types leave open); `EndsAreFinalHolds` says that it stays
so while the test counts.  `LoadInv` adds that the wait is over only when the test says so (`WaitInv`).
`VerdictIsAlwaysRight` combines the counting with stock conservation: what the test's statements summed up, each at its own
time, still stands (`InitialIsTotal`, `CountsStand`), and if the stock has lost just as much, then every term agrees (`SumTight`):
each completed order took its piece once and no cancelled one took any.  If the stock has lost more, some order was deducted
without having the column to show for it, which takes an interruption (`UnrecordedDeductionsHaveACause`).

**ReportsProofs.**  `ReportsInv` joins `LogIsAPath` with: a transaction past its UPDATE still finds the status it matched
(`RowHeld`), as it alone holds the row (`OneHolder`), which lets `Commit` extend the path; texts grow along the log
(`TextsGrow`), `Await` comes first only (`AwaitIsFirst`), an audit status followed by a later text has a reject between them
(`MovedOnByReject`); and what a page shows was once the end of the log (`PagesGrounded`).  The theorems about the log, the
two audits, the detail page, the final pass and misplaced verdicts follow.

**AccountsProofs.**  `SessionsAreCurrent` alone does not survive the write of a session key: a login must have read the row
as it still is (`LoginsAreFresh`), which every change of a row upholds by putting the logins under way in doubt.
`AccountsRemain` needs that who is deleting has an account of his own (`OperatorsExist`, itself a consequence of
`SessionsAreCurrent` when a request is let in) and is not deleting that one (`NobodyDeletesHimself`).  `AccountsInv` is their
conjunction; `UsernamesAreUnique` rests on the unique key alone, and `RejectedStaysRejected` on the types: a key is only ever
given a token that was never handed out.

**ListsProofs.**  *The log.*  `LogMatchesOutcome` counts what finished calls did; a call under way has its own count, which
is zero until it runs, and only a query's call has rows (`CallShape`).  With the types and the books of each caller this is
`SqlInv`, which `SqlLogInvariant` proves for any number of callers, retries and rows over a driver with any of the optional
interfaces; a step of one caller leaves the books of the others alone (`OneCallerSuffices`).  `ListsUseTheLog`
(`Spec => SqlSpec`) shows that the console and the writer are such callers, whatever they ask, so that `ListsLogMatches` is
the same theorem beside them.

*The answers.*  `PagesAreDue` is about twenty handlers, services and repositories, and goes from the inside out.  The
arguments of a statement are one list, and every placeholder finds in it those of its own condition (`Binding`), provided
that the two were built from the same pieces in the same order, for every order in which Go walks the map.  Each builder's
condition accepts the rows that the kind of its field means, or is not there when the field was left out (the lemmas ending
in `Fits`), hence a list's conditions together accept the rows its request wants (`Asked`), and its statements are a count
and a page of those (`Plan`).  The page is sorted by a strict order, and there is only one such list of a set of rows, so
that LIMIT and OFFSET cut the due stretch of it (`PagesAre`).  `PageIsDue` itself speaks of a complete answer and is not
inductive: `ListsInv` adds to `SqlInv` that the table is one the list may have (`TablesOK`), that the console is in no
transaction and calls nothing without a plan (`ReaderOK`), and that every result so far, and the rows read so far of a
result under way, are their statement's on the table that was there when it ran (`AnswerOK`).

`AnswersAddUp` counts: on one table the page has as many rows as the total leaves for it, by the length of a stretch of a
sorted list; and the overview's groups partition the rows of its total, so that their counts add up to it (`CountByValue`,
`SumOf` of the lemmas in `Sums`).

*The scan.*  `ScanMissesOnlyMoved` speaks of a scan that is over, hence is not inductive.  `ScanInv` says of the rows that stayed through a scan under way:
one that was not shown and did not move up stands behind the places shown so far, one that was not pushed down was shown at
most once and stands before their end (`Kept`); nothing came in before one that is not late since the total was taken
(`Since`); and the offsets so far have not wrapped round.  A write keeps this since every row it moves is noted in the same
step; the next page extends it by one page's length; and when the total says that the pages are done, no place the total
counted is left.

**AbModulesProofs.**  An item is put under a module that was found by an earlier statement, and a module is deleted after its
items were counted by an earlier one.  `OrphansAreContended` is therefore not inductive.  `AbInv` adds that a request about to
write an item has found a module that is there still or is in `contended` (`AddersFound`), that a deletion past its count
goes for a module without items and without such requests, or for one in `contended` (`DeletionsAreNoted`), that requests run
only while the server is up (`OnlyUpServes`), and that a page past its first read has the module of every item and request,
unless that module is newer or contended (`PageIsAhead`).  `SeedsFit` follows since the script is due only when no module is left, so that every item is an orphan.

**TeacherServerProofs.**  `ServerInv` joins the transfers and the migration.  For the transfers: the rows one session has
written or read for update are disjoint from those another has (`LocksHeld`), hence what a transaction works on is still
as it found it (`Sound`); that gives `BoundStaysBound` and `RecordsNameTheMoved`, and it is what `TransfersImplementHandovers`
needs: the deleted overlaps are still the replacing teacher's and the moved rows not yet his, so that the commit, which
shows both statements at once, is one `HandOver` of everything taken; a binding is a `Bind`, and the reads, the locks, the
rollbacks, the migration and the stops are stutters.  For the migration: at
each statement the columns are those an uninterrupted start would have there, whichever starts were stopped before
(`UpgradedSoFar`), which gives `ServesCurrentColumns`.  `UpgradesLoseNoText` adds that wherever the current column holds a
text, the table is in its current form, and a start that is still ahead of dropping the column found it so
(`TextsWereFound`); hence a start that found an older form drops no text, wherever it is stopped.

**MonitoringProofs.**  *Ingestion.*  The loops over a batch are recursive functions; what they compute for a batch of any
length is shown by the first entry for which it would be wrong (`SmallestNumber`): the rows kept are the entries of known
types (`CleanedRows`), and the card of a row is where the count of white screens says (`CardsAre`).  The rows of the table
are summed over projects and classes, and counting a batch value by value (`CountByValue`) gives its length, so that an
INSERT adds exactly what the answer says (`IngestTotals`).  `EventInv` is inductive for the ingestion by itself, and
`IngestionAlongside` says that neither the scans nor the cleanup interfere.

*Alerts.*  `OnePendingPerFault` rests on the unique key alone.
`UrgentIsPushedOnce` is not inductive: `AlertInv` adds that a scan at the robot has a row that is urgent and was not pushed
yet, and is alone with it (`CarriedRows`), which holds because the row's index was new when the scan inserted it, and that
without a failure a row not yet pushed has its scan (`PushedUnlessCarried`).  `AlertsImplementTheirLives` follows from the
same invariant: an INSERT that the key lets through is a `Raise`, a post to the robot the `Tell` of a row nobody told yet, an
acknowledgement a `Close`, and the UPDATE by an id read earlier, like every other step, a stutter.

*Retention.*  `RetentionIsKept` says nothing of
the loops; `RetentionInv` has each of them answer for the age of the rows by itself: the rows are no older than the retention
before the day whose cleanup the loop has behind it or stands in for (`CleanedDay`), less one day for each skip
(`CleanedUpTo`), and that day is today or yesterday, the latter up to its last unit (`DayBounds`).  A start takes today for
granted, which the skip that led to it pays for; a DELETE below its limit took as much as there was, hence every old row
(`DeleteLeaves`, by `SumTight`); arrivals are of now; and what other loops delete only helps.

**Model-checked only.**  The five liveness properties (`PublishedIsDecided`, `DeletedProductCancels`, `StopCompletes`,
`LastingFaultIsReported`, `CleanupEnds`), since fairness is defined by ENABLED, which is outside the prover's reach.  Every
invariant and every action property of the passing runs is proved as well.

## 6. Where code and documents disagree

1. *Acknowledgement* (`AckCollides`): the unique key spans the status, so a fault can be acknowledged once; the next alert
   for it stays pending, where `PLAN-frontend-monitor.md:13` closes alerts by acknowledging them.
2. *Restart* (`RestartLosesText`): `migrateTeacherResign` drops `transfer_content` at every start, also when it is the
   current column, and adds it empty; `database/database.go:185` calls the upgrade idempotent.  TLC's trace needs no
   transfer: a record taken over with a table in its current form loses its text at the first start.  What holds is
   `UpgradeKeepsTexts`: a start that finds an older form keeps the remarks, wherever it is stopped, and so does the next
   one that finds it so.  An upgrade stopped right after the renaming and started again, however, finds the current form
   and loses them, against `database/database.go:189`.

Without a run of their own:

- *Redelivery*: the deduction and its step column are two statements; a crash in between deducts the stock of one order
  twice, where `plans/PLAN-order.md:29` promises no side effect.  `UnrecordedDeductionsAreInterrupted` is what does hold, in
  `PipelineFaults` and by proof: without a crash, failure or shutdown it never happens.
- *Shutdown*: the context of the handler in flight is cancelled and its message dropped, where `cmd/consumer/main.go:51`
  says it is processed to the end; `PublishedIsDecided` therefore excepts an order of which a handler in hand failed, and
  no other.
- *Orders*: points and notification columns of a cancelled order may be 1 (`cmd/loadtest/main.go:143` says always 0).
- *Load test*: it may report a breach although nothing was oversold when a request it gave up becomes a row after the wait
  or others order the product, hence `Undisturbed`; its counter of finished requests misses those that failed.
- *Bindings*: `schema.sql:44` describes binding as a replacement, `AddTeacherSales` only adds; `repository/resign.go:166`
  allows a transfer of nothing, `service/resign.go:70` refuses it; `service/resign.go:82` says the snapshot may exceed what
  moves, but a binding added in between makes it smaller.
- *Monitoring*: with the persistence switch off the card of a white screen is built from the entry at the position of the
  cleaned row (`service/mon_event.go:83`), which `CardsShowTheirEntries` excepts; the first scan of `StartMonAlertJob`
  (`service/mon_alert.go:84`) is not wrapped in the recovery the later ones have.
- *Batches*: one entry does not drag the batch down, says `service/mon_event.go:40`, and the cuts match the columns, says
  `:28`; but `webview` is cut at 128 (`:60`) for a column of 32 (`schema.sql:290`), so that under a strict MySQL a longer
  one, like a number beyond INT, makes the INSERT of the whole batch fail and loses every other entry of it.  The model's
  `InsertFails` is such a failure; no property claims that good entries survive it.
- *Alert details*: the detail is cut at byte 1000 to protect the column (`service/mon_alert.go:150`, "截断保表"), not at a
  character as `truncRunes` does.  A detail of more than 1024 bytes with Chinese texts may end inside a character, and a
  strict MySQL refuses the INSERT, and the UPDATE of a pending row, at every scan while the top texts stay: the fault is not
  reported and not pushed.  `LastingFaultIsReported` excepts that fault (`torn`) and shows that no other one is held up.
- *AB modules*: a module is never deleted with its items, say `service/ab_module.go:89` and the API's description
  (`handler/ab_module.go:150`), but an item added between the count and the DELETE loses its module, and if that is a seeded
  one, no start succeeds once the last module is gone (`OrphansAreContended` and `SeedsFit` say that nothing else leads
  there).
- *Lists*: the documented defaults of the event list (a day), the overview (a day) and the alert list (pending) are a
  month, a week and every status in the code; a zero in a numeric field of the report list filters although it is said not
  to take part; `page_index` has no upper limit, so that the offset may wrap round and the statement fail; the totals of
  the two joined lists (bound salesmen, AB items) count rows the page's JOIN leaves out.
- *SQL log*: a statement that does not prepare leaves no line, although all SQL is said to be logged.

## 7. What is not modelled

- *Order pipeline*: prices, points and texts; the loss of a connection to RabbitMQ (the consumer process exits, which is
  `Crash`; the server's publish then fails, which is `PublishFails`); loss of messages inside the broker; a commit whose
  answer is lost; more than one consumer process.
- *Load test*: the size of the worker pool (any number of requests is under way) and the counts that are only printed.
- *Locks*: gap locks, which only leave fewer interleavings, and lock waits that time out, which are `Rollback` or a
  failure.
- *Monitoring*: event types no rule counts, other environments than the watched one, the texts of cards and alerts; a robot
  without a configured address; a retention of zero days or less, with which a cleanup leaves nothing; clocks of MySQL and
  the server that differ.  In `MonAlerts` counts stand for rows, so that which of two rows leaves the window first is not
  told apart, and a detail is the same while its counts are (texts equally frequent may change places at the limit of
  three).  A panic inside a scan: none of its statements can raise one.
- *Lists*: wildcards inside a LIKE argument, which are not escaped; the LIMIT 10 of the rankings, more than there are
  groups in the instances; what a row's texts look like.  `PageIsDue` leaves out offsets that overflow.
- *SQL logging*: what a line's text looks like, and the wrapper's methods that pass a call on without logging (value
  checkers, column types).
- *Migration*: the statements for other tables (each is one existence check and one ALTER) are a single step.
- *Accounts*: hashing, signing and the status column, which no request changes; the time and address of the last login.
- *Teachers and AB modules*: edits of a teacher's own columns, of names, versions and sort numbers: one UPDATE that nothing
  else relates to; the filter of the AB page by one module.
- *Live pass-through, sanitizing, conversions, configuration, connections, CORS*: stateless, or set up once.  The generated
  API documentation and the deployment scripts are outside the running system.

## 8. Plan

Done, in this order: the order pipeline with its abstract specification and proofs, since it has the most concurrency and
money in it; reports with proofs; ingestion and alerts; transfers and the server's start; accounts and sessions with
proofs; the AB modules; the lists over the logged driver, with proofs about the log; the daily cleanup; the load test over
the pipeline, with proofs.

After these the proofs: stock conservation and the load test's verdict over sums of orders; the AB modules; the transfers
with the migration; ingestion, alerts and retention; the lists' answers, their sums and their scans; the transfers' and the
alerts' refinements.

Next:

1. More than one consumer process per queue, which needs the prefetch window of each and the order in which their messages
   are put back.
2. The stock an administrator writes from a page read earlier (`repository/order.go:107`), as a bound on what is lost by it.
3. The argument of the liveness properties as safety steps: what each `WF` action must find enabled until its turn.

## 9. Running the tools

    tlc -workers 2 -config PipelineFaults.cfg MCOrderPipeline
    tlapm OrderPipelineProofs.tla

Each run's module and configuration are in `PROJECT.json`; every configuration finishes in minutes on two cores.
