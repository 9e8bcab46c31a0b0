# Verification of the Tonatiuh trading SaaS

TLA+ models of the program in `src/`, the TLC runs that check them on small
instances, and TLAPS proofs for every size of the system. Paths below are
relative to the repository (`src/...` is its TypeScript).

## 1. Inventory

| Component | State | Operations | Interacts with |
|---|---|---|---|
| Bot supervisor (`src/saas/worker.ts`) | `processes`, `restartAttempts`, `restartResetTimers`, `stopping`; rows of `trading_bots`, `bot_commands`, `bot_sqlite_databases`; the leader advisory lock; bot directories | elect, reconcile, claim and handle commands, start/stop/suspend/delete a bot, restart timers, shutdown | PostgreSQL, child processes over IPC, the API through rows |
| Trading child (`src/worker.ts`) | `config`, `isStopping`, in-memory orders | boot, trade, stop (close the position) or suspend, exit | supervisor (messages, exit code, disconnect), exchange |
| Bots API (`saas/trading/bots.router.ts`) | rows | create, edit, delete, START/STOP/RESTART/EMERGENCY_STOP with idempotency keys | supervisor through `bot_commands` |
| Exchange connections (`exchanges.router.ts`) | `exchange_connections` | create, verify, enable/disable | `loadBot` |
| Trading engine (`trading-service`, `utils/OrdersOperationService`, `utils/SessionTrading`) | session, orders in memory and SQLite, exchange orders | open, watch, stop loss, take profit, buy back, emergency close, restore | exchange, SQLite |
| Billing (`saas/billing`) | subscriptions, payments, refunds, webhook events | checkout, webhook, renewal with lease and retries, reconciliation, grace, refund | YooKassa, entitlements |
| Entitlements (`saas/entitlements`) | plan, monthly usage | `activePlan`, quota checks under an advisory lock | bots API |
| Email (`saas/email`) | `email_outbox`, suppressions | claim, send, retry, dead letter, provider events | SMTP provider |
| Auth (`saas/auth`) | users, refresh tokens, account tokens | register, verify, login, rotation, reuse detection, reset, delete and cancel | outbox, organizations, retention |
| Organizations (`saas/organizations`) | memberships, invitations | switch, roles, removal, invite, accept, revoke | outbox, member quota |
| Administration (`saas/admin`) | status of users and workspaces, refunds | suspend, revoke sessions, refund, retry dead letters | auth, billing, email |
| Retention (`saas/retention`) | rows of deleted accounts | anonymize, clean up | auth, email |
| Desktop server (`index.ts`, `process/TradingWorkerManager.ts`, `router/config.router.ts`) | `records`, `trade_config` | start, stop, relaunch after a delay, configuration routes, shutdown | child processes |
| Feature flags, compliance, HTTP, observability | rows, caches | flag lookup, consents, metrics | PostgreSQL |

What is hard: everything between two awaits interleaves (restart timers with
the leader's loop, un-awaited updates with awaited ones); leaders crash or are
replaced while their children still run; the lock can be lost without the leader
noticing; exit events are missed or come late; webhooks and payment answers are
duplicated and reordered; a crash separates an exchange order from its SQLite
row. `PROJECT.json` lists each hazard at its line.

What makes each part correct: one leader, one trading process per bot, a stop
that stops, a position closed only on an emergency stop, commands handled once,
a bot that should run is restored (supervisor); exposure is always known to the
session and ends at zero (engine); a payment extends a period exactly once and
no event takes away time another one paid for (billing); a message is sent once
but for interrupted deliveries (email); revoked sessions stay dead, an erased
person stays erased, seats grow only within the plan, owners are kept (accounts); one process per
configuration, none without its server (desktop).

## 2. Modules and plan

| Module | Models | Run | Proofs |
|---|---|---|---|
| `BotSupervisor` (+ `MCBotSupervisor`) | supervisor, child as it sees it, command API | seven, section 3 | `BotSupervisorProofs` |
| `TradeSession` | trading engine, order execution, sessions, exchange | `trade_session` | `TradeSessionProofs`, `TradeSessionLedger` |
| `BillingLifecycle` (+ `MCBillingLifecycle`), `PaymentLedger` | billing; what it promises | `billing` (refinement) | `BillingProofs` |
| `Accounts` over `EmailOutbox` | auth, organizations, administration, retention; the outbox they share | `accounts` | `AccountsProofs` |
| `DesktopManager` | desktop server and its children | `desktop` | `DesktopProofs` |
| `PositionStrategy` (+ `MCPositionStrategy`) | the engine's decisions and arithmetic, profit in SQL | `strategy` | `PositionStrategyProofs` |

The modules meet where the program's parts meet: a child of `BotSupervisor` or
`DesktopManager` is the process of `TradeSession`; `Accounts` extends
`EmailOutbox` because tokens travel in messages queued in the same transaction;
`activePlan`, read from the subscription of `BillingLifecycle`, is `plan` in `Accounts`.
`TradeSession` and `PositionStrategy` are two views of one loop: the first has
every await and fault and leaves the prices open, the second has the prices and
takes an order in one step.

`SumTheorems` has what the proofs know of sums: the folds of the models, over lists and
sets of every length.

There is no abstract bot lifecycle for `BotSupervisor` to implement: what it would promise
ends where an advisory lock is lost, and the invariants of section 3 say so one by one.

## 3. BotSupervisor

### State and actions

Each worker replica is an element of `Workers` and runs `main()` at a location
`pc[w]`. A step is one awaited operation and the synchronous code after it, which
is what Node.js executes without interruption. `startBot` is called by the loop
(task `Main`) and by restart timers (tasks `Timers`), so its awaits (`load`, the
registry statement, `mark`) interleave with everything else. That statement is two
steps: its snapshot (`StartRegister`) and its effect (in `StartFork`), because a delete
may hold the entry in between. Un-awaited updates sit
in `writes` and take effect at any time. A child process has a state, the
requests it got (`asked`), the messages in its channel, its exit code, and
whether its supervisor has attached listeners and seen its exit.

| Actions | Code |
|---|---|
| `PostCommand`, `PostDelete`, `ToggleConnection` | `bots.router.ts`, `exchanges.router.ts` |
| `Elect`, `Reconcile`, `SelectDesired`, `Restore` | `main`, `runLeader`, `reconcile` |
| `Claim`, `Begin`, `Settle`, `CatchError`, `CatchFail` | `claimCommand`, `handleCommand` |
| `StopsBot`, `StopTimeout`, `StopUnclean`, `StopClean`, `ExitAwaited` | `stopBot` |
| `StartLoad`, `StartRegister`, `StartFork`, `StartMark`, `StartError` | `startBot`, `registerSqliteDatabase` |
| `ScheduleRestart`, `TimerFires`, `ResetFires` | `scheduleRestart`, the 60 s stability timer |
| `ExitTracked`, `ExitIgnored`, `OnMessage`, `ApplyWrite` | listeners of `startBot`, `failBot` |
| `DeleteStage`, `DeleteRow`, `DeleteRm` | `deleteBot`: register and rename, the transaction, the rm |
| `Shutdown`, `DrainStart`, `DrainBot`, `DrainError`, `Relinquish`, `ExitStandby` | signals, the end of `runLeader`, `suspendBot` |
| `Crash`, `RejectionKills`, `SendKills`, `LockLoss`, `DbError`, `IdleRelease` | failures of a worker, its sessions and queries |
| `Child...` | `src/worker.ts` |

Data is abstracted: a bot row keeps `desired_state`, `actual_state`, the owning
instance and whether its connection is enabled; a position is open or closed; a
directory is the bot's own, the renamed one being deleted, or an orphan that a failed
or interrupted delete left under the random name. Heartbeats, messages' texts, pids and error texts are left out.

Three modelling decisions a reader should know. Process identifiers are reused
once nobody refers to the old process (`Reusable`), so `Children` bounds how many
processes exist at once, not how many are ever forked. Crashes, shutdowns and
fatal database errors keep one replica that is up and not shutting down
(`Survivor`): the orchestrator replaces replicas one at a time. `restartAttempts`
saturates just above its limit, beyond which the code never looks at it.

### Runs

| Run | Faults | Checks |
|---|---|---|
| `failover` | crash, shutdown, stop timeout, disable | `TypeOK`, `OnlyOneLeader`, `AtMostOneTrading`, `StopIsSafe`, `OnlyEmergencyCloses`, `DeletedIsGone`, `RegistryFollowsRow` |
| `restarts` | child failure | `TrackedIsUnasked` |
| `split_brain` | lock loss, database errors, shutdown, trade | `ClaimedOnce`, `StatusMovesForward` |
| `liveness` | crash, shutdown | `CommandsAreClaimed`, `ShutdownCompletes`, `RunningIsRestored` |
| `lock_loss` | lock loss | `OnlyOneLeader` is **violated** |
| `stop_race` | child failure | `StopIsSafe` is **violated** |
| `emergency` | trade | `EmergencyStopCloses` is **violated** |

The faults are split over the runs because the safety of each property depends on
which faults happen, and the cfg files say which. `AtMostOneTrading`,
`StopIsSafe`, `DeletedIsGone` and `RegistryFollowsRow` hold when leaders fail; they do
not hold when a restart timer interleaves (`stop_race`; two activations may also both
find no process and fork) or the lock is lost (`lock_loss`). "Trading" is
a process that nothing has told to end: one that was asked, or lost its channel, may go
on for as long as its stop takes.

Bounds. Two replicas are enough for a failover and for two leaders at once; the
properties speak of one bot at a time, and a second bot only adds rows that do
not interact. Two children show a new process next to a dying one. Two
commands (`MaxCommands`) let a command be queued behind the one being handled.
`RestartLimit` is 1 where processes fail: the restart and the giving up both
happen.
`restarts`, `stop_race` switch deadlock checking off: with a single replica
that an unhandled error can kill, the system may stop.

Fairness (`FairSpec`). Awaited queries answer, the event loop delivers exit
events and due timers, and a child handles what it was asked: Node.js runs every
ready callback, a query answers or its connection breaks, and the child's stop path is
bounded by retry limits. A session that was released to the pool falls idle, and is
ended, for certain only when nothing of its process uses the pool any more
(`PoolInUse`). Nothing is assumed of API requests, trades or faults. `liveness` covers
crashes and shutdowns only.

### What the violations mean

* `lock_loss`. README.md: "Only one worker replica becomes leader." A broken lock
  session is only logged; the old leader goes on. The proof of `SingleLeader`
  shows that this is the only way to two leaders.
* `stop_race`. docs/entitlements.md promises that STOP can safely stop trading. A
  restart timer that read `desired_state` before the STOP forks after it.
* `emergency`. The shutdown test states that an emergency stop closes the
  position. It succeeds without closing when no process is tracked or the process
  has not restored its orders.

Two more disagreements are in the model, and TLC shows them with other constants:
* A test (test/bot-sqlite-deletion.test.js:7) states that a deleted bot's databases are
  marked deleted. With the constants of `restarts`, `RegistryFollowsRow` fails: a restart
  timer's INSERT ... SELECT that sees the row waits for the entry that the delete's
  transaction has updated, and then makes it active again (READ COMMITTED, ON CONFLICT
  DO UPDATE, no foreign key). The registry has an active database of no bot.
* README.md:55: "Standby replicas acquire the PostgreSQL advisory lock after a leader
  failure". With database errors, `pc[w] = "failed" /\ lock = w ~> lock # w` fails: when
  main ends on a database error, its client goes back to the pool with the lock held,
  the children keep the process alive, and what their listeners write keeps taking
  sessions from the pool, so that none need fall idle.

### Proofs

For all `Workers`, `Bots`, `Children`, `Timers` and bounds, and from
`ConstantsAssumption` alone unless a hypothesis is named, in `BotSupervisorProofs`:

| Part | Theorem | Property | Faults excluded |
|---|---|---|---|
| types and tracking | `TypeCorrect` | `TypeOK` | none |
| | `TrackedStaysUnasked` | `TrackedIsUnasked` | none |
| leadership and queue | `SingleLeader` | `OnlyOneLeader` | lock loss |
| | `CommandsClaimedOnce` | `ClaimedOnce` | none |
| | `StatusesMoveForward` | `StatusMovesForward` | none |
| | `EmergencyOnly` | `OnlyEmergencyCloses` | none |
| failover | `OneTrader` | `AtMostOneTrading` | not `Reliable` |
| | `StopIsFinal` | `StopIsSafe` | not `Reliable` |
| | `DeletedForGood` | `DeletedIsGone` | not `Reliable` |
| | `RegistryAgrees` | `RegistryFollowsRow` | not `Reliable` |

`Reliable` excludes lock loss, database errors and failures of the trading processes.
It is not stronger than needed: with the constants of `failover`, one timer, and any
one of the three faults allowed, TLC violates each of the first three properties. Crashes of
workers at any step, shutdowns, stops that time out, disabled connections, trades and
any number of replicas remain; run `failover` is an instance.

`TypeOK` is not inductive: a handler that follows `cur[w]` or `child[c].bot` keeps
types only if the pointer is valid. `Shape` says so, and needs in turn that
`suspendBot` only drains processes that were forked, which is part of `Tracking`.
`TrackedIsUnasked` needs `WaitOwn` (the process `stopBot` waits for is tracked by
nobody, so its timeout asks nobody's process), `DownIsEmpty` and `DrainUsed`.
`Inv == TypeOK /\ Shape /\ Tracking` is inductive, one lemma per action; most
actions go through `KeepsTracking`, and `StartFork` through `Reusable`.

Leadership rests on `LeaderLock` (a leader holds the lock); the queue on
`InProgress` (a worker about to settle a command handles one that nobody has
settled). Both use `StepKinds`, which separates the six kinds of step that touch
the lock or the queue from the rest. `OnlyEmergencyCloses`: only `Begin` with an EMERGENCY_STOP
gives a process a reason to close; every other step leaves the reasons alone, and
process identifiers are reused only when nobody holds them.

`Leaders == Inv /\ LeaderLock /\ Sole` is the invariant of a failover: a tracked
process runs, a process that nothing told to end is tracked by the worker that forked
it, and only a leader tracks. Two trading processes of a bot would be tracked by two
leaders. What makes it inductive is that a crash closes the channels of the worker's
children in the step that frees the lock, that a drained process has been asked before
the lock is freed, and that without failures no restart timer exists
(`NothingTrackedExits`).

`Settled` adds the order of events. `Where` says where main is while a command is at
hand, `InOrder` that behind it all commands are still queued, so commands end in the
order they were made (`created_at`). `Stopping` follows one stop from `stopBot` to
`Settle`: nothing is tracked after the wait, and unless a later command exists nobody
wants the bot. `StoppedQuiet` and `DeletedQuiet` say what is left: no process, no start
under way, no place on a list of bots to restore. They need `InOrder` because a worker
that took over may still hold an older START only if the STOP is still queued.
`RegistryAgrees` adds `InsertsLive`: a registry statement that has seen a row finds it
there when it takes effect, because its start and `DeleteRow` would both be of the one
leader's loop.

Only model-checked: the liveness properties (fairness and ENABLED are out of the
prover's reach).

## 4. TradeSession

One bot's process, its SQLite database and the exchange. Two threads share the
process: `th["main"]` is `worker()`'s loop, `th["stop"]` is `stopWorker(true)`.
Their locations are the awaits of the code, so each interleaves with the other,
with fills and with crashes. `book` is what the exchange knows, `rows` and
`sessions` what SQLite has, `mem` what `OrdersOperationService.orders` holds (an
order read back from SQLite is `restored`: only for it does the stored amount
count when a status cannot be fetched). The session service builds an
`OrdersOperationService` of its own: what `initTradeSession` sets and clears there is not
the loop's list, and nothing reads it.

| Actions | Code |
|---|---|
| `Start`, `Kill`, `StopWorker`, `Dispose` | `worker.ts`, `TradingVectorProfitService` |
| `InitTradeSession`, `StartSession`, `CheckingExistingOrders` | `initTradeSession`, `startSession`, `checkingExistingOrders` |
| `OpenFirstPosition`, `WatchBuyBack`, `CreateOrder` | `_oneTradingBehavior`, `openFirstPosition`, `openPositionForStrategy` |
| `PollSettles`, `PollTimesOut`, `RecheckAfterCancel`, `ExecutionFails` | `_waitForExecution` |
| `SaveActivatedOrder`, `PushOrder` | the end of `openPositionForStrategy` and `closeFilledPosition` |
| `CancelAllOrders`, `FetchStatus`, `CalculateClosingOrderExposure`, `SubmitClosingOrder` | `closeFilledPosition` |
| `WatchStopLoss`, `WatchTakeProfit`, `OnPriceTracker` | `_watchingProcess`, `_watchingTakeProfitLogic`, `_onPriceTracker` |
| `CalculateProfitSession`, `EndTradeSession`, `ClearingOrderList` | `_endTradeSession` |
| `...ReadFails` | a query or a price that fails for good |
| `Fill`, `Drop` | the exchange (external) |

Run `trade_session` (4.6 million states): entries of either side, size 2 so that
an order can fill in part, three orders (entry, buy-back or half close, close),
two sessions and two starts so that a restore and a reconciliation happen, one
fault. The process may stop for good, so deadlock is not checked.

`rows[s]` is the ledger of session `s`: `trade_operation` is only ever read by
session. Two histories mark what the code does not survive, and the properties say so.
`lost` holds orders whose outcome was hidden: the answer of `createOrder` was
lost, the process ended between the exchange and SQLite, an insert failed (the
repository only logs it), a status read failed. `overlap` is set when the stop
request and the loop work on orders at the same time: both then compute the
exposure from one list, and TLC finds a position closed twice (a restore in the
middle of a stop's close even puts an order in the list twice). It is also set when
the stop request goes on under the index of a session that is over:
`_indexOperation` is read when the request arrives
(TradingVectorProfitService.ts:71), the loop may end that session and begin the next
before the request's cancellation answers, and the close is then booked under the
old one. Without these (`Undisturbed`) `NeverOverClosed`, `EndedIsFlatOrPartial` and
`MemoryIsLedger` hold; with an overlap the loop may go to sleep with a full list,
which nothing clears before the next session; and `OneActiveSession`, `SavedIsFinal` and
`OnlyFaultsHideOrders` hold without exception. `EndedIsFlatOrPartial` records a limit
of the code: a session ends when a closing order was placed, even if it executed in
part only. The stale index needs four orders, more than the run has: it came out of
the proof. All invariants were also checked with four orders, buys only and no fault
(4.4 million states).

### Proofs

For all orders, sizes, sessions, starts and faults: `TradeSessionProofs` proves
`SessionTypes`, `SessionIsAlone` (`OneActiveSession`), `LedgerIsFinal`
(`SavedIsFinal`) and `NothingDropped` (`OnlyFaultsHideOrders`); `TradeSessionLedger`
proves `ListMirrorsLedger` (`MemoryIsLedger`), `ClosesNoMore` (`NeverOverClosed`) and
`EndsCovered` (`EndedIsFlatOrPartial`). The type invariant forbids an
order of amount zero on the exchange, so it is part of the argument, not a
preliminary. `SInv` follows responsibility: the order a thread is at exists, is not
saved, can no longer fill once it was polled to the end, and is not the other
thread's (`Responsible`, `Apart`); every entry of a list is an order of the exchange
(`Known`); an open or executed order is saved, hidden or in flight (`Accounted`); and
`Control` says which session and list the position of the loop stands for.
`MemoryIsLedger` needs more, because the list is rebuilt, appended to and cleared at
different awaits than the ledger: `Mirror` says at each position of the loop which
saved orders the list lacks (at "push" exactly the one just saved), and that its
entries are distinct, until the stop request puts its own order on it. Since no other
list's clearing helps, the list must be empty whenever a session begins: a loop that
was not asked to stop goes to sleep only from a session that holds nothing or has just
been closed. `Standing` and `Holding` say that, from the first order to the closing one,
the net of the session's rows is not zero.

The exposure of a session is a sum over all orders of the exchange, while
`closeFilledPosition` adds up a list over many awaits. `EInv` ties the two together, as
long as nothing was hidden and the threads did not overlap: a session's net never goes
against its entry (`Ledger`); the order a thread waits for adds to the position or closes
exactly what is left of it, however much of it has executed (`Directed`); in "fetch" the
net so far and what the rest of the list will count make up the session's net
(`WorksOn`); the list has the ledger of the session the loop is in (`HasLedger`); and
between two sessions, where the loop is asleep or begins the next one, the position it left
is covered (`LoopAt`, `StopAt`). A step that executes nothing leaves every net as it is
(`Calm`), which covers all but `Fill`; `Fill` executes an order some thread waits for
(`SomebodyWaits`), and `Directed` says on which side. That a list with each of a session's
orders once adds up to its net, whatever order the fold takes (`ListIsNet`), rests on
`SumTheorems`. TLC checked `Counts` and the parts of `EInv` with the bounds of
`trade_session` before they were proved.

## 5. BillingLifecycle and PaymentLedger

The subscription of one organization. `prov` and `pref` are what YooKassa knows,
`rows` and `refunds` the local tables, `sub` the subscriptions row, `task[w]` what
each renewal worker is doing. A payment is created once per idempotency key
(period and attempt), settles later, and its status reaches the program by the
webhook, the answer of the call and the reconciliation, in any order and with
stale values. `Crash` also covers the loss of the advisory-lock session, after
which two workers run.

`PaymentLedger` states what billing promises about money: a charged payment buys
one month once, an uncharged one none, a refund takes effect once. `LedgerSpec` is
the refinement: `credited` are rows with `entitlement_applied_at`, `refunded` those
with `lifecycle_applied_at`, `months` counts extensions.

Run `billing` (1.8 million states): a month of two time units, grace of two, one
retry, a lease of one, two symmetric workers, two payments of which at most one
checkout, one refund, three time units, one fault. That lets a lease run out
while its payment is in flight, a retry succeed or fail in the grace period, a
refund meet a renewal, and a payment fail while the period it is for still runs.
`MCBillingLifecycle` only gives the retry schedule and the symmetry.

`untimely` guards `PaidIsPro` and records two ways in which a failed renewal takes away
time that was paid for:
* "replaced": a renewal that is reported canceled after a newer payment has replaced
  its period is still applied (`failure_applied_at` only asks whether it was applied
  before) and downgrades the newer period, although docs/billing-lifecycle.md says
  events "may therefore arrive in any order without extending or revoking a
  subscription twice".
* "running": the catch block of `renew` sets `next_billing_at` an hour ahead whatever
  was applied before the error (renewals.ts:42). After a renewal that succeeded,
  the period that has just begun is charged within the hour, and if that payment fails
  because the permission was revoked, PRO ends inside the paid period. The proof of
  `PaidIsPro` failed on this step; with a month of one time unit TLC could not reach it.

Without the guard TLC shows both cases. Two more observations: a renewal in flight
while the user cancels turns `auto_renew` on again (lifecycle.ts:18); `activePlan`
accepts PAST_DUE in its grace period, while docs/entitlements.md speaks of an ACTIVE
subscription.

### Proofs

`BillingProofs` proves, for all months, retry schedules, leases, workers, payments,
refund keys and faults: `BillingTypes`; `BillingRefinesLedger`, that every step maps
to a step of `PaymentLedger` or a stutter; `PeriodChargedOnce`
(`RenewedOncePerPeriod`); `PaidPeriodIsPro` (`PaidIsPro`); `RefundsShorten`
(`OnlyRefundShortens`). `Books` ties the rows to the provider: what is applied was
charged, what a worker carries is not newer than the provider's word, and the
counters are bounded by the cardinality of what was credited, which `TypeOK` needs.
A period is charged once because a next attempt is made only after the row of the
one before was failed, hence canceled at the provider (`Attempts`), and an equal
attempt has the same idempotency key (`KeysApart`). `Paid` carries the end of the
period and of the grace with the status through every dunning step.

## 6. Accounts and EmailOutbox

`EmailOutbox` has the outbox rows, the replicas of the worker (`claim`, check
suppression, send, mark), provider events and the administrator's retry.
`Accounts` extends it with users, workspaces, memberships, invitations, refresh
tokens and account tokens. A handler that is one transaction is one action; a
handler that reads in one transaction and writes in another, or whose insert a
concurrent UPDATE cannot see, is a request in `inflight` between two actions
(`Login`/`SaveRefresh`, `Refresh`/`RefreshCommit`, `DeleteMe`/`DeleteMeCommit`,
`CancelDeletion`/`CancelDeletionCommit`). An invitation takes three steps, its
reads (`Invite`), the check under the advisory lock of enforceMemberQuota
(`InviteChecked`, `InviteDenied`) and the upsert (`InviteCommit`); an acceptance takes
two (`AcceptInvitation`, `AcceptCommit`) and holds the invitation's row. Both keep the
now() of their BEGIN: an invitation that expires meanwhile is still live to them
(`LiveSince`). `plan` is what activePlan reads; `ChangePlan` is billing seen from here.
A token that travels by mail has the number of its message and can be used once the
message was sent. A delivery may fail at the suppression check, the sending or the
SENT update.

Run `accounts` (2.2 million states): two users, one a platform administrator, and
an outside address; each user new, unverified or signed in at first; four
requests, two of them in flight at a time; two messages, two symmetric mail
workers, one mail fault, dead letter after one attempt; workspaces that begin with PRO
(`InitialPlans`), of one seat in FREE and two in PRO. With one attempt a message is
sent again only by overdue recovery or by an administrator; the theorem has all retries.

Histories guard what overlapping requests break:
* `survivor`: a refresh in flight during a revocation inserts a token that the
  UPDATE does not see (auth/router.ts:187). `SessionsEnd` says that this is the only
  way a session outlives its revocation.
* `raced`: a member joins after the checks of DELETE /me, or an administrator reopens a
  closed workspace (auth/router.ts:254, admin/router.ts:46).
* `late[o]` counts the seats that enforceMemberQuota could not see: an acceptance that
  commits after the invitation expired, and the renewal of an invitation that was used,
  revoked or expired after it was read as live (organizations/router.ts:48).

`SeatsGrowWithinPlan` is an action property, because a downgrade leaves members and
invitations above the plan (docs/entitlements.md:27-29): a step that takes a seat stays
within the plan the workspace has, or had when the invitation was checked, plus the late
seats. docs/entitlements.md:16-18 promises more: "concurrent requests cannot exceed a
quota". TLC shows a workspace with more seats than any plan has, when the renewal of a
live invitation, which is not checked, overlaps with its acceptance.

`ErasedStaysErased` does not speak of the status: a cancel-deletion in flight while
the retention worker erases the account writes ACTIVE over DELETED
(auth/router.ts:218); the property shows that nothing else comes back with it.
Also seen, without a property: a bounce that arrives before the SENT update is
consumed and ignored (email/router.ts:17).

### Proofs

`AccountsProofs` proves every property of the run, for all users, addresses, plans,
roles, mail workers, requests in flight and bounds: `AccountsTypes`, `MailSentOnce`
(`MailedOnce`), `OneLiveToken` (`OneLivePerFamily`), `RevokedSessionsEnd`
(`SessionsEnd`), `VerifyTokensPending` (`LiveVerifyMeansPending`), `ErasedForGood`
(`ErasedStaysErased`), `OwnersRemain` (`OwnerRemains`) and
`SeatsStayInPlan` (`SeatsGrowWithinPlan`).
The constants are assumed finite where they are counted; every plan has at least one
seat (`maxMembers` in `entitlements/catalog.ts`); `RoomAssumption` only says that the bounds hold
what `Init` contains. `Frame` lists once which action may change which table. `AccInv`
is what makes the properties inductive:
* `Deliveries`: what was sent, what a replica still carries and whether the row may be
  claimed without overtaking anybody share one delivery per message and one per fault. The
  counts say what the statuses alone do not: that a row in PROCESSING is somebody's.
* `Tips` and `Exchanged`: only the last token of a family is LIVE, EXPIRED or locked by
  a refresh, and a token that is being exchanged is LIVE or was revoked with its
  family. A revocation therefore leaves no usable token of a family behind
  (`RevocationsClosed`, for each WHERE clause of the code), and the token a refresh
  inserts later is marked `survivor`.
* `AccountTokens`: one usable verification token per user, because `queueAccountEmail`
  consumes the earlier ones; without it the second would outlive the first verification.
* `NoneRevived` and `Verified`: no session is being made for an erased user. The proof
  uses that no login or refresh lasts as long as the 30 days before anonymization.
* `Owners`: only who registers a workspace ever owns it, and an owner whose deletion is
  pending is its only member, which is why closing a workspace with its last owner
  leaves none without one.
* `Unborn`: no invitation or member precedes a workspace, so registration, which checks no
  quota, meets an empty one.
* `Granted`: one invitation of a workspace is between its check and its commit, and the
  seat it was granted is still there, or was taken late. That is what the advisory lock is
  for: without it two invitations would be granted the same seat.

## 7. DesktopManager

The server process (`host`), the `trade_config` table, the manager's map
(`records`), every `WorkerRecord` with its timers, and every child. A launch
creates the record and the process together, so they share a number. Timers close
over their record. The operating system ends processes and delivers exit events
later.

Run `desktop` (385 thousand states): up to two configurations, three processes,
one relaunch, four requests, failures or restarts of the server. Fairness, for
`DiesWithHost`: a child handles the closing of its channel (Node.js delivers
`disconnect`), and its stop path ends, because exchange calls have timeouts and
bounded retries. Nothing is assumed of the server.

`raced` marks configurations that were started in the delay before a relaunch:
then the relaunch timer forks a second process (TradingWorkerManager.ts:74).
`LoneTrader` says there is no other way. The model also shows that
`disableEmergencyStop` of one child clears the flag of every configuration
(config.repository.ts:129); that a relaunch writes the configuration of its start
over newer settings (config.repository.ts:92); that stop() in the relaunch delay
after a kill by signal leaves a record that makes every later start() do nothing
(TradingWorkerManager.ts:27); that a stop message may be lost when the server
crashes (index.ts:103). No document promises otherwise, so they are not properties.

`DesktopProofs` proves, for all bounds, `DesktopTypes` and `OneTraderPerConfig`
(`LoneTrader`). `DInv` says that whatever can still trade, now or after its relaunch,
is what the manager's map has for its configuration (`TrackedOK`), that a relaunch is
due only for a reaped child with attempts left (`RelaunchOK`), and that a reaped child
has no channel (`ChannelOK`). `TrackedOK` is what start() relies on when it looks only
at the map; the relaunch timer does not look, and that is what `raced` marks.

## 8. PositionStrategy

What `_watchingProcess` decides. `mem` is the list the loop computes with (price
and amount as ordered), `rows` is `trade_operation` (as executed); they differ after
a partial fill or a better price. `free` is the account on the exchange. A
percentage is a number of `1/Unit`, comparisons of quotients are multiplied out, and
amounts are whole lots, so the arithmetic is exact where the code's is floating
point. Each request for a price may see another one: the loop's, the tracker's
first, the tracker's next and the closing order's are separate choices. The
configuration is one of `Configs` for the whole session, except that
`isEmergencyStop` may come in any iteration.

| Actions | Code |
|---|---|
| `OpenFirstPosition`, `ReadPrice`, `BuyBack`, `Sleep` | `_oneTradingBehavior`, `_watchingProcess`, `trading-math.ts` |
| `EmergencyStop`, `StopLoss`, `TakeProfit`, `StartTracker` | `_watchingProcess`, `_watchingTakeProfitLogic` |
| `OnPriceTracker`, `TrackerMoves`, `TrackerStops`, `TrackerFails` | `_onPriceTracker` |
| `Crash`, `EndAlgorithms`, `Restart` | `worker.ts`, `endAlgorithms`, `initTradeSession`, `checkingExistingOrders` |

Run `strategy` (305 thousand states): three configurations (trailing, Fibonacci
with stop loss, and a position too large for the account), four prices around
them, three entries, one restart. A session ends once, so deadlock is not checked.
A closing order may execute in part (the wait gives up after a minute), and the session
ends all the same. `BookedIsRealised` compares the SQL of `getProfitForTradeSession`,
which sums over all orders, the closing one included, with what the account gained: the
change of the quote balance, and what is left of the position at the closing price. So
after a partial close the profit that is booked is not the money made, but what a full
close would have made. It asks for one closing order (`ClosedOnce`): when a stop of the
process closes a part first, the next start closes the rest, and the SQL then counts the
earlier closing order as one more entry, which shifts the profit by twice its amount
times the difference of the two closing prices. Of such a session the
property only says that the position is not turned over. `RestartKeepsLadder` and
`AveragesTowardsMarket` ask for `Exact`: after a partial fill the loop goes on with the
ordered amounts and a restart with the executed ones. The locations "unfunded" and "too small" tell apart
the two ways `createOrder` may refuse: a buy-back is always paid for, but one of less
than a lot is sent and ends the process.

### Proofs

`PositionStrategyProofs` proves, for all configurations, prices, balances, partial fills,
buy-backs and restarts: `TypeCorrect` (`TypeOK`, in which no balance goes below zero),
`ProfitIsRealised` (`BookedIsRealised`), `RestartsKeepLadder` (`RestartKeepsLadder`) and
`BuyBacksAverage` (`AveragesTowardsMarket`).

The model adds up lists with the folds of the community modules, which pick elements in
an order left open; that the order does not matter needs induction. The induction theorems
of the library are out of reach because they take an operator as a parameter, so
`SumTheorems` starts from the least element of a set of natural numbers
(`NatLessThanWellFounded`, `WFMin`): induction is then a lemma about sets. From it come
the existence of a unique sum over every finite set (`SumsExist`, `SumFacts`), its
additivity and renaming, and that a fold is that sum whatever it picks (`FoldIsSum`).
`Appended` is what the model needs of it: one more order adds its own share.

`PInv` says of each location what the lists and the account have in common. The balances
are always the initial ones changed by what the rows cost and brought (`Account`). In a
session that runs, the position is open on the side of its first order (`Exposed`), the
loop's list has as many orders as the rows (`Alike`), and its options follow from it
(`Counted`). The last order of a session reduces the position and never turns it over
(`Reduced`); the profit as the SQL computes it is then the gain, because the closing
order's own share cancels out at its own price (`ProfitOfOneClose`, `CloseKeeps`). A
buy-back improves the average because it happens at a loss, so its price is on the better
side of the average of the orders in the list, which are the executed ones as long as
`Exact` holds.

## 9. Only model-checked

* Liveness (`DiesWithHost`, and the supervisor's three): fairness and ENABLED are out
  of the prover's reach.

## 10. Not modelled

* Order mirroring and runtime-log batching of the supervisor (worker.ts:110-187), and
  `balance_history`: outgoing copies that nothing in the program reads back for a
  decision. Read, though: a failed log insert loses its batch and sets no timer; the
  running profit of `balance_history` is read and inserted in two statements, so two
  desktop workers may lose one of two sums, and a crash between the insert and the end
  of the session counts one twice (SessionTradingService.ts:109).
* The grid behaviour of the engine, which no strategy selects, and coin
  accumulation (`_getDeltaForBuy`), whose result no order uses.
* The quotas on bots, connections and commands (the same pattern as the member
  quota), creation and PATCH of bots. PATCH checks `actual_state` in one transaction
  and writes the configuration in another (bots.router.ts:36), so a START in between
  changes a running bot's row; only the next `startBot` reads it.
* Un-awaited updates of `actual_state` may leave it stale (worker.ts:225); they are in
  `BotSupervisor`, and no document promises otherwise.
* Data export and data-subject requests, consents, feature flags, metrics, rate
  limits, audit and usage rows: records that no modelled decision depends on.
* Password, token and payload cryptography, HTTP validation, templates, generated
  SDK code and one-shot scripts: pure functions or I/O without state of their own.
