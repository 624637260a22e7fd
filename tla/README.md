# Verification of trading-api in TLA+

TLA+ modules for the parts of the trading API (`src/`, a Koa/TypeScript back end with
MySQL through Sequelize, WebSocket hubs and two background processes) in which several
actors change the same state, TLC configurations that model-check them on small
instances, and proofs that the TLAPS proof system checks.  `PROJECT.json` lists the
components, the runs, a mutant of the code for every property, the source lines of
every definition, the findings, the hazards and the theorems.

Run a check with `tlc -config orders_xpub.cfg MCPaymentOrders`, a proof with
`tlapm PaymentOrdersProofs.tla`.

## 1. The system

Processes (`ecosystem.config.js`): **trading-api** (HTTP, the two WebSocket hubs, the
liquidation worker), **trading-ingest** (`scripts/ingest-loop.ts`) and
**trading-payment-watch** (`scripts/payment-watch.ts`).  They share one database and
call each other nowhere else.  Each is single-threaded: interleaving happens at the
`await`s of a handler, and between the processes at every statement.  No service uses a
transaction except the allocation of a deposit index, and Sequelize's `instance.update`
is `UPDATE ... WHERE id = ?` with no other condition, so a stale write always lands.

| Component | State | Operations | Hard behaviour | What makes it correct |
| --- | --- | --- | --- | --- |
| Payment orders (`services/billing/order.service.ts`) | `t_payment_order`, `t_payment_address_index` | create, read (with lazy expiry), cancel, expire, scan, confirm | API and watcher write the same row from stale reads; four statements per creation; crashes between them | unique deposit indexes, a paid order is backed by a transfer, no two orders read paid by one, orders resolve |
| Payment watcher (`scripts/payment-watch.ts`, `billing/tron-grid.ts`) | the tick in progress | expire, scan TronGrid, confirm, sweep subscriptions | external calls fail, restarts mid-scan | payments made in time are found, webhooks are not repeated |
| Subscriptions, roles (`subscription.service.ts`, `membership-role.service.ts`) | `t_user_subscription`, `t_user.f_role_id`, `t_user_role` | activate, expire, upgrade, downgrade | a role change is three statements; an administrator's runs beside it; a raise abandons a loop | spans do not overlap, the role follows the subscription |
| Market hub, upstream pool (`ws/market-hub.ts`, `exchanges/binance/ws.ts`) | client subscriptions, pool of upstream sockets | subscribe, unsubscribe, heartbeat, attach, tear down, reconnect | clients leave while a socket connects or a timer is armed; silent clients; errors | exact reference counts, no orphan socket, reconnection |
| Event feed (`ws/events-hub.ts`, `services/events`, `ingest/`) | `t_market_event`, poll position, buckets | upsert, batch, poll and broadcast, liquidation buckets | position moved before the query; two writers insert the same event and the unique key refuses one | refusals need overlapping writers; an event is announced or lost for a known reason |
| Klines (`utils/kline-cache.ts`, `exchanges/binance/rest.ts`) | LRU cache of closed bars, exchange-info cache | lookup, save, range fetch | the clock is read before and after awaits; a cache at its limit | what is served equals what the exchange has |
| Market brief, price levels (`services/market`) | brief cache, last light of each key | build, serve; find, merge and pick levels | several rebuilds at once, sources that fail; a running average | the change of the light is counted from what was shown; a colour is earned; levels are apart |
| Accounts (`services/auth`) | `t_email_verification`, `t_user`, `t_user_password_history` | send a code, register, reset | lookups, marks and inserts in separate statements; times to the second | a code that was mailed alone is accepted; a reset changes the password |
| Administration (`services/admin`, `utils/jwt.ts`, `require-admin.middleware.ts`) | roles and status of users, `t_user_role`, tokens | log in, change role and status, create, seed | a token outlives the role it names; role changes overlap | somebody can administer; one primary role |
| Chart templates, trading symbols | rows with a default flag | create, update, set default, remove, list | clearing and setting are separate; a pair is renamed while templates keep its old name | one default, the one that was chosen |
| Chain orders (`services/chain-order`) | `t_chain_order` | upsert by transaction hash | posts repeated, reordered, overlapped | the row says what one post said |
| HTTP client, rate limit | attempts; a counter and window per client | request, retry, count, sweep | late answers; bursts around the end of a window | what passes is limited |
| Start-up (`server.ts`, `db/connection.ts`) | the one connection | connect, retry port | concurrent first use | one connection |

`hazards` in `PROJECT.json` lists what is hard to test in each of them, at its line.

## 2. What is modelled

### PaymentOrders

One step per `await`.  `requests[r]` is a handler of the API suspended at an `await`
(`createOrder`: count, allocate, insert, exact amount; `getOrderForUser` and
`cancelOrder`: read, decide, write); `watcher` is the loop of `payment-watch`
(sweep, scan, fetch one order's transfers, match them one by one, wait for the
confirmation); `confirm[id]` is `confirmOrderPaid`, called by the scan or by the
development timer (`timers`).  `chain` is Tron: `Pay` appends any amount to any address
given out, `WatchFetch` sees the first page from the order's creation less `Grace`.
Failures are actions: a request or a confirmation fails at any await, a TronGrid call
fails, either process is killed and restarts (what it kept in memory is lost).
`config` is the environment, chosen in `Init` out of `Configs`: derived addresses, one
treasury address or neither; the development timer; automatic upgrades.

Abstracted: amounts are integers in the smallest unit (the code converts decimals to
`bigint` micro-units before comparing); an address is its derivation index, which
`billing/tron-address.ts` maps injectively; order numbers, formatting and logging.

### Memberships

`activate[o]` is `activateFromOrder` (read the latest subscription, create the row,
upgrade), `sweep` is `expireDueSubscriptions` (read the due rows, expire them one by
one, look at each user), `job[p]` the role change that the process `p` has in progress
(`upgradeUserRole`, `syncPrimaryUserRole`): look up, save the user, clear the primary
flags, mark.  `config` says what disturbs the watcher: orders, an administrator who
assigns roles or disables users, crashes.  The order that reaches `activateFromOrder`
is taken not to read "paid" (see the finding below); otherwise the function returns at
once and there is nothing to check.

### MarketStreams

Both files run on one thread, so one handler is one step.  `subs` are the hub's
subscriptions, `pool` and `entry` the upstream pool; an entry keeps its socket's state,
its handlers, its reconnect timer and its `closed` flag after it left the pool, as far
as something can still call it back.  Browser sockets connect, leave, fall silent and
answer pings; upstream sockets open, close, err; the constructor may throw.  A client's
error and the close that follows it are one step: the second run of the hub's cleanup,
which finds the subscriptions cleared by the first, is left out.

### KlineCache

`request[r]` is one `getKlines` in progress: idle, waiting for the exchange with the
hits it took from the cache, the calls not yet answered and the bars it got, or done
with its response.  The three forms of the question are three actions: the newest bars,
a range with one bound, a range with both (only this one reads the cache and fetches
the gaps, in parallel).  A bar is the time it opens and the time up to which its
contents count the trades (`seen`), which is all that staleness and completeness need.
`cache` is the `Map` in the order of use; `Used` is a run of `touch`, eviction
included.  `FetchAnswered` is an answer at whatever attempt it comes, `FetchFails` a
fetch whose attempts are exhausted.  The exchange is external: it answers with its
bars at the time of the answer, cut to the limit.

Abstracted: prices and volumes; one symbol and interval (the key of the cache begins
with them; they share only the capacity); a request may take any time up to its first
answer and `Delay` from there to its end.  The cache aligns its slots to multiples of
the interval, and the exchange opens a bar `Offset` after one: 0 for every interval up
to a day.  For weeks (Binance opens them on Mondays, multiples of a week from the epoch
fall on Thursdays) and months (28 days in `INTERVAL_TO_MS`) cached bars are seldom
found again; the completeness of a range is checked for `Offset` 0 and proved for any.

### EventFeed

`upserts` are the calls of `upsert` that messages of the liquidation stream began, each
suspended at its lookup, its insert or its announcement; `ingest[p]` is the run of one
ingester (the loop, or somebody's `yarn ingest:news` beside it), source by source:
fetch, look up the batch, insert what is new.  `worker` is the stream's socket and
reconnect timer.  `lastPoll` and `polls` are the hub's position and the polls whose
query is not answered.  `told` and `missed` are history: what the feed's clients were
sent, and what the polls of this process leave behind for a reason.  The API process
dies and is restarted as a whole, by a kill or because a dropped promise of an upsert
or of a client's snapshot rejects (`server.ts` ends the process on an unhandled
rejection); an ingester dies alone.

Abstracted: an event is its key (source and external id); items without a symbol, which
every path drops first, and items without guid and link, which get a random key and are
stored anew at every run, are left out; the clients are one audience, whose snapshots
and pings change nothing.  The first poll of a process may come earlier than in the
code.  A stream that falls silent without closing is never noticed by the worker, which
sends no ping; the model's streams end with an error or a close.

### OrderLedger

What a user and the receiver of the webhooks may rely on, as a specification of its own:
`ledger` holds the status and payment of every order opened, `notices` the webhooks sent.  An
order is opened once, becomes paid only together with a payment that no other paid order holds,
keeps that payment for good, and is announced at most once; its status may still be withdrawn
by the unconditional writes of `cancelOrder` and of the lazy expiry, but never returns to
pending.  `PaymentOrders!Ledger` maps the table to it (`Recorded` is the recorded hash), and
`KeepsLedger` says that every step of the handlers, the watcher and their failures is one of
its steps or changes nothing of it.

### Entitlements

What a subscriber may rely on, as a specification of its own: an order grants its user a span of
the length bought, once; the span begins behind all of his spans and no later than where the
last one ends, or now; it is never moved, cut or taken away, and declared over only when
it is.  `Memberships!Granted` reads it off the rows (`over` is the status "expired"), and
`KeepsEntitlements` says that every step of activations, sweeps, administrators and crashes
is one of its steps or changes nothing of it.  The role is not part of it: it may be lost
(`members_disabled`).

### Administration

`requests[r]` is a call of an administrator, of the seeding scripts or of a membership
change: read the row, check the guard, save, clear the primary flags, look for the row
of the role, mark it.  `tokens` are the users whose token names an administrator: it is
signed after the login's own read and trusted until it expires, whatever the table says by
then.  `calls` limits a behaviour to two or three kinds of calls, chosen in the initial
state, which keeps the instance small.

### Accounts

One address.  `sendCode` (recent code, replace, store, mail), `verifyAndConsume` (find the
newest valid, mark it), `register` and `resetPassword` behind it, statement by statement; a
query keeps the clock it compares with from before its answer.  A tick is a second or more and
the columns keep seconds, so that of two rows of one tick either may come first.  `alone`
marks a code that no other call could disturb, `unsure` a history whose newest row may not be
the current password: the properties say what holds apart from these.

### TradingSymbols and ChartTemplates

The dictionary of pairs with its default flag, and one user's templates with theirs.
`Saved` and `Merged` are Sequelize's `save` and `update`: only columns that differ from
what the instance read are written, so a stale request may leave a column alone that
another one changed.  `normalizeUserDefaults` is `NormRead` and one `LoseOne` per loser;
which template it keeps among equal timestamps is open.  An administrator renames or
retires pairs meanwhile.

### ChainOrders, RateLimit, MarketBrief, PriceLevels

`ChainOrders`: the two posts of one transaction, by any users, in any order and number.
`RateLimit`: the counter of one client, with the sweep at any time and restarts, which lose
the counter; the history of what was asked and passed goes on through them, each event with
the number of restarts before it.
`MarketBrief`: a reading of the sources, any of which may fail; the six votes, the light
and how it changed; the two caches.  `PriceLevels`: `mergeCloseLevels` as a loop with a
step per pivot over chosen bars, and the choice of the nearest.  Pivots are the indexes of
their bars: a level that is met again is averaged in again, as in the code's arrays.

### Services, MemberServices, ChartServices

Three compositions.  `Services` puts administration, accounts and the dictionary of pairs
beside the payment orders; `MemberServices` chain orders, the rate limit, the brief and the
price levels beside the memberships; `ChartServices` the chart templates beside the klines.
Each extends the larger module and takes the others as instances over variables of their own;
a step is a step of one part, which leaves the others as they are, because the tables and the
memory that a part models are its own.  Where another part of the code writes one of its
tables (users, pairs), the module that is disturbed by it has those writes as actions of its own.
A composition names what is assumed of the constants of its parts, as weak as the code
justifies (`CodesAssumption`: a code does not outlive its cooldown), and states the
properties of the parts under the names that the runs check and the theorems prove.

### Modules for the runs

`MCPaymentOrders`, `MCMemberships`, `MCMarketStreams`, `MCKlineCache` and `MCEventFeed`
give the constants of one module.  `MCServices`, `MCMembers` and `MCCharts` do so for the
compositions and let one part work in a behaviour: `part`, chosen in the initial state and
never changed, says which, and the others rest.  So a behaviour of such a run is one of the
composition, and its states are the sum of those of the parts instead of the product; what
several parts at work at once would add is nothing but their interleaving, which the theorems
about the composition cover.

## 3. Runs

Bounds are the constants of each `.cfg` and of the instances in the `MC` modules; symmetry is
used only where no liveness property is checked.

| Run | Shows | Instance |
| --- | --- | --- |
| `orders_xpub` | `TypeOK`, `DepositIndexUnique`, `PaidIsBacked`, in production with an xpub and in development | 2 orders, 2 concurrent requests, 3 clock ticks, an order lives 2: it can be paid, expire, be cancelled and be read late; amounts one below and at the price |
| `orders_treasury` (`MCServices`) | orders: `PaidTransfersDiffer`, `PendingOvershootBounded` | 3 orders on one address with equal tails (`TailModulus` 1), one transfer for all of them, 2 requests against a limit of 1 |
| | administration: `LastAdminExplained`, `LoneChangeHeals` | 2 accounts, 2 calls at once, four sets of calls |
| | accounts: `LoneCodeLives`, `ReuseExplained` | 2 codes, 2 passwords, 2 calls at once, a life and a cooldown of 1, a clock of 2 |
| | pairs: `DefaultsPerRequest`, `LoneSetterWins` | 3 rows, 3 names, 2 calls at once: set default, activate, rename, create, retire |
| `orders_live` | `NotifyAtMostOnce`, `OverdueResolves`, `PaymentDetected`, `KeepsLedger` | 2 orders, 2 transfers, any finite number of failures and restarts |
| `members` (`MCMembers`) | memberships: `KeepsEntitlements`, `RunningKeepsRole`, `PrimaryIsRole`, `DowngradedUndisturbed` | undisturbed: a user who renews twice and another one; disturbed: a renewal beside crashes, an administrator's assignments and disabling |
| | chain orders: `OrderSaysOnePost` | the two posts, 2 users, 2 ids, 3 posts answered at once |
| | rate limit: `PassedIsLimited` | a limit of 2 in a window of 2, 7 requests, a clock of 5, a restart: enough for the 6 that may pass in a window with a restart, and the one after |
| | brief: `ColourIsEarned`, `LightsChain` | 2 builds at once, six readings on both sides of each threshold, every failure of a source |
| | levels: `LevelsAreReal` | every sequence of four peaks or troughs out of four levels near the merging ratio, repeated ones included; the levels are multiples of 8, so that the three means are exact |
| `streams` | `TypeOK`, `HandlersAreSubscriptions`, `NoOrphanUpstream`, `SilentIsCleaned`, `CloseReconnects` | 2 clients, 2 subscriptions at a time, 2 streams and one whose URL the constructor refuses, 3 entries |
| `klines` (`MCCharts`) | klines: `ServedIsFresh`, `ServedIsComplete` | 2 requests, nine questions (all three forms, long and short limits, a range that is reversed), interval of 2 ticks, a clock of 6: bars that form, close and are evicted from a cache of 2 while the exchange answers at most 2 bars |
| | templates: `LoneCallSettles`, `ChosenIsDefault` | 2 templates, one pair with 2 names, 2 calls at once, two ticks; renaming, retiring, publishing, templates for all pairs |
| `feed` | `TypeOK`, `RefusalsOverlapped`, `LossIsExplained`, `WorkerReturns` | a forced order, one RSS source, two ingesters, two arrivals (of one event or of two), a page of 1 so that a poll can be full, a clock of 2, deaths of every process |
| `orders_cancel_paid`, `orders_activate`, `members_disabled`, `streams_error`, `klines_immutable` | violations: the findings of section 6 | the smallest instance that shows each |

`ServicesTypeOK`, `MembersTypeOK` and `ChartsTypeOK` are the type invariants of the parts;
that of `KlineCache` includes the order of its cache (no bar twice, within the capacity),
that of `Accounts` bounds the life of a code.  TLC evaluates the assumptions on the constants
of every module and composition in the run that extends it.

Why the bounds are enough.  The properties relate at most two orders, or one order and
one transfer; a race needs two requests, or a request and the watcher, both present.
The clock runs past an order's expiry and past the ends of subscriptions.  A third
order on the treasury address gives a chance to a transfer that was claimed and
released in between.  In `klines` two requests share a cache that cannot hold what one
of them asks for, so that a bar is evicted between another request's lookup and its
answer; `Delay` 1 lets a bar close between two answers of one request.  In `feed` two arrivals
are what a refusal and a full page need, and two ticks separate an event's time, the
poll that may miss it and the next; several sources and copies of an item in one answer
are covered by the proofs.  Two defaults, two primary roles or two codes need two calls at once;
a third pair lets a default appear outside both; a clock of 2 sees a code expire and its
cooldown end.

Deadlock is checked in the other runs of the orders, of the streams, the feed and the
charts.  `members` stops when the clock has reached its bound and every order is done, or
every level is merged; in `orders_treasury` a behaviour of the accounts ends with the
clock and its codes, and one of the administration when nobody is left who may act.
There it is not checked.

## 4. Fairness

`RecoverySpec` (orders): the loop of `payment-watch.ts` goes on, and a confirmation
that has begun goes on (weak fairness of `WatchStep`, `ConfirmStep`), and failures and
crashes stop at some time (`<>[][~Setback]_vars`): the process manager restarts the
process, and `loop` catches what a tick throws.  Nothing is assumed of the API's
requests, of payers or of the clock, which need not advance; that is why
`OverdueResolves` starts from an order that is due and `PaymentDetected` from one that
is not.

`FairSpec` (memberships): the same loop, handlers in progress, and the clock.
`FairSpec` (streams): intervals fire (`Heartbeat`), timers fire (`ReconnectTimer`), and
a connection that is attempted for ever is at some time established (strong fairness
of `SocketOpens`: the network may refuse a number of times).
`FairSpec` (event feed): the same for the worker's timer and connection; the process
manager restarts the API (`autorestart`), which dies finitely often.

## 5. Proofs

`PaymentOrdersProofs` proves, for every set of orders, users, plans and requests, every
configuration and every bound, from the assumptions named in `PaymentOrders` (types of
the constants, positive limits):

* `TypeCorrect`: `Spec => []TypeOK`.  Not inductive alone: a handler that updates row
  `id` keeps the table typed only if that row exists.  `TypeInv` adds `RefsExist`: the
  ids held by requests, timers, confirmations and the scan are ids of rows.
* `WebhookAtMostOnce`: `Spec => []NotifyAtMostOnce`.  `NotifyInv` says, per order, where
  its confirmation may be: no webhook before the row carries a hash, and a
  confirmation that is about to decide or write belongs to an order without one; a row
  once paid never becomes pending again, although stale writes may expire or cancel it.
* `DepositIndexesDistinct`: `Spec => []DepositIndexUnique`.  `IndexInv` adds that every
  index in the table or in the hands of a creation is below the counter.
* `PaidTransfersDistinct`: `Spec => []PaidTransfersDiffer`.  Of the orders that record one
  transfer at most one reads paid.  The lookup of an order paid with
  a hash and the write that records it are separate statements.  The inductive invariant adds what
  makes them safe: only the watcher confirms with a hash of the chain and it awaits one
  confirmation before it looks up the next, so while one is in progress no paid order
  holds its hash; the development timer records a hash of its own for each order.  It is a statement about
  orders that read paid at one time, not over all of a transfer's history (section 6).
* `ImplementsLedger`: `Spec => KeepsLedger`, the refinement of `OrderLedger`: the initial
  states map to its initial state (`LedgerInit`), and under the invariants above every
  action, one lemma step each, maps to a step of it or leaves it alone.

* `PaymentsAreBacked`: `Spec => []PaidIsBacked`.  `BackInv` follows a payment from the chain
  to the row: transfers are not of the future and are never changed, the amount an order asks covers
  its price, what the scan has found are transfers to the order's address within its grace
  period, and a confirmation in progress carries the hash of one and, about to write, a
  reading of the clock from before the order was due.
* `OvershootIsBounded`: `Spec => []PendingOvershootBounded`.  A creation that has counted and
  not inserted is taken together with the orders that are open: only the
  count that lets a creation begin adds to the sum, and when it does the open orders are
  below the limit and the creations in flight at most the requests.  The set of requests is assumed to be finite
  (`RequestsAssumption`: a process holds finitely many), because their number is the bound.

`MembershipsProofs` proves, for every set of orders and users, every duration and every
configuration (role changes of an administrator, disabled users, crashes):

* `TypeCorrect`: `Spec => []TypeOK`, with `RefsExist` (what a handler works on exists) and
  `OneAtATime` (the watcher awaits an activation before the next, and before a sweep).
* `ImplementsEntitlements`: `Spec => KeepsEntitlements`, the refinement of `Entitlements`.
  `SpanInv` is what the steps need: an activation about to insert starts behind every row
  of its user, and where one of them ends or no later than now; a row marked expired, or about to
  be, was due; and a user with rows has one that ends last (so that `StartFor` finds what
  it looks for).  One lemma for each action that maps to a step (`EntitledTick`,
  `EntitledCreate`, `EntitledRow`); the others leave the rows and the clock alone.
* `SpansDisjoint`: `Spec => []Entitled!SpansApart`, drawn from the refinement alone:
  `EntitledApart` is inductive for `Entitlements`, so the spans granted to one user, expired or
  not, have no time in common.
* `PrimaryRoleIsRole`: `Spec => []PrimaryIsRole`.  Between the statements of a role change the
  primary rows are wrong; `PrimaryInv` says that such a user has a change in progress and
  that it will set them right.
* `RunningSubscriberKeepsRole`: `Spec => []RunningKeepsRole`.  `RoleInv` says that a user with a
  running subscription has the paid role or an activation about to give it, and that the
  sweep is about to downgrade nobody who has one.

`MarketStreamsProofs` proves, for every set of clients, streams and entries:

* `TypeCorrect`: `Spec => []TypeOK`.
* `HandlersCountSubscriptions`: `Spec => []HandlersAreSubscriptions`, and
  `UpstreamsAreHeld`: `Spec => []NoOrphanUpstream`.  The two need each other, and the fact
  that no two subscriptions have one id: then leaving removes one handler, the last one
  tears the entry down, and an entry that is reused has neither socket nor timer.

`KlineCacheProofs` proves, for every set of queries, capacity, interval, offset and limit:

* `ServedFresh`: `Spec => []ServedIsFresh`.  `FreshInv` adds what makes it inductive: every bar
  in the cache, and every hit a request holds, is closed but for `Delay`; every bar a
  request got was answered after the request began, at a time between `since` and now;
  and a waiting request is never older than `Delay` past its first answer.
* `ServedWhole`: `Spec => []ServedIsComplete`.  `CompleteInv` says of a range in progress that
  each slot of it is a hit, belongs to a gap that is still awaited, or was answered at a
  time since the question up to the limit of its gap.  The lemmas behind it: the gaps of a
  lookup are disjoint and cover what the cache misses (`GapsAre`, `GapsApart`, `GapsCover`),
  the limit of a gap is no less than the bars in it or than the exchange's own
  (`OpensCount`, by the arithmetic of bars that lie an interval apart), and the first
  bars of a union are among the first of each part (`FirstCut`).  Existence of a least
  element is drawn from the well-foundedness of `<` on the naturals.
  An attempt to prove it showed `Expected` wrong for a range whose end lies before its
  start, which the validators let through and the lookup answers with nothing; it is
  corrected, and the run asks such a question now.

* `TypeCorrect`: `Spec => []TypeOK`, with the facts above.  Types are the lesser part: the
  cache never holds more than `Capacity` bars, each time once, and the ages of its entries
  are the numbers from 0 up without gaps, so that what is dropped was used least
  recently.  `UsedOrdered` is the counting argument: elements with distinct keys are numbered
  by how many have a lower one (`RanksAre`, an injection into as many numbers), for the bars
  touched and then for those kept.

`EventFeedProofs` proves, for every set of keys, list of sources, number of ingesters
and copies, page size, poll interval and lookback:

* `TypeCorrect`: `Spec => []TypeOK`, with the fact that an upsert about to announce has
  stored its row.
* `RefusalsOnlyOverlapped`: `Spec => []RefusalsOverlapped`.  `OverlapInv` says that a row
  which stands in the way of a writer between lookup and insert came in after its lookup.
* `FeedLosesNothingElse`: `Spec => []LossIsExplained`, inductive with the types and
  `TimerIsUp` (no timer runs in a dead process): an insert makes its row late or ahead of
  the poll, a poll takes over what was ahead of it, its answer tells or leaves behind.

The three last modules prove about the smaller services, for any of their constants and any
number of calls in progress, and then about the composition that a run checks.  First each
part is shown to be served: `AdministrationIsServed`, `ClientsAreServed`, `KlinesAreDrawn` and so
on say `ServicesSpec => Admins!Spec`, that the composition implements each of its parts (its
initial states are initial states of the part, a step of it is a step of the part or leaves
the part's variables alone).  With that each property the run names holds of the composition:
the theorem `LastAdminServed` is `ServicesSpec => LastAdminExplained`, by `LastAdminLost`
about `Admins!Spec`.  The assumptions are those the compositions name, which TLC evaluates
on the instance: `AdminAssumption`, `CodesAssumption`, `PairsAssumption`, `PostsAssumption`,
`LimitAssumption`, `ReadingsAssumption`, `InputsAssumption`, `TemplatesAssumption`.  They are
types, the finiteness of what a process holds, and that the placeholders (`NoName`, `NoAccount`,
`Nobody`, ...) are none of the values they stand beside, except where said below.

`ServicesProofs` (`Services`), ending in `ServicesTyped` (`ServicesSpec => []ServicesTypeOK`),
`LastAdminServed`, `LoneChangeServed`, `LoneCodeServed`, `ReuseServed`, `DefaultsServed` and
`LoneSetterServed`:

* `LastAdminLost`: `Admins!Spec => Admins!LastAdminExplained`.  `Guarded` is what makes it
  hold: a call about to save changes, beside the column of its operation, nothing of what it
  read, and of the actor himself nothing that the guards refuse.  Then an actor who is an
  active administrator when his change is saved is still one afterwards (`ActorStays`), and
  nothing but a saved change takes an administrator away (`OnlySavesTake`).
* `LoneChangeHealsRoles`: `Admins!Spec => Admins!LoneChangeHeals`.  `Knows` says what a role
  change that met no other of its user knows at each of its statements (the role it saved,
  that no row is primary after the clearing, the row it found), and `RolesAloneInv` that
  nobody else is at that user: a second call that begins marks the first.
* `PairsTyped`, `LoneSetterWinsAlways` (pairs): `PairInv` says that a request which met no
  other has its row as it read it, and no other default before its last write.
* `DefaultsBounded`: `Symbols!Spec => []Symbols!DefaultsPerRequest`.  `DefaultsCounted` is
  the sum behind it: the defaults that no request is about to write and the requests that
  are about to set one are together no more than the requests.  A clearing sets the first
  to nothing, and a setter that ends trades one for the other.
* `CodesTyped`, `LoneCodeLivesOn` (accounts): `LivesInv` adds that nobody is sending a code of
  the purpose of one that lives and was stored by itself, and `CallsInv` why: whoever sends
  has looked back over the cooldown, which is no shorter than the life of a code
  (`CodesAssumption`; the source has 60 s for both, `email-verification.service.ts:16-17`).
* `ReuseIsExplained`: `HistoryInv` says that the newest row of the history is the current
  password, but for the one call about to record it, unless a record was lost or overtaken.

`MemberProofs` (`MemberServices`, beside what `MembershipsProofs` proves), ending in
`ServicesTyped` (`ServicesSpec => []MembersTypeOK`), `OnePostServed`, `LimitServed`,
`ColourServed`, `LightsServed` and `LevelsServed`:

* `RowSaysOnePost` (chain orders), provided that the posts of a transaction have two forms
  (`PostsAssumption`).  `OrderInv` says that the row and every post in progress hold values of
  one form and that a post about to update still owns the row; `MergedIsOne` is why two forms
  are enough: a stale update that writes only the columns that changed leaves the row or
  replaces it.
* `PassesLimited` (rate limit): `RunsInv` and `EndedInv` say that what passed before the
  running window lies before its start, and what is long ago a window before it; `Long`
  counts how many passed since: the limit, and once more for each restart since.  A restart
  puts what passed in the lost window behind it (at most the limit), which is what its own
  share of `Long` pays for.  The property compares the first and the last of any that pass in
  a row, one more than 2 + d times the limit where d restarts lie between them; who is refused
  had used up the limit of the same process within one window.  The bound is tight: TLC
  finds it violated with a limit less, with or without a restart.
* `ColoursEarned` (brief): `FailureIsNoVote` is the lemma behind it, a reading that is missing
  votes for no light.
* `LightsFollow`: `BriefInv` adds to the types that the light kept for a horizon is the one of
  the brief shown last, and that a build which no newer one overtook holds that light for
  its comparison.
* `LevelsReal` (price levels): `BucketInv` bounds the running average by its pivots: it never
  comes close again to a level already pushed, and never leaves the pivots that made it.

`ChartProofs` (`ChartServices`, beside what `KlineCacheProofs` proves), ending in `BothTyped`
(`ChartsSpec => []ChartsTypeOK`), `LoneCallDrawn` and `ChosenDrawn`:

* `ChartsTyped`, `LoneCallSettlesAlways`, `ChosenStaysDefault`: `ChartInv` says what a call that
  met no other knows at each statement (`LoneKnows`): the template it chose, that no default
  of its name is left after the clearing, the rivals that normalising will find.
  `TemplatesAssumption` has ids and names of pairs distinct, as `symbolGroupKey` makes them by
  its prefixes.  The attempt to prove `ChosenIsDefault` showed that its earlier form was true of
  two templates only: it compared timestamps when the last loser is written, after the
  chosen one may have been written itself.  TLC confirms the counterexample with three
  templates; the property now compares them when normalising decides.

Each invariant has an initial lemma, one lemma per process with one step per action,
and a `PTL` step that combines them.

Only model-checked: liveness (`OverdueResolves`, `PaymentDetected`, `SilentIsCleaned`,
`CloseReconnects`, `WorkerReturns`, `DowngradedUndisturbed`), which is outside the prover's
reach.  Every invariant and every step property that a passing run checks is stated by a
theorem.

## 6. Findings

Each is a run that TLC finds violated; `PROJECT.json` quotes the lines.

* `orders_cancel_paid`: `cancelOrder` refuses what is not pending, on a row read earlier;
  a payment confirmed in between is overwritten by "cancelled".
* `orders_activate`: `confirmOrderPaid` reloads the order, which reads "paid", and hands
  it to `activateFromOrder`, whose first statement returns on paid orders.
* `members_disabled`: the sweep expires all rows first and then downgrades user by user;
  a disabled user makes `upgradeUserRole` raise, and those after him keep the role.
* `streams_error`: the error handler removes the listener that would reconnect.
* `klines_immutable`: a range that ended over 60 s ago is sent as immutable for a day,
  whatever its interval; the bar of an hour that contains its end is still forming.

Behaviour seen while modelling that no document denies: concurrent requests exceed the
limit of pending orders (`PendingOvershootBounded` says by how much); a treasury order
is open at the list price until its exact amount is written; a crash between the expiry
of subscriptions and the downgrades leaves the paid role; a lost webhook is not sent
again; an upstream's reconnect delay never grows past its first value, because
`attempts` is reset when the socket opens and a socket that never opened errs instead
of closing; a bar that closes between the answer of one gap and the last answer of its
request is cached as closed although it lacks its last moments (`ServedIsFresh` says by
how much); a question for the bars up to an aligned end, without a start, drops the
newest of the bars it asked for, because the inferred range holds one more than the
limit; an event whose row is inserted after a poll's query with a time before the poll
is never announced, nor is what lies beyond a full page; of two overlapping writers of one
event the unique key on source and external id refuses the second, which ends the API
process for a message of the stream (the promise is dropped) and loses the rest of the
batch for an ingester.

A new code sent beside another may replace it before it arrives, and codes stored at once
are chosen between by a time of whole seconds (`LoneCodeLives` says what is left).  A reset to the
current password passes beside another reset, after one that failed before its record, or
within one second of one (`ReuseExplained`).  Concurrent calls leave as many default pairs
as calls (`DefaultsPerRequest`) until a call that runs alone (`LoneSetterWins`); two
administrators can disable each other, and one who was demoted acts until his token
expires (`LastAdminExplained`).  A setDefault may be lost when its pair was renamed in between:
the clearing goes by name, the normalising by id and timestamp, and a save that changes
nothing moves no timestamp (`ChosenIsDefault`).  A receipt that is
posted before the post of the sending is overwritten by it, status included
(`OrderSaysOnePost` says only that the columns agree); two posts is what
`docs/CHAIN_ORDERS.md` names, and a third different one could be merged with another.  A
client may pass twice the limit around the end of a window, and the limit again after each
restart, since the counters are kept in memory (`PassedIsLimited`).  One transfer may confirm
two orders of a treasury address, and post a webhook for each: when a stale `cancelOrder` or
lazy expiry has overwritten "paid" of the first, the lookup of an order paid with the hash,
which asks for that status, misses it (`order.service.ts:344-346`), and no key of the table
forbids a second row with the hash.  `orders_treasury` reaches such states;
`PaidTransfersDiffer` says only that the two never read paid together.

## 7. Plan

1. Done: `PaymentOrders`, `Memberships`, `MarketStreams`, `KlineCache`, `EventFeed`,
   `OrderLedger` and `Entitlements` with their refinements, `Administration`, `Accounts`, `TradingSymbols`,
   `ChartTemplates`, `ChainOrders`, `RateLimit`, `MarketBrief`, `PriceLevels`.
2. Done: proofs of every safety invariant and step property that a run checks, of both
   refinements, and that the compositions implement each of their parts.
3. Then: the attempts of the HTTP client beside the worker's and the pool's own retries,
   the memo of the exchange's symbol list, the log of template usage (two applications of
   one template on one day are looked up and inserted in separate statements).

Not modelled, and why: the dashboard (fixed data), DTOs, validators and controllers (no state),
mail (I/O), password hashing, tokens and address derivation (cryptography), listings
(read-only), the change of a nickname, the log of template usage and its rankings, the attempts
of one HTTP request (they share no state with anything), the choice of a port and the shared
database connection at start (one promise).  The activation of an order by the development
timer, which runs beside the watcher's, is left out of `Memberships`.
