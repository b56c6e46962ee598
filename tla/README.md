# ViaRoute in TLA+

ViaRoute is a pay-per-call platform: callers dial tracking numbers, the API answers,
plays a notice or a phone menu, and dials buyers one after the other until one takes the
call; buyers have caps, accounts have limits and a prepaid wallet.  This directory models
the parts of `src/apps/api/src` in which many things happen at once, checks them with TLC
and proves the most important results with TLAPS.

All paths below are relative to `src/apps/api/src` unless they start with `src/`.

## 1. Inventory

| Component | State | Operations | Talks to | Module |
|---|---|---|---|---|
| Call router `routing/call-engine.service.ts` | `callstate:<id>` and `leg:<id>` in Redis, row `Call` | `onInbound`, `onSpeakEnded`, `onGathered`, `onAnswered`, `onHangup`, `onRecordingSaved`; inside `dialNext`, `connect`, `finalize` | carrier commands and events, caps, agents, wallet, postbacks | `CallEngine` |
| Call lock `withLock` (same file) | `lock:call:<id>`, token, 15 s expiry | take, wait up to 10 s, release | every handler | `CallLock` |
| Repeat callers (same file), spam `routing/spam.service.ts` | the caller's other rows, blocklists | `screen`, `seen`, `connect`, `finalize`, `afterCall` | the router | `Callers` |
| Caps `routing/caps.service.ts` | `cap:<scope>:live`, `:h:`, `:d:`, `:m:` counters | `reserve`, `releaseAll`, `releaseConcurrency` (Lua scripts) | the router | `CallEngine` |
| Agents `routing/agents.service.ts`, `routing/agents.controller.ts`, the softphone in `src/apps/web` | presence keys with a TTL, hash `agent:legs:<target>`, the browser's tabs | `setOnline`, heartbeats, `trackLeg`, `markActive`, `dropLeg` | the router, the agents' portal | `Presence`, `CallEngine` |
| Menu `routing/ivr.ts` | node, retries, steps in the call state | validation; the engine walks it | the router | `Menu` |
| Rules `routing/rules.ts` | none | `isOpen`, `geoAllows`, `orderByPriorityAndWeight`; `orderForRepeat` in the engine | the router | `Rules` |
| Carriers driven by documents `routing/voice-webhook.controller.ts`, `telephony/markup/*` | a conference room per call, documents kept for a leg | hooks answered with documents, REST commands | the router | `Rooms`, `Wire` |
| Carriers driven by commands `routing/telnyx*.ts`, `telephony/custom.carrier.ts` | legs at the carrier | answer, speak, gather, dial, bridge, hangup, reject; events in any order, also twice | the router | `CallEngine`, `Wire` |
| Carrier accounts `telephony/providers.service.ts`, `admin/providers.controller.ts` | rows `Provider`, a list cached per server, quotes | `forNewNumber`, `byId`, create, update, remove, make default | numbers, the router | `Carriers` |
| Recordings `routing/recordings.service.ts`, `calls/recordings.controller.ts` | files, `Call.recordingUrl`, `lock:recordings:purge` | store, delete, hourly purge | the router, storage | `Recordings` |
| Wallet `billing/wallet.service.ts` | `Tenant.walletBalance`, table `Transaction` | `debit`, `charge`, `credit` | engine, numbers, billing | `Wallet` |
| Billing `billing/billing.service.ts` | tenant status, `billingRenewsAt`, `lock:billing:renewals` | `creditTopup`, `runRenewals`, `renew`, `changePlan` | wallet, notifications | `Billing` |
| Notifications `notifications/notifications.service.ts` | `lowBalanceNotifiedAt` | `checkLowBalance` | mail | `Billing` |
| Numbers `numbers/numbers.service.ts` | rows `PhoneNumber`, quotes | `search`, `purchase`, `list`/`refreshPending`, `release` | wallet, the carrier's numbers API | `Numbers`, `Carriers` |
| Administration `admin/*.ts` | tenant rows | suspend, reopen, close, move numbers, users, domains | all of these | in the modules of what it changes |
| Sign-in `auth/*`, `common/auth.guard.ts` | `User.tokenVersion`, `AuthToken`, signed sessions | links, login, 2FA, password changes, support sessions | every request | `SignIn` |
| Portals `common/tenant.middleware.ts`, `common/auth.guard.ts`, `tenantDb` of `src/packages/db` | hosts and status of accounts | which customer's rows a request reaches | every request | `Portals` |
| Campaigns and partners `campaigns/*` | buyers, targets, routes | create, move, delete, with cascades | the router's candidates, who sees a call | `Partners` |
| Calls and reports `calls/*` | rows `Call`, a shared answer in Redis | list, export, live board, reports | partners' logins | `CallRows`, `LiveBoard`, `Reports` |
| Postbacks `routing/postback.service.ts` | row `Postback`, BullMQ jobs | `send`, `retry`, `deliver` | the router, publishers | `Postbacks` |
| Simulator, team CRUD, mail, settings, web portal | | CRUD, HTTP, user interface | | none, section 5 |

What makes the system hard, and what would make each part right:

* **Router and caps.**  Carrier events of one call come in any order and are serialised
  by a lock; calls of many callers share counters without one.  A dial counts in up to
  three scopes, one script each, and gives them back on every way out: full scope,
  refused dial, no answer, caller gone, end of the call.  Right means: the counters are
  exact, caps hold, nobody's phone keeps ringing, each call ends and is billed once.
* **Failing half-way.**  A handler writes Redis, the database and the carrier in turn;
  `withLock` logs an exception and the webhook still answers 200, so nothing is retried.
* **Lock.**  It expires while its handler may still run, and a waiter gives up.  Right
  means: two handlers are inside together only when one has outstayed the expiry, an event
  is lost only when the lock was busy all the time, and the lock always comes back.
* **Rooms.**  A carrier driven by documents asks and waits; a leg may be alone in a room
  that nobody will join.  Right means: it does not stay there.
* **Calls of one caller** share no lock, only rows.  Right means: the publisher is paid
  once, a blocked caller does not get through, the rate limit holds.
* **Numbers.**  Claim and charge are one transaction, the order is outside of it; pending
  orders are refreshed by whoever lists the numbers.  Right means: one owner per number,
  a failed order is refunded, a number we pay for is somebody's.
* **Carrier accounts.**  Every server keeps its own list for a while.  Right means: an
  account that is turned off is soon used by nobody.
* **Billing.**  Renewals run on a list read earlier, top-ups renew on their own.  Right
  means: each month is charged once, a session is credited once, an administrator's
  suspension stays.
* **Sign-in.**  Links are clicked twice, sessions are signed from rows read earlier.
  Right means: a link works once, what ends all sessions ends those too.
* **What is shown.**  Rows, targets and owners change while pages, cached answers and
  reports are made from them.  Right means: everybody sees their own calls and money, and
  a report adds up.
* **Presence, recordings, postbacks.**  Heartbeats get lost, files and rows are written
  one after the other, tries overlap.  Right means: an agent is Available exactly while
  a tab says so, a deleted recording is gone and a kept one is not, a publisher is told.

The full list of hazards, each at its line, is in `PROJECT.json`.

## 2. Modules

| Module | What it is |
|---|---|
| `Switchboard` | Abstract specification: what the router promises, without legs, events, lock or counters |
| `CallEngine` | The router with the caps, the softphone list and the carrier |
| `CallEngineFaults` | `CallEngine` with handlers that fail half-way |
| `CallLock` | The lock of a call: token, expiry, deadline, the two commands of its release |
| `Rooms` | A call on a carrier driven by documents: hooks, documents, REST commands, rooms |
| `Wire` | The carriers' documents, events and answers to orders against what they mean |
| `Menu` | A caller's way through any phone menu |
| `Rules` | The candidates of a call against a reference: hours, states, priority, weight, repeat callers |
| `Presence` | An agent's presence key, heartbeats and browser tabs |
| `Recordings` | Files and rows of recordings, the purge |
| `Callers` | Overlapping calls of one caller: screening, repeats, who pays, automatic block |
| `Partners` | Buyers, targets and routes that change under calls, and who is shown a call |
| `CallRows` | The rows of calls as they go on, and what each role is shown of them |
| `LiveBoard`, `Reports` | The live board's shared answers; a report from its queries to its charts (both on `CallRows`) |
| `Postbacks` | A publisher is told: row, jobs, tries, stopping servers |
| `Wallet` | The prepaid wallet: `Debit`, `Charge`, `Credit` |
| `Numbers` | Buying, activating, moving and releasing numbers |
| `Carriers` | Carrier accounts, their cached lists, searches and quotes |
| `SignIn` | A user's links, sessions, 2FA and the events that end sessions |
| `Portals` | Portal, guard and `tenantDb` of a request, and custom domains |
| `Billing` | Payments, renewals, the status of accounts, the low-balance alert |
| `Services` | Composition: `CallLock`, `Rooms`, `Menu`, `Presence`, `Recordings`, `Wire` |
| `Platform` | Composition: `Numbers`, `Carriers`, `SignIn`, `Rules`, `Portals` |
| `Charges` | Composition: `Billing`, `Callers`, `Partners`, `LiveBoard`, `Reports`, `Postbacks` |
| `CallEngineTypes`, `CallEngineProofs`, `CallStateProofs`, `SwitchboardProofs` | Proofs (TLAPS) about the router: types and counters; legs, softphones, periods; bills and the refinement |
| `NumbersProofs`, `PlatformProofs`, `ChargesProofs`, `ServicesProofs` | Proofs about `Numbers`, and about the parts of each composition |
| `MCCallEngine`, `MCCaps`, `MCFaults` | Instances of the router for TLC; the others need none, their configurations give every constant a value |

The three compositions put together parts that share no state with each other: the
variable `scene` says which part moves, the others rest in their initial states, so a run
explores the sum of the parts and not their product.  What the parts do share in the code
(a call's row, the wallet) is in one module wherever a property depends on it:
`CallEngine` has router, caps, softphone and carrier together, `Numbers` and `Billing`
each have the wallet, `Partners`, `LiveBoard` and `Reports` have the rows calls write.

### CallEngine and the code

`db[c]` is the `CallState` in Redis and `mem[c]` the copy a running handler works on.
`pc[c]` says where the handler that holds `lock:call:<c>` stands:

| `pc` | Code |
|---|---|
| `new` → `setup` / `rejected` | `onInbound` up to the lock: `Admit`, `Reject` |
| `setup` | the first commands under the lock: `Answer`, `AnswerFails` |
| `idle` | the lock is free |
| `next`, `reserve`, `rollback`, `dialed` | the loop of `dialNext`: `NextCandidate`, `Reserve`, `Rollback`, `Dial`/`DialFails`, `DialFallback`, `SaveDial`, `NobodyTakesIt` |
| `retry`, `end` | `releaseReservation`, one scope a step (`ReleaseAll`), then the next buyer (`Retry`) or the hangup of the buyer's leg (`HangUpBuyer`) |
| `save`, `account`, `leave` | `finalize`: `SaveEnd`, then the account's line (`FreeAccount`) and the softphone (`LeaveSoftphone`) |
| `free` | `Free` each of the buyer's lines, then the transaction (`Bill`) |

One step is one script on a counter, one carrier command whose outcome matters, or one
save; what a handler does between two of these that nobody else reads or writes belongs
to the same step.  A handler without such an await in the middle is one action
(`GreetingSpoken`, `IvrGoto`, `Answered`, `BuyerLeaves`, ...).  Events wait in a set and
are handled in any order; those of the calls in `Redelivery` may be delivered again at any
time, and those of the calls in `Impatient` may be given up while a handler holds the lock
(`LockTimesOut`: `withLock` throws after ten seconds, the webhook is answered all the same);
`lost` remembers whose caller's hangup was given up.  An event whose leg has no key yet, or
whose call has no state, is dropped (`Ignore`), as in `withState`.

Deliberate abstractions: the order and eligibility of candidates are the constant
`Plans` (any list of candidates with any scopes); a menu's outcome is a free choice among
another node, any subset of the remaining candidates, and goodbye; one kind of period
stands for hour, day and month; amounts and timestamps are left out.  `answer`, `dial`
and `bridge` may fail at any time; `speak` and `gather` report back unless their leg has
gone.  The lock is mutual exclusion here; what its expiry and its deadline do is in
`CallLock`, and that no handler of `CallEngine` outstays the expiry is this module's
assumption.

### Numbers and Billing and the code

Both modules have requests that interleave: `req[q]` (`run[p]` in `Billing`) is the await a
request stands at and what it remembers, in particular rows as they were when it read
them.  A database transaction is one step; a wallet is locked by its update until the
transaction ends, so `Wallet`'s operations are atomic.

| `Numbers` | Code (`numbers/numbers.service.ts`) |
|---|---|
| `Buy` → `Claim`/`ClaimFails` → `Order`/`OrderRefused`/`OrderAnswerLost` → `Save`/`SaveFailed` | `purchase`: checks, transaction, carrier, `applyResult` |
| `List` → `Check`/`CheckFails` → `Save`/`SaveFailed` | `list`, `refreshPending`, `applyResult` |
| `Release` → `CarrierReleases`/`ReleaseFails` → `Drop`/`DropFails` | `release`, also for the administrator and the closing of an account |
| `Move`, `AddExisting` | `admin/customers.controller.ts` |
| `Sellable`, `OrderStatus`, `OrderSettles` | the carrier, as the code uses it |

A purchase may start for any number at any time: its quote lives for 15 minutes, in which
anything may happen to the number.  `list` refreshes all pending rows at once; here every
row is a request of its own.  Labels and links are left out, the search is in `Carriers`.

| `Billing` | Code (`billing/billing.service.ts`) |
|---|---|
| `RunRenewals` → `List` → ... → `Unlock`, `LockExpires` | `runRenewals` and its lock |
| `Renewed`, or `CannotPay` → `Suspend` | `renew` for the row at hand |
| `ReadBalance` → `Alert` | `checkLowBalance` of `notifications/` |
| `Pay` → `Recheck` → as a renewal | `creditTopup` |
| `CallEnds` | the charge in `finalize` of the router, then `checkLowBalance` |
| `AdminSuspends`, `AdminActivates`, `AdminGrantsTrial`, `Close` | `admin/customers.controller.ts` |

`renew` reads the plan and the numbers right before its transaction; their price is the
constant `Fee`.  Setting missing dates and reading the due accounts are three statements in a
row and one step here; so are the administrator's read and write.  Failures of the database
in the middle of a request are `Crash`, except that a request that throws gives the
renewals' lock back and a server that stops does not (only the second is modelled).

### The other modules and the code

| Module | Actions | Code |
|---|---|---|
| `CallLock` | `Deliver`, `Take`, `GiveUp`, `Return`, `Compare` → `Delete`, `Stop`, `LockTick` | `withLock`: `SET NX PX`, the polling loop, the handler, `finally` with its get and del; a process that stops; Redis' clock |
| `Rooms` | `Receive`/`PromptEnds`/`HangsUp` (carrier), `Handle` = `OnInbound`, `OnSpeakEnded`, `OnGathered`, `OnAnswered`, `OnHangup`, `Dial` → `Linked`, `Fetch`, `LockTimeout` | hooks of `voice-webhook.controller.ts`, `capture` and the REST commands of `markup.call-control.ts`, the engine's handlers as a leg sees them |
| `Wire` | `Translate` of a document, an event, an order | `render`, `parse` of `dialects.ts`, the two command carriers' webhooks, `MarkupNumbers` and the Telnyx order |
| `Menu` | `AfterGreeting`, `Said`, `GoodKey`, `WrongKey` | `runIvrNode`, `ivrAction`, `onGathered` of the engine, `validateIvr` as the shape of flows |
| `Rules` | `Gather` → `Pick` → `OrderForRepeat` | the filter chain of `onInbound`, `orderByPriorityAndWeight`, `orderForRepeat` |
| `Presence` | `OpenTab`, `Poll` → `Show`, `Beat`/`BeatFails`, `SetStatus`, `CloseTab`, `PresenceTick` | `agents.controller.ts`, `setOnline`, the effects of `softphone.tsx`, the key's TTL |
| `Recordings` | `Store` → `LinkFile`/`NotSaved`, `Remove`, `Purge` → `Find` → `RemoveFile` → `Clear` → `Unlock`, `StorageFails`, `StopServer`, `PurgeLockExpires` | `recordings.service.ts`, `recordings.controller.ts` |
| `Callers` | `Inbound` → `Screen` → `History` → `Connect` → `Finalize` → `AfterCall` | `onInbound`, `screen`, `connect`, `finalize`, `afterCall`: one query or transaction a step |
| `Partners` | `MoveTarget` → `MoveRoutes`, `AskRoute` → `CreateRoute`, `RemoveRoute`, `DeleteTarget`, `DeleteBuyer`; `CallArrives`, `DialLine`, `DialFallback`, `LineAnswers` | `partners.controller.ts`, `campaigns.controller.ts`, `schema.prisma`'s cascades; the row as `dialNext` writes it; `scope` |
| `CallRows` | `ComesIn`, `Rings`, `Connects`, `Finishes` | the engine's writes of the row `Call`; `scope`, `filterWhere`, `present`, `CDR_COLUMNS` |
| `LiveBoard` | `Hit`, or `Miss` → `Query` → `Keep` | `live` |
| `Reports` | `Ask` of four queries at once, `Draw` of two charts at once, `Group`, `GroupConverted`; `Meanwhile` | `build`, `daily`, `hourly` |
| `Postbacks` | `CreateRow` → `AddJob`, `RetryByHand`; `TakeJob` → `CallPublisher` → `Update`, `DelivererStops` | `send`, `retry`, `deliver`, BullMQ as it is used |
| `Carriers` | `Read` → `Fill`, `Search` → `Quote`, `Purchase`, `SaveAccount` → `MakeDefault`, `RemoveAccount`, `Invalidate` | `ProvidersService`, `providers.controller.ts`, `search` and the seller of `purchase` |
| `SignIn` | `AskLink` → `IssueVoid` → `IssueCreate`, `Click` → `Consume` → `ResetPassword`/`AcceptInvite`, `Login`, `VerifyTwofaLogin`, `Sign`, `ChangeRead` → `ChangeWrite`, `DisableUser`, `LogoutUser`, ... | `tokens.service.ts`, `auth.service.ts`, the user actions of `customers.controller.ts`, the guard |
| `Portals` | `Arrive` → `Enter` → `Query` → `Leave`; `AskDomain` → `SetDomain`, `AskRecords` → `VerifyDomain`, `RemoveDomain`, `SetStatus` | `TenantMiddleware`, `AuthGuard`, `tenantDb`; `admin.controller.ts` |

Everywhere a step is one statement, script or outside call that others can come between;
a chain of arrows is one request, and what it remembers between two steps is in its state.

## 3. Runs

| Run | Instance | Checks |
|---|---|---|
| `engine` | two calls, two campaigns; one has notice, menu, whisper, agent and fallback, the other two candidates, the second of which is the same agent; buyer and agent cap 1, route r1 one per period | `TypeOK`, `TalkingWithinCap`, `NoStrayBuyerLeg`, `SoftphoneExact`, refinement of `Switchboard` (`ImplementsSwitchboard`) |
| `caps` | two calls of one campaign, buyer cap 1 at a time and 1 per period, account limit 1, two periods, one call's webhooks possibly repeated and the other's possibly given up, fairness | `CountersExact`, `PeriodCapsKept`, `AccountWithinLimit`, `BilledOnce`, `CallerGoneIsBilled` |
| `platform` | `Platform`: numbers, carrier accounts, sign-in, rules, portals | `OneOwner`, `FailedIffRefunded`, `HeldIsLive`, `PendingSettles`; `TurnedOffIsUnused`; `LinksWorkOnce`, `SessionsEnd`; `RoutesAsConfigured`; `TenantsApart` |
| `services` | `Services`: lock, rooms, menu, presence, recordings, wire | `LockExclusive`, `LostOnlyWhenBusy`, `LockComesBack`; `NobodyLeftAlone`; `MenuEnds`; `PresenceFollowsTabs`; `DeletedIsGone`, `RetentionIsKept`; `CarriersAgree` |
| `billing` | `Charges`: billing, callers, partners, live board, reports, postbacks | `MoneyAccounted`, `ChargedWhenDue`, `AlertedOnce`, `DueIsHandled`; `WithinCallerRate`, `PublisherPaidOnce`, `SequentialCallsSellOnce`, `ShortCallersBlocked`; `PartnersSeeTheirs`; `LiveIsTheirs`; `ReportsAddUp`; `PublisherIsTold` |
| `early_hangup` | as `caps`, no redelivery | `DeadCallHoldsNoLine`, violated |
| `dead_air` | as `caps`, no redelivery | `NoDeadAir`, violated |
| `faults` | three calls, one buyer with cap 1, one failing handler | `ConversationsWithinCap`, violated |
| `refunds` | `Numbers` as in `platform` | `RefundedOnce`, violated |
| `suspension` | `Billing`, one account, one server, one status change | `AdminSuspensionStays`, violated |
| `reactivation` | `Billing`, one account, one server, two requests | `PayerIsReactivated`, violated |
| `repeat` | `Callers`, two calls, one owner | `BuyerPaysOnce`, violated |

**Bounds of the router.**  Two calls are enough for every race on a counter because a step
touches one counter and one call; a third call is needed only where a counter that is off
by one has to hurt somebody (`faults`).  Two candidates exercise the loop, its rollback and
the retry; with the fallback a call rings up to three legs.  Two periods let a dial be
counted before a boundary and given back after it.  `Redelivery` and `Impatient` are
checked on the smaller instance (`caps`), one for each of its two calls; the theorems are
about any sets.
`LastPeriod`, `MaxCands`, `MaxFailures` and the two sets are the router's only bounds.

**Bounds of the other parts.**

| Part | Instance | Why it is enough |
|---|---|---|
| Numbers | two customers with the price of one number each, one number, two requests, two rows, one stop, limit 1 | a number can be sold, fail or be released, and be sold again to the other customer while answers to the first order are under way; two requests give every pair of operations |
| Billing | one account, two servers, one other request, one payment, a call, one status change or one stop, one month; the lock expires any number of times | no step touches two accounts; a renewal by either server and one by a payment, and a second round of the timer; the clock moves only when no request is under way, because a month is longer than any of them |
| Callers | three calls, two owners, windows of one unit, rate limit 2, two short calls block, clock up to 2 | one call more than either limit; two overlapping calls before or after a third |
| Partners | two buyers, one target (an agent's), two routes, two requests of staff, one call | a target moves in two statements while it is routed, deleted and dialed; candidates of both kinds |
| Live board | two pages of any logins, an answer kept for 2 units, a query of up to 1 | an answer is shared, put late and overwritten |
| Reports | two calls, local days of 8, 7 and 9 units of three hours, strides of 2, ranges cut at 16 (`MaxSpan`) or 4 (`ShortSpan`), one change meanwhile | every edge of a day, both changes of the clocks, calls before the cut; every role, filter and money |
| Postbacks | two deliverers, three tries, one retry by hand, two stops of which a job may survive one (`MaxStalled`, the queue's default) | tries of one job overlap (a job taken up again) and with the retry; a job stalls once too often |
| Lock | three handlers, expiry 3, deadline 2 | the one inside, the one that gets in after the expiry, and the one that would get in by a wrong release |
| Rooms | two buyers (the first with a whisper), three kinds of carrier, which stand for five, one repeated request | the second buyer is dialed while the first one's requests are still on their way |
| Menu | two nodes of any kind, one retry, 4 steps | every cycle through two nodes meets the limit |
| Presence | two tabs, units of 5 s: 45 s and 20 s | one tab's silence against the other's heartbeats |
| Recordings | two recordings, two servers, batches of one, one failure of the storage | two purges meet after the lock's expiry, and in two batches |
| Wire | documents of up to three verbs, every event of a leg, every order's truth in words that are known or not | an effect depends on the one before it at most; longer documents are proved |
| Carrier accounts | one server, an administrator there or on another server, two accounts, a list kept for 2 units, a quote for 1, a query of up to 1 | a list outlives the change, a query in flight outlives the invalidation, a quote outlives both |
| Sign-in | two requests, two links, one session, version up to 1 | each pair of requests, a link and the one that voids it, a session of before and after |
| Rules | one route with every range of hours of three days and three times; one with every filter; three of every owner, priority and weight | ranges past midnight and past the end of the week; ties and zero weights among three |
| Portals | two customers, one custom domain, one row, one request, one errand of the administrator | the row, the host and the status change between each two steps of the request |

`MaxRows`, `MaxCrashes`, `MaxTopUps`, `MaxCalls`, `MaxChanges`, `MaxUpsets`, `Months`, `MaxTime`,
`MaxMoves`, `MaxRetries`, `MaxStops`, `MaxRepeats`, `MaxFailures`, `MaxSessions`, `MaxVer`,
`NCalls`, `NRoutes` and `NLinks` bound what would grow for ever; all are in guards.

**Deadlock** is not checked: when all calls have ended and all events are delivered, the
router has nothing to do; the other modules stop when their bounds are used up.

**Fairness of the router** (only `CallerGoneIsBilled` needs it).  `WF(Handler(c))`: a running
handler goes on, because every carrier command, Redis call and transaction returns or
throws.  `WF(CallerLeaves(c))`: a hangup event that still waits when the lock is free is
handled; the lock is polled every 20 ms and is free infinitely long once no other event of
the call is left.  That it waits so long is not assumed: `LockTimesOut` may give it up as
long as a handler holds the lock, and `CallerGoneIsBilled` then promises nothing.  Nothing
is assumed about buyers, callers or the carrier's other events.

**Fairness of `Platform`** (`PendingSettles`).  `WF(Running)`: every await returns or throws.
`WF(OrderSettles)`: carriers settle their orders.  `SF` of `List`, per row: somebody opens the
list of numbers again and again, which is what the code relies on (there is no timer);
`SF(Check)`: the carrier's answer is not lost every time.  Customers, administrators and the
other parts have none.

**Fairness of `Charges`** (`DueIsHandled`, `PublisherIsTold`).  `WF` of `RunRenewals` by some
server: the timer of every server fires each ten minutes.  `WF(LockExpires)`: Redis drops a key when
its time is over, which may be while its holder still runs.  `WF(Running)` as above.
`WF(Delivers(d))`: the queue's worker takes jobs, its call ends (10 s at most) and the row is
written; the queue gives a stopped worker's job to another, or fails it when it has stalled more
often than `MaxStalled`.  That a postback is created, or that a server does not stop between the row
and its job, is not assumed: the property starts with a job that waits.

**Fairness of `Services`.**  `WF(LockTick)`: time passes, so the key of a stopped handler expires.
`WF(Take or GiveUp)` per waiting handler: it polls the lock and its deadline comes.  `WF(InMenu)`:
a prompt ends and a caller's keys, or their absence, are reported.  `WF(PresenceTick)`: time.
`WF(WorkerStep)`, `WF(Purge)`, `WF(PurgeLockExpires)`: a server goes on with what it does, the hourly
timer fires, Redis drops the lock; the storage does not refuse for ever (`MaxFailures`).
`Rooms`: a dial returns (`Linked`), and for each leg the carrier's requests are handled
(`Requested`) and what is on its way to it is carried out (`Answered`); nobody has to hang up,
answer or press a key.

Each condition holds in its own scene only; elsewhere it would be a condition on steps that
never happen, and is left out.

**What the violated runs show.**  They are listed as findings in `PROJECT.json`:

* `early_hangup`: when answering or the recording notice throws, the state was never
  saved (a menu's state is saved before its first prompt), the caller's hangup finds nothing,
  and the account's line stays counted.
* `dead_air`: a buyer's hangup between `cc.dial` (l. 533) and the key of the leg (l. 556)
  is dropped; the caller waits for a buyer who is gone.
* `faults`: a handler that fails between giving a reservation back and saving the call
  leaves a state that gives it back again; the cap is exceeded afterwards.
* `refunds`: two requests list the numbers while an order fails; `applyResult` refunds without
  a look at the row's status, so the first month comes back twice.
* `suspension`: `renew` sets an account active from a row read earlier (l. 173); a suspension
  or closing by the administrator in between is undone, and the month charged.
* `reactivation`: a payment between the failed charge of a renewal and the suspension (l. 178)
  finds the account not yet suspended; it stays suspended with money in its wallet.
* `repeat`: the owners that had a caller are read when a call comes in (l. 232 of the router)
  and compared when it ends (l. 625); a caller who calls twice at once is sold to the same
  buyer twice.  The publisher is paid once all the same.

## 4. Proofs

`tlapm` checks every step.  Nothing is assumed but what the modules state of their constants:

* the counts, prices, limits, windows and lifetimes are natural numbers, and positive where the
  code has a positive constant or a check (`NumbersAssumption`, `BillingAssumption`,
  `SignInAssumption`, `CarriersAssumption`, `CallersAssumption`, `LockAssumption`,
  `RecordingsAssumption`, `RowsAssumption`, `LiveAssumption`, `PostbacksAssumption`,
  `RoomsAssumption`, `WireAssumption`, part of `MenuAssumption`); a threshold may be any integer;
* a call has finitely many events, a report is of finitely many calls, finitely many workers
  deliver (parts of `LockAssumption`, `RowsAssumption`, `PostbacksAssumption`);
* time: a local day is at least as long as a stride of the chart (`ReportsAssumption`: 23 h and 6 h
  in the code), and two heartbeats fit into the presence key's life (`PresenceAssumption`: 20 s
  and 45 s);
* sets of different kinds do not meet, and a word for "none" is no member of the set it is
  used beside (`FreeAssumption`, `NobodyAssumption`, `IdsAssumption`, `PartnersAssumption`,
  `PortalsAssumption`, parts of `BillingAssumption` and `MenuAssumption`): ids in the code are random
  and distinct, and an action of a menu has a type beside its node;
* `ConstantsAssumption` of `CallEngine`: a finite set of calls, caps that are natural numbers,
  plans of the stated shape and length;
* `WeekAssumption` and `CallsAssumption` of `Rules`: a schedule has the shape `validateSchedule`
  lets pass, a state filter that of `validateGeoRules`, and a call a day and a time that
  `localTime` returns.

TLC evaluates all of them in the runs.  The theorems hold for any number of calls, scopes,
agents, candidates, periods, customers, rows, requests, handlers, links, sessions, servers,
accounts, routes, pages, recordings, tabs, nodes of a menu and verbs of a document.

**The router** (`CallEngineTypes`, `CallEngineProofs`, `CallStateProofs`, `SwitchboardProofs`).

* `TypeCorrect`: `Spec => []TypeOK`.  One lemma per group of actions.
* `Handlers`: `Spec => []HandlersConsistent`, with `TypeOK`.  `StepIsLocal` says that a
  step of one call leaves the others' handlers alone (the call's own `pc`, `db`, `mem`,
  `taken`, `line`, `now`), so one call's consistency has to be shown for its own steps only.
* `LiveCountersExact`: `CountersExact` is not inductive by itself: that a release gives back
  something the call holds follows from where its handler stands, which is what
  `HandlersConsistent` says.  Every step of a call either keeps the set of scopes it counts
  in and the counters (`Keeps`), or takes one scope and increments its counter (`Takes`), or
  gives one back and decrements it (`Gives`); the cardinality of the holders follows.
* `CapsRespected` and `AccountLimitRespected`: a counter is only incremented below its cap,
  so `live[s] <= Cap[s]` is invariant (`WithinCap`); with exact counters at most `Cap[s]` calls
  hold `s`, and a call that talks (`TalkersHold`) or is in progress (`InProgressHold`) holds
  its scopes.
* `OneBuyerLeg` and `SoftphonesRight` follow from `AllTold`: the legs a call has had end where
  its state says (no candidate it has not come to has one, none is left of those it gave up,
  and a hangup event means the leg is down), and an agent's list names exactly the buyer's
  leg of the state, from the moment it is saved until it is dropped.  Most steps are `Calm`:
  they leave the dial as it is, and legs only end.
* `PeriodCapsRespected`: the scheme of `LiveCountersExact` for the counters of periods
  (`UseStays`, `UseGrows`, `UseShrinks`), with `AllTold`, since what is given back late has to
  go to the period of the dial, also when that is over; the cap then bounds what was sold.
* `ChargedOnce`: `Books` says that what the database shows of a call, and whether it was
  charged, can be read off `db[c]` and `pc[c]`.
* `Refinement`: with `Books` each step of the router changes one call's stage as `Switchboard`
  allows, or nothing that `Switchboard` sees (`StepFaces`); that there is room for a call that
  comes in or is connected follows from the exact counters (`RoomFor`, `RoomBeside`).

**Numbers** (`NumbersProofs`).

* `NumbersTyped` and `NumberHasOneOwner`: `OneOwner` with `TypeOK` and `RowsExist` (a request
  remembers rows that exist) is inductive.  Every step leaves the rows alone, appends a row
  for a number that is not taken (`NewRow`), or changes one row so that it stays as live as it
  was or comes to life while nobody has its number (`ChangedRow`), which is what the unique
  index and its catch blocks are for.
* `FailedIsRefunded` and `PaidIsHeld` follow from `Fine`: what each status of a row means for
  its order (`RowsRight`), and what a request may rely on while it runs (`RequestsRight`).  A
  purchase has its row to itself until it has saved the carrier's answer (`First`); from then
  on answers may be old when they are applied, but they stay true.

**Money and what is shown of it** (`ChargesProofs`).

* `BillingTyped`, `LedgerExplains` and `AlertIsOnce`: `WalletInv` has the ledger and that alerts
  are counted exactly while a tenant is marked as notified.
* `TimerIsRight`: `ChargedWhenDue` is about one row in the hands of a server, but its proof is
  about all rows on all lists (`ListsInv`): one server has a list (`Mutex`), an account is on
  it once, what a list says was so when it was read, and while the administrator leaves it
  alone an account on a server's list is due and one on a payment's is not, so neither
  spoils the list of the other.  The lock may expire under a run that takes longer than its 300 s,
  and is then deleted by it though another server has taken it: from there until the requests that
  overlap are done (`overran`) nothing is promised, as the code promises nothing, and from the
  first run after that all of it holds again (`StillRenewing`).
* `PublisherIsPaidOnce` and `SequentialCallsAreSoldOnce`: neither is inductive.  `CallersInv` adds
  `Apart` (of two calls of a window the one that asks for the others later finds the row of the
  other, which was written before that one asked, so at most one of them is no repeat) and
  `Remembers` (the buyer of a call that was sold before another came in stays in `seen` of the
  later one until it ends).
* `RateIsKept` and `ShortCallersAreBlocked` (`LimitsInv`): each call writes its row before it counts,
  so the last to count finds all the others.
* `PartnersSee`: `PartnersInv` says that a row names whoever was rung last, as far as that
  route and buyer are still there (`Named`), and nobody who was never rung (`RowsSent`); routes
  that stand lead to what is there (`Standing`, which the cascades keep).
* `BoardIsTheirs`: an answer is kept under a key that only users who see the same have
  (`KeptWell`), and its age and the time it has left never exceed what a query takes and an
  answer lives.
* `ReportsAreRight`: a sum is defined without recursion, as a number of coins (pairs of a row and
  one of its coins; gains less losses), so that sums of disjoint sets add up by the cardinality
  of a union.  What is left to show is that every call of the list is in exactly one part: in one
  group and one hour by their definition, in one day because the strides of the chart start no
  later than the first call and step over no day.  The invariant says of each answer what it
  still says of rows that have changed since (their ids, when they came in) and, as long as no
  row has changed, that asking again would give the same.  The exception of `CutOff` was found
  here: the first call and the ids are asked for at the same time, so a call of which the filter
  comes to be true in between may be older than the "first" one, and is then missing from the
  chart of a long range; the run has such a call (`LateAsked`).
* `PostbacksPersist`: `NotGivenUpEarly`, the safety half of `PublisherIsTold`.  A job is in the hands
  of one deliverer (`CarriedOnce`), and the attempts of the row and the tries that the call's job has
  left are together never fewer than its tries (`TriesAreAttempts`), since others only add attempts.
  The exception is `StalledOut`: BullMQ fails a job whose workers have stopped more than
  `maxStalledCount` times, tries left or not, and `postback.service.ts:36` leaves that at 1.

**The platform** (`PlatformProofs`).

* `LinksOnce` and `SessionsEndAlways`: `SignInInv` is type correctness with `Once` (a link is marked
  as used before it is carried out, by one request alone) and `Versions` (every token, also one
  still to be signed, has the version its row had after the last event that ended sessions
  before it was read).
* `TurnedOff`: `CarriersInv` says that what a list shows as open has been shut no longer than
  the list is old, plus the time its query may have taken; a search adds the age of its list
  and its own time, a quote its own age.  `TurnedOffIsUnused` bounds by that sum how long an
  account is used after it was turned off.
* `TenantsStayApart`: `PortalsInv` adds to `TenantsApart` that a request in its handler works for
  the portal of its user, which the guard made sure of and nothing changes afterwards; each
  operation of `tenantDb` then stays with the rows of that portal, whatever has become of the
  row, the domain and the account meanwhile.
* `OpenAsScheduled`: `isOpen` looks at today's ranges and at yesterday's; it agrees with the
  reference `Covered`, which takes the week as a circle, for any schedule, day and time.
* `RoutesAreAsConfigured`: while `orderByPriorityAndWeight` picks routes, those it has placed and
  those it has not are the ones that take the call (hours by `OpenAsScheduled`), and none is placed
  behind one that should come after it (`InOrder`).  `orderForRepeat` then moves routes only past
  those of another rank (`PreferredRank`).

**Services** (`ServicesProofs`).

* `CarriersSpeakAlike`: a document is the elements of each of its verbs, and a leg goes through the
  places of a document up to the first that ends it (`Met`).  For documents of any length, whoever
  carries them speaks at exactly the verbs that follow nothing but messages and ends up where the
  first other verb says (`Normal`), also where an NCCO has been cut off; that meaning and words
  agree is then a matter of one verb.  Events and orders go by cases: an order is taken for what it
  is when the answer is in words the adapter asks for (or is a refusal that throws); of a success in
  any other word only that a given number is kept is left, and not even that on a custom carrier.
* `MenuHoldsNobody`: `MenuIsBounded`, by which `MenuEnds` needs no more than that prompts end: a menu
  that waits for the caller has counted each prompt, and has counted no more than the limit.
* `PresenceStays`: `PresenceIsKept`.  A tab whose last heartbeat went through leaves the key the time
  of two more, one that lost a heartbeat the time of one (`Kept`), so the key cannot run out on it.
* `RoomForOneBuyer`: `OneBuyerInTheRoom`.  Whatever requests are repeated, overtaken, late or timed
  out, a room is named to a buyer (in what the leg does, a kept document or an answer on its way)
  only when the call has been connected to that buyer, and while a dial is going on it has not been
  (`RoomsInv`); a connected call is never dialed on (`Stays`).  `NobodyLeftAlone`, which the run
  checks, excepts buyers whose hangup over REST failed (`spared`): `markup.call-control.ts:68` logs
  that and goes on.
* `LockTyped` and `LockKeepsApart`: `LockExclusive` follows from `LockInv`: a handler inside that has
  not outstayed the expiry owns the key, and the key's remaining life and the time the
  handler was inside add up to the expiry; whoever is about to delete the key owns it.  Both
  as long as no key has expired between a get and its del (`raced`), which is the one gap of
  the release.
* `LostForAReason`: while no process has stopped, the key's owner is inside (`OwnerInside`), so
  each unit that brings a waiting handler closer to its deadline is one more in `BusyUnits`.
* `DeletedStaysGone`: `RecordingsInv` adds that only recordings whose event was dealt with are
  linked, deleted or in a server's hands, so no event brings one back, and that a server in
  the middle of removing files has removed those of the rows that are no longer before it.

**Parts and wholes.**  The theorems above are about a part's own specification; the runs check
the compositions.  `PlatformIsItsParts`, `ChargesAreTheirParts` and `ServicesAreTheirParts` say that
a behaviour of a composition is one of each of its parts (of `Rules` in the scene of its own, as
elsewhere no call goes on).

`Handlers`, `NumbersTyped`, `BillingTyped` and `LockTyped` are theorems only: no run checks these
invariants for their own sake (they were checked with TLC before they were proved).  `MenuIsBounded`,
`PresenceIsKept`, `OneBuyerInTheRoom` and `NotGivenUpEarly` are the first conjuncts of the properties
`MenuEnds`, `PresenceFollowsTabs`, `NobodyLeftAlone` and `PublisherIsTold` that runs check.

**Model-checked only, and why.**

* All liveness properties: `CallerGoneIsBilled`, `PendingSettles`, `DueIsHandled`, `LockComesBack`,
  `RetentionIsKept`, and the second conjuncts of `PublisherIsTold`, `NobodyLeftAlone`, `MenuEnds` and
  `PresenceFollowsTabs`.  Fairness and `ENABLED` are out of the prover's reach.

Every invariant that a run checks is a theorem.

## 5. Not modelled, and what is left

**Left out, and why.**

* The web portal (`src/apps/web`, about half of the repository's lines) is user interface; of
  it only the softphone keeps a protocol with the API, which is in `Presence`.
* CRUD: the edits of one row of a customer, campaign, publisher, team or setting read and
  write that row in one request, and nothing else depends on the order.  Mail, encryption,
  configuration, texts: I/O.
* REST paths, credentials, signatures and formats of the carriers' clients.  What the
  documents, events and answers mean is in `Wire`.
* The simulator: its events are among those `CallEngine`'s carrier may send.
* Amounts of a call's result, the scores of a number and prefixes of the spam screen, time
  zones and area codes: functions of one row, inputs of the models.

The map therefore covers the core of the API and little of the repository's lines.

**Known behaviours that the models contain and no property forbids**, because no document
of the repository says otherwise, or that were met while reading:

* Calls in progress have `durationSec` 0 (`src/packages/db/prisma/schema.prisma:422`) and count
  as short for the automatic block (`routing/spam.service.ts:86`).
* A retried or late attempt that fails writes `succeededAt: null` over a success
  (`routing/postback.service.ts:80`); a server that stops between the row and `queue.add`
  leaves a postback without a job, until somebody presses "retry".
* The chart by day of a long range starts at the first call, asked for at the same time as the
  list: a call that comes to match the filter in between is not drawn if it is older
  (`calls/reports.controller.ts:129`, 135).
* The count of converted calls overwrites the filter "not converted" (`calls/reports.controller.ts:126`,
  148).  A target filter of an agent's list replaces the scope of the login
  (`calls/calls.controller.ts:114`).
* A quote sells numbers of an account that is `DRAINING` for up to 15 minutes
  (`schema.prisma:535`).  Two administrators may leave an inactive default; two servers that
  start with an empty table make two defaults (`seedFromEnv`).
* A route that is added while its target moves keeps the old buyer
  (`campaigns/partners.controller.ts:226` to 234); a route removed during a call makes the write
  of the row fail, which keeps the previous candidate (`routing/call-engine.service.ts:558`).
* A repeated or early answer request of a document carrier hangs up a buyer the caller waits
  for (`routing/voice-webhook.controller.ts:82`).
* `verifyDomain` marks the domain an account has when the records are known, which may be
  another one than the one that was asked (`admin/admin.controller.ts:169` to 176).
* A reopened tab sends its first heartbeat 20 s later, perhaps after the key is gone.
* A file that was stored but not linked when its server stopped is in no row and is never
  purged.
* Two administrators who demote each other at once leave a team without one
  (`team/team.controller.ts:154`).
* Vonage and Telnyx orders take two requests; when the second fails the purchase is refunded
  though the number was given.  A pending Plivo order that is asked about again counts as active.
* A successful answer to an order whose status word is not known counts as active on Plivo
  (`telephony/markup/dialects.ts:285`) and Telnyx (`telephony/telnyx.provider.ts:80`), and as
  failed on a custom carrier, whatever the carrier meant.
* The renewals' lock expires after 300 s under a run that still goes on, and that run then deletes
  the lock of another (`billing/billing.service.ts:129`, 153): an account may be charged for the
  month after the one that is due, or suspended in the month it has paid, against "Safe to run
  from several servers" (line 127).  `ChargedWhenDue` excepts it by `overran`.
* A postback's job that was on two servers when they stopped is failed with tries left.
* A hangup that waits for the call's lock longer than ten seconds is lost
  (`routing/call-engine.service.ts:729`); if it was the caller's, the call is never ended nor
  billed (`lost` in `CallEngine`).
* A hangup over REST that fails is logged and not tried again
  (`telephony/markup/markup.call-control.ts:68`): its buyer may stay alone in the room.
* A challenge for the second factor (5 minutes) and a handoff token (2 minutes) carry no version:
  obtained with the old password, they still open a session after it was changed
  (`auth/auth.service.ts:109`, 134).  Sessions that were open before are ended (`SessionsEnd`).
* A number that is moved to another customer while it is being released is given back to the
  carrier, and stays in the other customer's list: the update of line 210 finds no row of the
  first customer and throws (`numbers/numbers.service.ts:205` to 213).
* `maxNumbers` is counted before the claim (`numbers/numbers.service.ts:109`), and a late answer
  makes a released number active again (line 242).

**What is left**: in `CallEngineFaults` legs of a dial that timed out and calls that ended
unbilled; in `Billing` the second charge of two payments, a run for what a renewal longer than
its lock does, and plan changes; in `Numbers` the limit that is counted before the claim.
