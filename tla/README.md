# Limebalance: TLA+ specifications

Limebalance is a personal finance back end (NestJS, Prisma, PostgreSQL) with a
Telegram bot: incomes and expenses in categories, savings goals, subscriptions
with limits, and an investing section that mirrors a Bybit account. These
modules model the parts of it whose correctness depends on the order of several
writes, and the figures it computes from many tables. Paths below are relative
to `src/src/`; `S` stands for `modules/investing/investing-transfers.service.ts`.

## How to run

    tlc -workers 2 -config Wallet.cfg MCTransfers.tla     # any other .cfg likewise
    tlapm LedgerProofs.tla

| module | what it is | instances | proofs |
|---|---|---|---|
| `Transfers` | movements between wallet and venues, incomes, expenses, categories, tracked coins | `MCTransfers`: `Wallet`, `WalletRace`, `Coins` | `LedgerProofs` |
| `Goals` | goals, contributions, completion and its notification | `MCGoals`: `Goals` | `GoalsPlansProofs` |
| `DiaryBook` | what a trading diary promises, whatever keeps it | - | - |
| `PositionSync` | the trading diary of one symbol: sync runs, open and closed rows, notes, announcements; implements `DiaryBook` | `MCPositionSync`: `Diary`, `DiaryLive` | `PositionSyncProofs` |
| `VenueSync` | balances, baselines and movements of a connected account, and the venue that stands for it | `MCVenueSync`: `Venues` | `VenueSyncProofs` |
| `VenueRecords` | the copy of P2P orders, the records made of it, venues removed meanwhile | `MCVenueRecords`: `Records` | `RecordsProofs` |
| `Plans` | plans, subscriptions, limits counted before the write they limit | `MCPlans`: `Plans` | `GoalsPlansProofs` |
| `Accounts` | registration, confirmation, identities, sessions, purge, the administrator's writes | `MCAccounts`: `Accounts` | `AccountsBalanceProofs` |
| `Dialogue` | the bot's dialogue and the saved filters, beside categories merged and removed | `MCDialogue`: `Dialogue` | `DialogueProofs` |
| `Rates`, `Reports` | rates of a day, their capture and backfill; the totals of a period | `MCFigures`: `Figures` | `LedgerProofs` |
| `Matching` | spot and linear fills paired into the rows of the diary | `MCFigures`: `Figures` | - |
| `Balance` | free balance, goals, exchanges, venues | `MCFigures`: `Figures` | `AccountsBalanceProofs` |
| `Trades` | trades entered by hand, and the list, totals and curve of trades | `MCFigures`: `Figures` | `RecordsProofs` |
| `Null`, `Money` | constants that modules proved about or run together share: the null, the currencies | - | - |
| `Sums` | what sums over finite sets come to | - | lemmas for `LedgerProofs`, `GoalsPlansProofs`, `VenueSyncProofs`, `DialogueProofs`, `RecordsProofs`, `AccountsBalanceProofs` |

## Inventory

The process is one Node server. A request runs a handler up to its next `await`,
and every await of the database lets other requests, cron jobs and bot updates
run. State lives in PostgreSQL; the few caches in memory are named. A handler
inside `$transaction` writes all or nothing; many handlers are not inside one,
and those are the interesting ones.

| component | state | operations | what is hard | what makes it correct |
|---|---|---|---|---|
| Transfers between wallet and venues (`S`, `linked-transfers.util.ts`) | `investing_transfers` | create, update, remove, classify (takes over a duplicate, drops the old answer's transaction, records the new one), recordP2pOrders | six separate writes in classify; edits and deletions of the linked rows in between; a handler that dies halfway | the columns of a row agree with the last answer; one event kept as two rows nets to zero; the exchange's facts stay |
| Incomes, expenses (`modules/incomes`, `modules/expenses`) | `incomes`, `expenses` | create, update, remove, removeMany; summaries and statistics | an update reads before its transaction; deletions must reopen the movement; sums by several routes | the linked transfer follows; the routes agree |
| Categories (`modules/expense-categories`, `modules/income-categories`) | two tables, cascading to their rows | create, rename, remove, merge | the cascade happens in the database, past the services; presets and the dialogue name categories | no row is tied to a vanished category; after a merge nothing names it |
| Coins on venues (`investing-venues.service.ts`) | `investing_holdings`, one row per coin added | applyCoinMove, holdings by hand | several rows of one coin; stopping at zero | undoing a transfer undoes its coins |
| Venues' balances (`investing-venues.service.ts`) | venue, baseline, adjustments, live balance | ensureForAccount, refreshLiveBalance, create, rename, remove, adjustments | reads of the exchange before the write; a baseline set once; removal after counting | a result does not count money moved in as gained |
| Movements import (`investing-movements.service.ts`) | cursor per venue | sync, importSince | overlapping windows, a cursor moved per window, duplicates skipped, an account connected again | every movement once |
| P2P orders (`investing-p2p.service.ts`) | orders, when last read, auto-record switch | sync, autoRecord | throttling, two tabs at once, orders that complete later | an order recorded once, and by itself while switched on |
| Exchange sync and diary (`investing-sync.service.ts`) | positions, executions, cursors, `running` in memory | syncAll, syncAccount, syncClosedPnl, syncExecutions, rebuildSpotPositions, syncOpenPositions | windows re-read with an overlap; OPEN rows turned CLOSED and reopened; a connect that syncs beside the cron | one row per closing; notes never lost |
| Accounts, manual positions, notes (`investing.service.ts`) | exchange accounts, positions, notes | connect, remove, rename, syncNow, CRUD, list, totals, curve | removal while a sync runs; an edit that derives from what it read | a closed trade has its profit; totals are those of the list |
| Trade matching (`spot-lifo.util.ts`, `linear-fifo.util.ts`) | none, pure | computeSpotPositions, deriveLinearOpenedAt | partial fills, fills listed late | quantities are conserved |
| Closed-trade notifier | notifications by dedupe key | notifyNewlyClosed | rows re-written by the sync | each closing announced once |
| Prices, coin icons | cache, request in flight | getPrices | concurrent misses | one request in flight |
| Goals (`modules/goals`) | `goals`, `goal_contributions` | create, update, remove, contribute, updateContribution, removeContribution | the sum is read, checked and only then written | `0 <= current <= target`; completed once, announced once |
| Plans and limits (`modules/subscriptions`, `modules/admin/admin-plans`) | plans, subscriptions | getEffectivePlan, assertCanAdd..., plan CRUD, archiving | count checked before the write it limits; a plan vanishing while another administrator puts somebody on it | limits hold; every user resolves to a plan |
| Admin | users' block and plan | setBlocked, changePlan, remove | sessions of a blocked user | a blocked user has no way in |
| Authentication (`modules/auth`) | users, identities, refresh tokens, confirmation and reset tokens | register, login, refresh, logout, linking, confirm, reset, purge | token rotation twice at once; links beside each other; identities linked by several statements | a session that was logged out stays out; confirmed means proved |
| Users (`modules/users`) | users | findOrCreateByTelegramId, findOrCreateByGoogle; create, update, remove by an administrator | two first contacts at once; an address changed under what was confirmed of it | one account per identity; confirmed means proved |
| Free balance, transaction list | none, reads | getBalance, totals of a page | nets linked rows over five tables | moving money changes no total |
| Currency exchanges | `exchanges` | create, update, remove | counted twice, once in each currency | the balance keeps its worth |
| Currencies and rates (`modules/currency`) | rate table, cache | getRates, captureToday, backfill, rateOn, convertOn, resolverFor | days without a rate; a cache past its time; a job across midnight | the last rate on or before the day; closed periods keep their sums |
| Filter presets | presets | create, rename, remove, remap on merge | two presets become one on a merge | presets name existing categories, each filter once |
| Notifications, digest | notifications by dedupe key | create, sendAll | partial sending | at most once per key |
| Telegram bot (`bot/`) | dialogue step per user | callback and text routers, state.service | the step is read before the handler runs; categories deleted meanwhile | an operation is recorded as it was entered |
| Mail, configuration, Bybit client, crypto, bootstrap, scripts | none | input and output | - | not modelled |

How they interact: the background sync (cron, every two minutes) and the P2P tab
create imported rows of `investing_transfers`; the user classifies them through
`S`, which creates incomes and expenses in their tables under categories and
calls `applyCoinMove` for the venues; the services of incomes, expenses and
categories call back into `linked-transfers.util.ts` so that the transfers
follow, and a merge repoints presets and the bot's dialogue. Goals stand alone
but for the notification they create. Every creation of a category or
transaction first asks the plan's limit. All figures are computed on reading,
each by code of its own, over these tables and the rates.

The modules cut the system along the tables that must agree. Where two of them
share a table, one has the steps and the other takes them as one: `VenueSync`
and `VenueRecords` end where a transfer is created, `Transfers` begins there
(`ImportMovement`, `RecordP2pOrder`); `PositionSync` and `Matching` write the
rows `Trades` reads; `Transfers` has the edits `Reports` and `Balance` take as
one step. `MCFigures` composes the four machines behind the figures, which share
no state.

`PROJECT.json` lists, under "hazards", every place of this code found so far
where these difficulties bite, with the properties that watch it.

## The properties, and what would break them

| run | properties | what it takes to break them |
|---|---|---|
| `wallet` | `NetsToZero`, `TypeOK` | a movement, its income, a merge and a second answer out of step |
| `wallet_race` | `AnswersHold`, `HandlersHold`, `OpenAtFaceValue`, `LinkEndsInReview` | two handlers on one movement, each between its writes |
| `coins` | `CoinsNeverLost` | an answer changed, a transfer merged or removed, coins taken from the wrong venue |
| `goals` | `RangeEnforced`, `CompletedIsNotified`, `TypeOK` | contributions that overlap, an interruption |
| `diary` | `NothingSkipped`, `OneOpenRow`, `AnnouncedOnce`, `KeepsBook`, `TypeOK` | a closing listed late, a run that dies, a symbol reopened |
| `diary_live` | `ClosingsRecorded` (liveness) | a window never passed |
| `venues` | `ResultIsTradingOnly`, `NothingMissed`, `RecordedOnce` | money that moves between two reads; an account connected again |
| `records` | `CopyFollows`, `OrderRecordedOnce`, `AutoRecorded` (liveness), `TypeOK` | two copies at once, an order that completes after it was read |
| `plans` | `EveryoneResolves`, `LimitOvershoot`, `PlansTypeOK` | a plan deleted after its subscribers were counted, or after it was found, while another administrator puts a user on it; requests that pass together |
| `accounts` | `VerifiedIsProved`, `AlwaysConfirmable`, `LogoutEnds`, `TypeOK` | links, identities, refreshes and an administrator's writes of one account in every order |
| `dialogue` | `RecordedAsEntered`, `MergeFollowed` | fields an earlier message left; a merge beside them |
| `figures` | `ReportsAgree`, `GroupedAgree`, `ClosedPeriodsStay`, `DiaryMatchesFills`, `OpenedSinceFlat`, `NetWorthKept`, `ClosedIsComplete`, `TradeFiguresAgree` | one of the routes to a figure forgetting a row, a day or a filter |

Several properties name exceptions: history variables (`mishaps`, `blurred`,
`spoilt`, `renamed`, `cut`, `assigned`, `forked`, `mixed`, `late`, `overlapped`, ...) record
exactly the events after which the code does not keep the promise. What those
events are is listed under "Exceptions"; outside them the properties hold
without reserve.

Some configurations hold several small instances at once, chosen in the initial
state (`Bounds`, `part`): they ask one question of actors that would be too many
together. Where a run has a bound in its guards, the constants `MaxTime`,
`MaxEvents`, `MaxRows`, `MaxHeld` and `Bounds` name it. Symmetry is declared only over
sets whose members no constant or operator tells apart, and never in a run with
a liveness property. Deadlock is not checked where an instance with finitely
many keys or ticks comes to an end.

## Transfers

State. `transfer` is `investing_transfers`, `txn` the tables of incomes and
expenses together (the category tells which), `categories` the ids that exist,
`held[v][s]` the coins on row `s` of a venue for one coin, 0 for no row.
`req[r]` is the handler in progress for request slot `r`: the next write it will
do (`pc`) and what it has read so far (`t`, `merged`, `old`, `new`, and the
answer `ans`). `story`, `stated` and `mishaps` are history: what the user last
said of a movement, how many coins were typed in by hand, and what the coin
properties except.

One action is one database statement, or one `$transaction`:

| actions | code |
|---|---|
| `CreateTransfer`, `ShiftCreated` | `S` create: the row, then shiftComposition |
| `UpdateTransfer` | `S` update: only rows kept by hand, coin moves keep their size |
| `RemoveTransfer`, `DeleteRemoved` | `S` remove: coins are put back, then the row goes |
| `Classify` / `ClassifyReplacing`, `TakeOver`, `DeleteTakenOver`, `Unshift`, `DropLinkedTransaction`, `RecordEarnedOrSpent`, `WriteAnswer`, `Reshift` | `S` classify, write by write |
| `ImportMovement`, `RecordP2pOrder` | the rows the imports create |
| `AddTransaction`, `UpdateTransaction` then `WriteUpdated`, `RemoveTransactions` | incomes and expenses services; the edit reads its row, then writes in a transaction |
| `AddCategory`, `RemoveCategory`, `MergeCategory` | category services; removal deletes the category's transactions by the database's cascade |
| `AddHolding`, `UpdateHolding`, `RemoveHolding` | holdings entered by hand |
| `Fail` | the handler throws or the process stops between two writes |

Abstractions: one coin; dates, notes, names and users are left out (a handler
looks only at its own user's rows); an amount with its currency is one member of
`Money`, converted by `ToUsd`, and `amountUsd`, which an imported row always has,
is one too; a venue keeps its mode (no code changes it after creation, see
`investing-venues.service.ts:104-151`). A `$transaction` is one step:
PostgreSQL's READ COMMITTED would let two of them interleave statement by
statement, which is not modelled. The two sides of shiftComposition are one step
(`Fail` never falls between them). `S` update reads and writes in one step, since
what its guard reads of a manual row (source, coins, peer) never changes. A
handler of one write takes no slot of its own but needs one free
(`HandlerFree`), so that with one slot nothing interleaves.

| run | instance | what it shows |
|---|---|---|
| `wallet` | 2 movements, 2 transactions, 2 income and 1 expense category, 2 amounts, 1 handler that may stop anywhere | `NetsToZero`: while handlers do not interleave, transfer and transaction of an earned movement carry the same money through edits, merges, second answers and failures. |
| `wallet_race` | 1 movement, 3 transactions, 1+1 categories, 2 handlers | With interleaving: `AnswersHold`, `HandlersHold`, `OpenAtFaceValue`, `LinkEndsInReview`. Three ids leave one for each handler's new transaction beside the old one. |
| `coins` | 2 transfers, 2 manual venues and a live one, 2 holding rows a venue, amounts of 1, at most `MaxHeld` = 1 coin typed in, 1 handler | `CoinsNeverLost`: a manual venue never tracks fewer coins than its records add up to. |

Identifiers are reused once no row and no handler holds them, so no run ends
because ids are used up; a second movement is what merging needs (a duplicate)
and what a shared link would need. Two handlers are the smallest number that
interleaves; the theorems cover the rest. Where coins are tracked, one
interruption is allowed: each one may leave coins behind and their number would
grow without end; `CoinsNeverLost` speaks only of runs without one. `Wallet` and
`WalletRace` track no coins, so there any number of interruptions is allowed.

## Goals

State. `goal`, `contribution` and `notified` (the goals that have a
`goal_completed` notification, one per dedupe key); `req[r]` is the handler in
progress: the goal, target and completion it read, the contribution it edits and
the amount. `contribute` is `Contribute`, `CheckSum`, `RecordContribution`;
`updateContribution` is `UpdateContribution`, `LookUpExisting`, `CheckSum`,
`RewriteContribution`; when the sum reaches the target of a goal read as
incomplete, `MarkCompleted` and `NotifyCompleted` follow. None of it is in a
transaction. `CreateGoal`, `UpdateGoal`, `RemoveGoal` and `RemoveContribution`
are single writes. `mishaps[g]` records what happened to a goal beside checked
contributions, so that the properties say exactly which events may break the
range or the completion. Archiving is in `Balance`; names and deadlines touch
none of this.

Run `goals`: 1 goal, 2 contributions, amounts -1 and 1, targets 1 and 2, 2
handlers. Two contributions reach the larger target and pass it; a goal shares
nothing with another goal, so one is enough. The notification of a deleted goal
stays and its key is never handed out again, so the instance comes to an end and
deadlock is not checked.

## PositionSync and DiaryBook

State. `live`, `traded` and `closing` are the exchange: the position open now and
the closed-pnl records, each listed at most `Lateness` ticks after it happened.
`row` and `note` are `positions` and `position_notes` of one symbol, `account` the
cursor and `lastSyncAt`, `notified` the dedupe keys of `trade_closed`. `run[r]` is
a sync in progress, with what it has read. Rows of two symbols never meet, so one
symbol is enough; the cursor is shared, and not seeing the others' records only
removes steps that leave these rows alone.

| actions | code in `modules/investing/investing-sync.service.ts` |
|---|---|
| `ReadAccount`, `Begin` | syncAll or syncAccountById reads the account; later syncAccount takes `now` and the windows follow |
| `FetchClosed`, `FindOpenRow`, `FindConflicting`, `WriteClosed`, `UpsertClosed`, `AdvanceCursor` | syncClosedPnl, await by await |
| `FetchOpen`, `FindTracked`, `WriteOpen` | syncOpenPositions |
| `Collect`, `Announce`, `AnnounceFails`, `Finish` | notifyNewlyClosed and the final update |
| `Fail` | any of them throws, or the process stops |
| `AddPositionNote`, `RemovePositionNote` | `investing.service.ts` |
| `Tick`, `OpenTrade`, `CloseTrade`, `ListClosing` | time and the exchange, external |

The records of a window are fetched in one step (the code pages through them) and
come in any order. The clock counts ticks; `Begin` takes one, so that what
happens during a run happens after its `now`. The balance, the imports and the
executions between the open positions and the announcements change none of this
state.

`DiaryBook` is the abstract specification: `closed` grows as trades close,
`recorded` grows by what closed and never shrinks, `notes` is changed by the user
alone, `rows` is for the program to rewrite. `PositionSync` implements it under
the mapping that takes the closings some row reports for `recorded` (`Book == INSTANCE DiaryBook WITH ...`, `KeepsBook == Book!Spec`), although it
deletes rows, moves notes between them and turns open rows into closings.

| run | instance | what it shows |
|---|---|---|
| `diary` | 2 trades, 2 closings, 3 rows, 1 note, 1 run at a time that may die anywhere, window 3, overlap 2, lateness 2, 4 ticks | `NothingSkipped` although closings are listed late, `OneOpenRow`, `AnnouncedOnce`, `KeepsBook`. |
| `diary_live` | 1 trade closed in two parts, no notes, 3 ticks, `FairSpec` | `ClosingsRecorded`: every closing is recorded in the end. |

Three rows hold two closings and an open position; a key held by nobody stands
for a new one. Four ticks are what it takes to list a closing late, to sync past it,
and to sync again, and they exceed a window, so that one run has two. The
overlap must cover the lateness (`SyncAssumption`): with less of it `NothingSkipped`
fails.

## VenueSync

State. The exchange: `gains` of trading, money `moved` from FUND to the trading
account, each `movement` with when it took effect and whether it is listed yet. The
code: whether the account is `connected`, `venue` (balances, baselines, when the
FUND baseline was stamped, the import's cursor) of this account and of former
ones, `transfer` (what the row imported for a movement is worth) and the one
`run` in progress, with what it has read.

| actions | code |
|---|---|
| `Connect`, `Disconnect` | `investing.service.ts`; the account goes under its runs, the venue stays |
| `EnsureForAccount`, `CreateVenue` | `investing-venues.service.ts` ensureForAccount: find, then create |
| `ReadTradingBalance`, `ReadFundBalance`, `RefreshLiveBalance` | refreshLiveBalance, each half possibly refused; baselines are set by the first read |
| `RefreshBeside` | the same by a run that overlaps this one, in one step |
| `StartImport`, `Import`, `AdvanceCursor` | `investing-movements.service.ts`: windows, overlap, floor, rows skipped if there, the cursor moved per window |
| `Fail` | the run throws or the process stops |
| `Deposit`, `Withdraw`, `WithdrawalSucceeds`, `ListMovement`, `Trade`, `MoveToTrading`, `Tick` | the exchange, external |

What another run does beside this one is one step, since the rows it leaves are
what this one can see; runs that outlive their account are kept (`gone`). Money
is counted in units; the coins of a live venue are not tracked by the code.

Run `venues`: 1 movement, 2 keys of venues, window 1, overlap 2, lateness 2, and
a softness of 1 (the exchange may return what is stamped before the window asked
for), `MaxTime` 5, `MaxEvents` 1. Six ticks allow a baseline, a movement, its late listing
and two windows; two keys are what connecting again needs. `ResultIsTradingOnly`
holds once everything is listed and imported (`Settled`): a result is otherwise
allowed to lag.

## VenueRecords

State. `order` on the exchange (when placed, when completed), `account` (when the
copy was last refreshed, and since when orders are recorded automatically),
`p2p` the copy, `venue`, `transfer` (who recorded an order on a venue), `extra`
(venues with an adjustment or a coin), `run` copying orders, `removing` the venue
whose records a removal has counted.

| actions | code |
|---|---|
| `SyncIfDue`, `RefreshForTab` | `investing-p2p.service.ts`: throttled by the age of the copy |
| `FetchOrder`, `UpsertOrder`, `AutoRecord`, `RecordOrder`, `OrdersCopied` | the copy and autoRecord, statement by statement; `Refused` is the unique key |
| `CopyBeside` | a copy beside this run, in one step |
| `Connect`, `Disconnect`, `SwitchAutoRecord` | `investing.service.ts` and the switch |
| `RecordByHand`, `RemoveRecord` | recordP2pOrders by the user |
| `CreateManual`, `AddAdjustment`, `RemoveAdjustment`, `CountRecords`, `RemoveVenue` | `investing-venues.service.ts`: removal counts, then deletes |
| `Fail`, `Tick`, `PlaceOrder`, `CompleteOrder` | failures, time and the exchange |

Run `records`: 1 order, 2 venues, `Behind` 1, no throttling, `MaxTime` 2, under
`FairSpec`. The three ticks contain an order that completes while it is still
read again and one that does not (`InReach`). That a venue is never deleted under
a record is part of `TypeOK`.

## Plans

State. `plan`, `users`, `sub` are the tables; `made[u][k]` counts a user's
categories, and transactions of this month, `ahead` those dated into the next;
`creation[r]` is a creation that has looked up its limit, `admin[a]` what each
administrator's request in progress has read. `Begin`, `CountRows`, `Create` are
assertCanAddCategory or assertCanAddTransaction and the write that follows;
`BeginDelete`/`DeletePlan`, `BeginArchive`/`Archive` and `FindPlan`/`ChangePlan`
read, then write, and requests of several administrators run at once: a plan may
be deleted between being found and being subscribed to (`Referable` is the foreign key that refuses the
subscription), and subscribed to between the count and the deletion
(`Unsubscribed` is the one that refuses the deletion). `CreatePlan`, `UpdatePlan`, `UnarchivePlan`, `SignUp`,
`RemoveUser`, `RemoveRow`, `MoveIntoMonth` and `NextMonth` are single writes, and time.

Run `plans`, in two parts, 2 plans and 2 months. In the first, 1 user with 2 requests and 1
administrator, limits 1 and none, transactions (categories are counted by the
same steps, without the month), at most 3 rows and 1 dated ahead: two requests pass a limit of 1
together and make two rows. In the second, 2 users and 2 administrators' requests at once,
and no rows or limits, since which plan somebody is on depends on neither: two
requests are what a race between a deletion and a change of plan needs, and enough for
each of the foreign keys to refuse; two months let a subscription lapse. The theorems have any number of requests.

## Accounts

State. `user`, `links` (email_verification_tokens) and `sessions`
(refresh_tokens) are the tables, `active` the users with data, `made` how many
links and sessions there were and how often an administrator wrote, `req[r]` the
handler in progress. The reads a handler starts with are one action, every write
is one of its own. History: `proved` is who proved to hold which address,
`assigned` whose address an administrator wrote since; `tokens` is every refresh
token issued with the sign-in (`line`) it descends from, `out` the sign-ins that were
logged out, `late` those of them logged out only with tokens that had or were
about to have a successor.

| actions | code |
|---|---|
| `Register`, `RegisterUser`, `DropLinks`, `CreateLink`, `Resend`, `Renew` | `auth.service.ts` register, issue and resend of a confirmation |
| `Confirm`, `WriteConfirmed`, `ForgetLink` | confirmation: what the link says is written, then the link deleted |
| `Login`, `Refresh`, `Spend`, `IssueTokens`, `Logout` | sessions: a token is found, then deleted, then a successor issued; a logout comes with any token ever issued, stored or not |
| `AskForEmail`, `ChangePassword`, `SetPassword` | credentials added or changed |
| `LoginWithGoogle`, `AttachGoogle`, `CreateWithGoogle`, `LinkGoogle`, `SetEmail`, `SetGoogleId` | `users.service.ts` findOrCreateByGoogle, linkGoogle |
| `LoginWithTelegram`, `CreateWithTelegram`, `LinkTelegram`, `SetTelegramId` | findOrCreateByTelegramId and linking |
| `CreateUser`, `UpdateUser`, `RemoveUser` | `users.service.ts` create, update and remove by an administrator, `admin.service.ts` remove: no link is mailed, `emailVerified` stays |
| `Purge` | `account-cleanup.service.ts`, nightly |
| `Use`, `Tick`, `Fails`, `Crash` | the user's data, time, a statement that throws, the process that stops |

Run `accounts`: 2 addresses, one of them Google's, one Google and one Telegram
identity, 2 requests, links, sessions and unconfirmed accounts that live through
the tick they were made in and no longer, 2 ticks. Parts: 2 users and 1 link,
without data; 1 user and 2 links; 1 user, 1 link and 2 writes of an
administrator, without Telegram, which are enough to change an address and
change it back, or to change it under a confirmation in progress; and 1 user who
signs in through Telegram, with 3 tokens, so that a logout may come with the first token while the second
is exchanged, or two requests hold one. Ids are never used again (`gone`): a link of a removed user must
not fit another. The theorems have no bounds.

## Dialogue

State. `cats`, `ops` (operations per category), `presets`, `dialogue` (the row of
`user_states`), `req[r]` a message or web request in progress. `Text`,
`NameInput`, `AmountInput`, `Load`, `Record`, `Reset`, `Choose`, `Stat`,
`Period`, ... are the handlers of `bot/`, await by await; fields of the row that
a step does not name keep what an earlier message left, as `state.service.ts`
does. `SavePreset`, `CreatePreset`, `Rename`, `WriteName`, `RemovePreset` are
`filter-presets`; `Merge` with `RemapOne` is the merge of categories and
`remap-category.ts`; `Crash` ends the messages in progress.

Run `dialogue`: two categories of expenses and one of incomes, 2 amounts, 2
names, 2 requests. Parts: one operation and categories of both kinds; two
operations and two of one kind, which merge; two presets and no messages. Operations
and presets are counted, so the instance ends. `RecordedAsEntered` is an action
property: it speaks of the step that records.

## Rates, Reports, Matching, Balance, Trades

The figures a user reads are sums over several tables, computed on reading. These
modules have the writes as actions and the reads as operators; the properties
relate reads that the code computes by different routes.

`Rates`: the live rates and their cache, `fx_rates` as one rate a day and
currency, the nightly `capture` (which reads the clock and the rates, creates
rows, then refreshes those that were there) and `Backfill`. `RateOn` is the
lookup by itself, `Resolve` with `Seed` the one over rates read once for a range.
`Reports` adds the operations with their dollar snapshots, and `Summary` (the
dashboard's buckets), `StatDetails`, `PageTotals`, `StatSummary`,
`StatsByCategory` and `MonthSummary`, each after its code. `ReportsAgree`
compares those that convert row by row, `GroupedAgree` those grouped first by
day and currency, and `ClosedPeriodsStay` a period with itself at the next step.

`Matching`: `Store`, then the two loops of the rebuild (`WriteClosed`, `WriteOpen`, and
`Stop` between them) over computeSpotPositions; `Execute` and `Trade` are fills
on the exchange. `OpenedAt` is deriveLinearOpenedAt. A rebuild writes over the
rows of the last one, keyed by the pair of fills.

`Balance`: `FreeBalance`, `InGoals`, `InExchanges`, `ListVenues` after getBalance
and the venue list, with the operations on the six tables they read. `own` is
what the user has of each currency, kept by the operations' meaning; no rounding.

`Trades`: `AddManualPosition`, `UpdateManualPosition` then `WritePosition`,
`RemoveManualPosition`, the sync's `SyncOpens` and `SyncCloses`, `FetchPrices`;
the list, the totals and the curve as `GetPositions`, `GetPositionsSummary`,
`GetEquityCurve`, for every query of the filters. The prices of a query are read
once.

Run `figures` moves one of the four per behaviour (`part`): reports with one
currency beside the dollar, two quotes, a week of two days and two days of two
half-day ticks, 2 operations; spot with 4 fills, or 3 with a fee in the coin;
derivatives with 5 fills; a balance with 2 venues, a goal and 2 rows at once;
trades with 2 rows and prices that move, or 1 row and 2 edits at once. Four fills
are what a sale over two lots and one more purchase need; half-day ticks let a
cache be fresh and of yesterday; two edits of one trade are what one needs to
overtake another, and among the trades are a long of unknown age, one that is
dust, and a short. Ids and ticks run out, so deadlock is not checked.

## Exceptions

Where the code does less than a comment or the reader may expect, the properties
name it; nothing else is excepted.

* Transfers. `classify` creates the income (`S:304`) and ties it to the movement
  in a later statement (`S:307`); an edit of the income in between is not
  followed, although `linked-transfers.util.ts:35-36` keeps the transfer in step
  "or the wallet would stop netting to zero": `NetsToZero` is for one handler at
  a time. Deleting a category (`expense-categories.service.ts:168`) cascades
  without `reopenLinkedTransfers`, so `LinkEndsInReview` excepts it.
  `applyCoinMove` takes from the first row found only and stops at its zero
  (`investing-venues.service.ts:372-384`), the check before it looked at the sum;
  putting the coins back then adds more than was taken: `CoinsNeverLost` is
  one-sided, while `prisma/schema.prisma:647-648` says "exactly". Interrupted
  handlers leave coins unmoved and nothing repairs them.
* Goals. Section 7 of the repository's README says the server enforces
  `0 <= current <= target`; removeContribution and update check nothing
  (`goals.service.ts:144`), and overlapping contributions pass the check
  together. `RangeEnforced` names both.
* Diary. A closing read again within the overlap while the symbol has a new open
  row is taken for that row's closing (`investing-sync.service.ts:148-172`,
  against the comment at lines 18-19): the row of the closing is deleted and the
  open one, with the notes of a position still open, becomes it. Nothing recorded
  is lost and no note is, which is what `KeepsBook` says; but notes of two
  trades end up on one row. `running` keeps the cron from overlapping itself, not
  the sync a user starts, and nothing refuses a second open row (`:357-370`
  against `:146-147`): `OneOpenRow` and `KeepsBook` are of one run at a time.
* Venues. The comment at `investing-venues.service.ts:78-79` says disconnecting
  flips a venue to MANUAL; no code does. Overlapping first syncs write the
  baseline twice (`:132` says once). A deposit between the read of FUND and its
  stamp (`investing-movements.service.ts:42-43`), a withdrawal requested before the
  baseline that succeeds later, and a movement imported while the price feed is
  down, which keeps no dollars for good, blur the result. `ResultIsTradingOnly`
  excepts these through `blurred`.
* P2P orders. A run that outlives its account records on the former venue, and an
  overlapping run may write back a status it had read earlier (`spoilt`). An
  order that completes later than `REFRESH_BEHIND_MS` after it was placed is not
  read again.
* Plans. Renaming the free plan leaves users without a plan
  (`admin-plans.service.ts:94`). `n` requests at once exceed a limit by up to
  `n - 1`; transactions dated ahead, or moved into a month by an edit, are checked
  against another month or not at all.
* Accounts. Following an expired link deletes it (`auth.service.ts:211-214`), so
  the account has none until it is sent again; a registration cut short leaves an
  account without a link. An address that an administrator writes is mailed no link
  (`users.service.ts:35-40`), and one that replaces another keeps its mark of confirmation and its links
  (`:55-58`); this disagrees with `prisma/schema.prisma:59-61`, and
  `VerifiedIsProved` and `AlwaysConfirmable` except it through `assigned` until the person proves to
  hold the address. One refresh token held by two requests at once forks the session,
  and a logout ends one fork (`forked`). A logout with a token that has been exchanged, after a
  lost answer say, or is being exchanged, succeeds and ends nothing (`auth.service.ts:86-88`, `late`),
  until there is one with the newest token. The purge may take an account that only linked
  Telegram or only has investing data: it counts five other tables.
* Dialogue. Messages handled at once mix their fields, and a stop between
  creating the operation and resetting the row records it twice (`mixed`). Removing
  a category, unlike a merge, leaves presets and the dialogue naming it, and a
  page that still names a merged category writes it after the merge (`late`). A
  preset with its category as a single string, which the API accepts, is passed
  over by a merge, which looks at lists only (`remap-category.ts:26`), and goes on naming
  the category that is gone, although the comment there (`:5-12`) speaks of every preset: it is among what
  `other` stands for, and `MergeFollowed` is about lists.
* Reports. Statistics grouped by day and currency ignore rows without a dollar
  snapshot when others of the group have one, so that such a group counts too
  little, though `expenses.service.ts:201` says it "matches the web dashboard"
  (`Mixed`). A closed period changes when a backfill fills a day without a rate
  or a capture crosses midnight (`LateCapture`).
* Matching. A fill listed after the diary was built from a later one leaves rows of the former
  pairing behind, counted twice (`late`): `rebuildSpotPositions` only writes rows.
* Trades. Two edits of one trade that both read it before either wrote may leave a
  CLOSED row without a profit (`overlapped`). Totals asked for OPEN trades alone
  count the wins of all closed ones (`investing.controller.ts:449-456` promises
  "Same filters").

## Fairness

Two properties are about what must happen; elsewhere no fairness is
assumed: nothing in the handlers retries, a handler that dies is never resumed,
and the safety properties say what it leaves.

`FairSpec` of `PositionSync` (run `diary_live`) assumes that time passes, that
the exchange lists what closed, that runs are started over and over and go on
(the cron, every two minutes), and that failures end: "most failures (network,
Bybit maintenance) are transient", as syncAll says of the accounts it retries.
`FairSpec` of `VenueRecords` (run `records`) assumes the same of the copy of
orders: time passes, a run that is due is started and proceeds, failures end. It
does not assume that orders complete, that the user does anything, or that no
other run interferes.

## What is proved

The theorems hold for any sets of rows, users, identities, plans, closings,
amounts and concurrent handlers, assuming only the named assumption of each
module (`ConstantsAssumption`, `RatesAssumption`, `ReportsAssumption`, `GoalsAssumption`, `SyncAssumption`,
`PlansAssumption`, `AccountsAssumption`, `VenueAssumption`, `RecordsAssumption`,
`DialogueAssumption`): sets that must differ share no element, durations are
natural numbers, the overlap covers the lateness, `NULL` is no identifier and no
row. TLC evaluates them in every run. A few theorems of `LedgerProofs` and
`PositionSyncProofs` add that handlers or runs come one at a time, and one that
there are finitely many movements and rows of coins; they say so in their
statement.

`LedgerProofs`: `TypeCorrect`, `AnswersCorrect`, `HandlersCorrect`,
`OpenMovementsAtFaceValue`, `ImportedFactsStay` (no step deletes an imported
movement or changes its venue, direction, coins or dollars),
`DeletedAnswersReopen` (`LinkEndsInReview`) and, with one handler at a time,
`EarnedNetsToZero`. The inductive invariant is

    IInv == TypeOK /\ AnswersHold /\ HandlersHold /\ OpenAtFaceValue

`AnswersHold` alone is not inductive: `WriteAnswer` writes into the row what the
handler read, checked and created several writes before, so one has to know that
this is still true, which is `HandlersHold`; and `HandlersHold` needs
`AnswersHold`, because it is the row's own story that says an imported row cannot
turn into a manual one. The proof does not treat twenty actions for each
conjunct. `RowEffect(t)` lists the few things a step may do to one movement
(nothing, add, delete, resize, edit, unlink, reopen, answer) and `TxnEffect(x)`
what it may do to a transaction; lemma `Effects` shows every action to have only
these effects, and the invariants are derived from the effects: `TellsStep` and
`WasTied` for the rows (`AnswersStep`), `FactsStep` for the exchange's facts,
`OthersStand` for the handlers that wait and `ActorStands` for the one that acts
(`HandlersStep`).

Two results stand on `IInv`. `DropsOwn`: the transaction a second answer is about
to drop is tied to the movement it answers and to no other, nor about to be; so
the only links a step tears without a review are the one being replaced and those
of a category that goes (`WhoTears`). `MoneyStands`: an edit that takes the money
to be unchanged still writes the money there is, and the transaction made for an
answer still has the answer's money when the answer is written. This is where
handlers one at a time are needed (`OneHandler`): a second one may edit the
transaction in between, and the two rows then differ.

`CoinsKept` (`CoinsNeverLost`), also with one handler at a time and with finitely
many movements and rows of coins (`FewRecords`): between handlers a venue kept by
hand tracks at least the coins its records add up to, unless one died halfway. Its
invariant `CoinsHeld` has to hold while a handler is between two of its writes:
the coins of at most one movement are then out, the one the handler is about to
delete or has just created (`Out`), and the rest is covered (`Enough`); and a
movement between venues is never one from a venue to itself (`Apart`), for its
coins would come in and leave at the same row.

`LedgerProofs`, of `Reports`: `EveryFigureAgrees` (`ReportsAgree`), `GroupsAgree`
(`GroupedAgree`), `ClosedPeriodsAreKept` (`ClosedPeriodsStay`) and `ReportsTyped`,
for any currencies, rates, days, buckets and number of operations. The invariant
is that of the types with the rows finitely many and of the one amount
(`ReportsInv`); what has to be shown is that every route computes the same of such
a state. `ResolvedIsRateOn`: a rate read once for a range is that of the day, since
the newest row of the range is the newest there is, and where the range has none
the newest is from before it. `DayHasBucket`: the bucket of a day of the range is among those
built, also when the range begins in the middle of one. `GroupIsWorth`: a group is worth
what its operations are, since either all of it goes through snapshots or none of it, and the
rate divides the amount of each; `SumOfParts` then counts group by group.
For a closed period, `TableStep`: a day that has ended changes its rate only
by a backfill where it had none, or by the job that began before midnight.

`GoalsPlansProofs`, of `Goals`: `TypeCorrect` (its invariant is inductive; it
includes that no contribution outlives its goal and what a handler must have read
at each step), `NotificationFollows`: a completed goal has its notification or a
handler about to create it, unless one was interrupted in between, however many
handlers complete it at once; and `RangeHolds` (`RangeEnforced`): a goal leaves its range
only if handlers overlapped on it, or a write that checks nothing pushed it out.
`Ranged` adds that without an overlap a handler's sum, target and old amount are still those of the tables when it
writes (`ReadsCurrent`), that it edits a contribution of the goal it checked
(`EditsOwn`), and that there are finitely many contributions (`FewRows`), which
the specification keeps although its identifiers may be infinitely many.

`Sums` is what these rest on, and `ResultIsWon` below: one row more, one less or one
changed alters a sum by as much. A sum is a recursive function over the subsets of a set, and the
induction theorems of the library take an operator, which no prover here can
instantiate. The lemmas do without: subsets for which the equation fails would
have a smallest one among them, since strict inclusion of finite sets is
well-founded, and the equation is proved of that one.

`PositionSyncProofs`: `TypeCorrect` for any number of runs at once; and where at
most one run is in progress (`OneAtATime`) `OneOpenRowHolds`, `NothingIsSkipped`,
`ClosingsAreAnnounced` and `BookIsKept`, that `PositionSync` implements `DiaryBook`. Five inductive
invariants, each on top of the one before: `Sound` (types, what a run knows at
each of its steps, every closed row has an order); `DiaryTidy`, that rows and
what the run has read of them agree (`Tidy`, `RowsRead`): a row found a few
awaits ago is still the row it was, since no other run writes; `Covered`, that
what lies behind the cursor by more than the overlap is in the diary or among
what the run still has to write (`Due`, `Covers`), from which `NothingSkipped` follows window by
window; `Prompted`, the same without the overlap for what is listed at once
(`PromptsIn`), and that what a run records closed before the run began
(`InTime`); and `Announcing`, that a closing has one row, that a run has read the
last sync there was, and that the news it still has to tell are closed rows after
that sync, with all that is to be told among them or told (`Telling`, `Told`): a
closing is told twice only if a run died between telling and writing its last
sync. The refinement uses that the row that is rewritten or deleted holds no
closing but the one being written.

`GoalsPlansProofs`, of `Plans`: `PlansTypeCorrect`, `EveryoneIsOnAPlan` and `OvershootBounded`.
`Resolvable` says that a subscription's plan exists (`Subscribed`), that the free
plan stays until renamed (`FreeStays`), and that a plan any administrator is about
to delete has not become the free one since it was read (`NotTheFree`). It is
for any number of administrators at once: a deletion keeps `Subscribed` because
somebody put on the plan since the count is seen by the foreign key, and a change
of plan because the other foreign key looks for the plan that was found.
`Limited` counts the requests in progress that have `Passed` their check: rows
`Counted` and requests that passed are together below the limit and the number of
requests there are (`Within`), so that `Create` only moves one from the latter to
the former; the cardinalities of finite sets of requests come from
`FiniteSetTheorems`.

`AccountsBalanceProofs`, of `Accounts`: `TypeCorrect`, `SignInsEnd` (after a logout in time no refresh token of that
sign-in is left, unless it was forked), `OnlyProvedIsVerified` and
`EveryoneCanConfirm`, with an administrator writing addresses and removing accounts meanwhile. `Sound` is the type invariant with what a request has read.
`Lines` ties each sign-in to one token or one request that holds it, and says
that it is the newest token issued (`Newest`), so that a logout with that one leaves
nothing, and that nobody bears a sign-in that `Ended` and is neither `late` nor `forked`. `Proofs` adds to
`VerifiedIsProved` that nothing is proved of a key not handed out and that a
request about to confirm an address has read it of that account, unless the
account has been confirmed or an administrator has written it since
(`AddressRead`); it is derived from the few effects a step has on one account
(`AccountEffect`), an administrator's (`IsAssigned`) among them. `Waits` adds to
`AlwaysConfirmable` that links and requests are of the account and the address
they confirm, and that a link about to be forgotten had expired or has
confirmed, for every account that no administrator has written (`Pending`).

And of `Balance`: `MoneyIsKept` (`NetWorthKept`), for any currencies, rates, venues and
rows. It relates sums to one another and says nothing of how they came about, so
`BalanceInv` adds what `own` is: in each currency the sum, over the four tables that
change it, of what a row means there (`OwnIs`), kept by every step because one row
comes, goes or is replaced (`RowMoved`, `ExchangeReplaced`, which needs that no two
exchanges have one key). In a state with the invariant the code's sums, each over
some rows of one table, are the same sums over all rows (`SumOfSome`); a row
between two venues is counted once here and once there (`OverVenues`); and amounts
that are multiples of every rate are converted piece by piece as they are together
(`ConvertAdds`), which is what leaving out the rounding to cents assumes.

`VenueSyncProofs`: `TypeCorrect`, `ImportIsComplete` (`NothingMissed`),
`MovementIsRecordedOnce` and `ResultIsWon` (`ResultIsTradingOnly`). `Sound` is the type invariant with what FUND can hold
(`Funds`, by counting events and movements), that stamps, baselines and cursors
lie in the past, and that a run has the venue it writes to. `NoneMissed` says of
what is overdue at the cursor what `NothingMissed` states, and
`RunMissesNothing` that whatever was overdue when a run took its moment is listed by
then and is recorded, or about to be, once its windows are past it. For
`RecordedOnce` venues have to be ordered in time (`Once`): what former venues have
lies before the baseline of the one there is, what any other venue has lies
before the floor of the run that imports, and a run that outlives its account
took its moment before the next baseline. `Figures` is what makes a result one of
trading only. Unless the account is blurred (`Sharp`), what a run has photographed
is still so, for nothing moved since it began to read (`Photographs`); the two
baselines of a venue come to what trading had won, and what FUND had been brought,
when the baseline was written (`Baselines`); and its records are of movements since, each
at its worth (`RecordsWorth`). Blurred or not, a record is of a venue with a
baseline (`RecordsOpened`), and the floor of an importing run is the baseline of
its venue (`RunFloor`). With `NothingMissed` the records of a venue that has
settled are then exactly the movements since its baseline, and what remains of
its balances without them is what trading won since.

`RecordsProofs`: `TypeCorrect`, `CopyIsFollowed` and `OrderIsRecordedOnce` about `VenueRecords`,
for any number of orders and venues. `Following` carries `CopyFollows` into the
run: what completed before the copy began is in the copy or among what is still
to be read, because what the copy does not reach back to was complete in the
copy before it (`Covered`). `Recordings` says that former venues have nothing
placed since automatic recording was switched on for the account there is now
(`Since`), so that the run which records has nothing to do that a former venue
has; the unique key does the rest on the venue itself.

And about `Trades`,
`ClosedTradesAreComplete` (`ClosedIsComplete`) and `TradeFiguresAlwaysAgree`
(`TradeFiguresAgree`), for any number of trades, edits at once, prices and entries.
`ClosedIsComplete` is not inductive: an edit writes what followed from the row when
it was read. `TradesInv` adds that an edit in progress still follows from its row
(`Fits`) unless another that read the row was written since, and that no key of a
row with an edit in progress is handed out again, so that the write of a patch
leaves a complete row (`PatchCompletes`). `TradeFiguresAgree` needs only the types of
the rows: `ListIs` gives one condition on a row for what the list selects by either
route, the counts follow from what a profit may be, and the sum of the curve from
`SumOfParts`, one part for each point.

`DialogueProofs`: `TypeCorrect`, `BotRecordsWhatIsEntered` (the action property
`RecordedAsEntered`), `MergeLeavesNothing` and `MergeIsFollowed` (`MergeFollowed`), for
any categories, presets and number of messages. `Faithful` says that until messages overlap there is one message
(`OneMessage`), the row holds what was entered or is about to be reset
(`RowIsEntered`), and the message finds the step it was read for, unless a merge
ended the dialogue (`StepIsRead`); and that a category that went does not come
back, so that a message which still holds it cannot record. `MergeLeavesNothing`
is the part of `MergeFollowed` about operations and the dialogue. For the presets
the loop of a merge has to be followed: `Repointing` is what it keeps, that each row is that of a preset there
was, repointed if the loop has been through it, and that no two filter by the
same, since a twin of the new filters is looked for among the rows as they are by then.
That the fold which models it keeps `Repointing` needs the argument of `Sums`
again, of a set of presets that would be the smallest one for which it does not.
`Saved` adds the identifiers, and that a preset which filters by a merged category
was written after the merge.

Only model-checked:

- `DiaryMatchesFills`, `OpenedSinceFlat`: they compare computations folded over
  sequences of fills with one another, which is induction over data.
- Liveness under fairness (`ClosingsRecorded`, `AutoRecorded`) and `ENABLED` are out
  of the prover's reach in general.

The type invariants of `VenueSync` and `Dialogue` are proved, and no configuration
lists them; nor those of `Rates` and `Reports` (`ReportsTyped`), nor that of `Balance`
(in `BalanceInv`). Those of `Matching` and `Trades` are stated as documentation of the
state; the rows of `Trades` are in what is proved (`RowsAre`).

## Plan

1. Theorems about `Transfers` with any number of handlers: which overlaps an earned
   movement needs before its two rows differ.
2. Resetting a forgotten password (`auth.service.ts:281-311`), blocking a user
   and the check of an access token in `Accounts`.
3. The diary with several runs at once: how many open rows they can leave.
4. Coins under two handlers, each with the removals that overlapped it.

## Not modelled

Single-row operations with nothing tied to them (renames, settings, read marks),
lists and the digest's sending, input and output (Bybit client and its signing,
mail, HTTP, validation, the web and bot front ends, wording), the price cache's
minute and its shared request, configuration and bootstrap, and the maintenance
scripts. Of authentication the reset of a forgotten password and the check of an
access token; of administration the block. getBalance's eight reads are one step
in `Balance`, though another request may write between them. Statements inside a
`$transaction` do not interleave with others.
