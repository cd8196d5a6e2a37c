# masterbot: verification

TLA+ models of masterbot (a KakaoTalk bot in Go), checked with TLC on small
instances, and theorems about them proved with TLAPS for every value of the
constants. Paths below are relative to `src/`.

- [1. The system](#1-the-system)
- [2. Modules and how they correspond to the code](#2-modules-and-how-they-correspond-to-the-code)
- [3. Runs, bounds and what they show](#3-runs-bounds-and-what-they-show)
- [4. Fairness](#4-fairness)
- [5. Proofs](#5-proofs)
- [6. Disagreements between code and documents](#6-disagreements-between-code-and-documents)
- [7. What is not modelled](#7-what-is-not-modelled)
- [8. Plan](#8-plan)

## 1. The system

A chat frame arrives on a websocket (Iris client), is dispatched to a handler
goroutine of its room, goes through the router and its middleware (access
control, rate limit, error recovery, metrics) to a command handler or, for plain
text, to the fallbacks, and is answered through the transport it came from.
Handlers answer from caches that pollers fill, or call services; those with
state of their own are the Coupang price tracker, which also runs in the
background, and the lotto. All of it is one process, wired at startup and closed
in order at its end; beside it run the alert daemon, the backfill command and
the page of the admin dashboard. All state that survives a restart is in SQLite.

| Component | State | Operations | Interacts with | Hard behaviour | Correct when |
|---|---|---|---|---|---|
| Iris client `internal/transport/iris` | connection, dedup map, room channels, workers, semaphore | connect/back off, read, dedup, dispatch, work, close | router (callback), recorder | reconnect while handlers run, buffer full, semaphore, shutdown | handlers of a room are serial and in order; no silent loss; shutdown ends |
| Coupang registration `internal/coupang/service_registration.go` | registration flights, errgroup, rows, seeds | Lookup of an untracked product, deferred bootstrap, chart seed, capacity | store, Fallcent/Coupang fetchers, watchlist | flights led by background tasks, join timeouts, nested errgroup submissions, evictions in between | one registration per product; flights end; seeded once; capacity restored |
| Coupang refresh `internal/coupang/service_refresh.go` | refresh flights, persisted `refresh_in_flight`, mapping state | read-through, scheduled refresh, sweep | the same, lookups | three kinds of actors, partial failures, crash with the mark set | one refresh per product; mark and flight agree; every lookup answers |
| Coupang resolution `service_resolution.go` | none | find a product on Fallcent or in the shop, verify | fetchers | budget and fallbacks | answers about the product asked for |
| Price store `internal/store/sqlite.go` | tables | upserts, evictions, histories | tracker | upsert of an evicted row | one row per track id |
| Runtime access control `internal/bot/access_manager.go` | ACL tables, audit log, in-memory snapshot | admin commands, reload, bootstrap | router, store | concurrent reloads, audit failures | memory agrees with the tables after a reload; the bootstrap principals come back |
| Application lifecycle `internal/app`, `internal/transport/composite.go` | component goroutines, error channel, closers | build, start, wait, close | everything | error against cancellation, jobs that outlive what waits for them, timeout of the close | the error of a component is reported; closing comes last; the process ends |
| Router and middleware `internal/bot` | limiters | dispatch, deny, limit, recover, fall back | handlers, access control, recorder | outcomes recorded on four levels, panics, replies that fail | one outcome per command, one answer per message |
| Reply outcome tracking `internal/app/reply_composite.go` | states per correlation id | observe, prune | recorder | late and repeated parts | one verdict per price, of all its parts |
| Hot lists and caches `internal/scraper` | entries with ages, quotes and rates of feeds | get, register, poll, evict, update | providers | entry replaced while fetched, venue chosen before it is read | answers do not go back; amounts are of the prices the cache holds |
| Sports pollers `internal/scraper/sports_poller.go`, `internal/app/build_modules_sports.go` | lists per league and date, events, interval | poll, plan the next poll | ESPN, Livescore, LoL Esports, MLB, KBO, NPB | dates of three time zones, a round over midnight, one league deciding for all | lists are of today, starts noticed in time, final events |
| Metrics recorder `internal/metrics`, `cmd/adminbackfill` | bounded queue, batch, tables, rollups | record, flush, rebuild, purge, backfill | all | queue full, insert fails, end of the context, two writers | what is queued reaches the table, counted once; rollups of kept days stay |
| Alerting `cmd/alertd`, `internal/alerting` | deduper | poll, send | metrics store, webhook | a sliding window over delayed events, mark before send | every failure is told of |
| Lotto `internal/lotto` | tickets, draws, shops | summary, recommend, register, query, delete | store, lottery site | two messages of a user, stale draws around the close of sales | drawn rounds are closed; answers are what the tables hold |
| Admin dashboard `internal/admin` | page: window, room, panels; server: audiences | load, click, change the window; queries | metrics tables | loads that overtake each other; many queries over the same events | panels show what is selected; figures agree |
| Automatic queries, provider breaker, configuration, formatting, charts, HTTP test transport, fortune | see section 7 | | | | |

`PROJECT.json` lists every component with its sources and status, and, under
`hazards`, what in this code is hard to test, with the line where it bites and
the property that covers it or the reason none does.

## 2. Modules and how they correspond to the code

A step is what happens between two points where another goroutine can be seen
or can act: one store call, one fetch, one channel operation, one critical
section of a mutex. Wording, logs and the contents of messages and products are
left out.

**`IrisInbound`** (`internal/transport/iris/client.go`). `client` is the control
point of the `Start` goroutine through connect, read loop, dispatch, close and
backoff. Each connection makes an `inboundDispatcher`, so `worker`, `queue`,
`closedChans` and `sem` are indexed by the connection. `ensureRoomWorker` and the
channel send after it are two steps, because the mutex is released in between
and a worker may exit. A frame is its arrival number; its dedup key is its room
and text. In the code the key starts with the chat id while the dispatch key
falls back to the room name when the chat id is empty; the model identifies the
two. Time is the age of dedup entries. `roomWorkerEnabled` and `roomWorkerCount`
are variables that never change, so that one run checks several configurations.
The ping goroutine appears as what it causes, a failing read.

**`CoupangRegistration`** (`service_registration.go`, `service_lookup.go`,
`service.go`, the capacity part of `service_refresh.go`, the store calls of
`internal/store/sqlite.go`, the loop of `internal/scraper/coupang_watchlist.go`).
`pc[l]` is where a Lookup is, between `ensureTracked` and its answer; `boot[l]`
and `seed[l]` are the goroutines it left in the errgroup. `Slots` is the
errgroup's occupancy and `HasSlot` the guard of every submission, because
`errgroup.Go` blocks. Every store call is a step, so rows may be deleted between
any two. The watchlist backfills seeds at startup (bound: one product), then
evicts stale rows and enforces the capacity. `shutdown` is the done context: a
call that takes the context can only fail from then on, what does not look at a
context (a blocked `errgroup.Go`) goes on as before.

**`CoupangRefresh`** (`service_refresh.go`, `service_lookup.go`). Three kinds of
actors refresh a product: the Lookup's own goroutine (`Reader`), the background
task it schedules (`Task`) and the watchlist. `at[a]` is where each is; the code
between the begin and the end of a flight is the same for all of them up to the
guards that mention `Readers`. `marked` is the persisted `refresh_in_flight`.
The clock is reduced to `fresh`: observed within the freshness window; tiers,
budgets and backoffs are choices. `Crash` drops what is in memory and keeps the
rows.

**`CoupangResolution`** (`service_resolution.go` and the Fallcent and shop
scrapers behind it) has no state: it says, of an outside world (what Fallcent's
redirect, its search and the shop would answer, what the budget allows), which
state of the mapping or which error a resolution ends with. The two modules
above use it for what a refresh, a bootstrap or a lookup may come to.

**`SingleFlight`** is the abstract specification of both Coupang modules: per
key, one worker enters, and leaves before another enters. They implement it
(`ImplementsSingleFlight`); the mapping is the set of actors whose control is
in the work the flight protects, not the flight map itself.

**`AccessControl`** (`internal/bot/access_manager.go`, `access.go`,
`internal/store/access_runtime.go`, `internal/command/admin.go`). `db` is the rows
of the four ACL tables, `mem` the snapshot the controller decides with. A command
runs in the goroutine of its room: `Issue` is its decision on the copy in memory
(authorisation and the handler's reading of the snapshot in one step; no property
is about who may change what), `Mutate` one upsert or delete, `Audit` the
audit entry, `Query` each of the four queries of `Snapshot`, `Apply` the critical
section of `applySnapshot`. The startup (`Boot`) seeds, ensures its two
principals and reloads before any command can arrive; `Restart` is a kill or a
failed startup at any point. A room's alias is left out; registering a room
again reports a change because the update of its row does. "All on" changes its
intents in any order. Runtime management is enabled and the bootstrap room and
user are configured.

**`Lotto`** (`internal/lotto/service.go`, `internal/store/lotto.go`,
`internal/command/lotto.go`, `internal/scraper/providers/dhlottery.go`). Each room
handles one request; `req[c].step` is where it is between two SQL statements or
calls of the site. Time is in phases, the week up to Saturday 20:00 and the
hour and a half after it, which is what the calendar functions tell apart;
a draw is its round. A ticket is its user, round, line and origin. Every call
may fail. `met` marks requests that ran beside another of their user, which
happens when a user writes in two rooms.

**`AppRuntime`** (`internal/app/app.go`, `app_bootstrap.go`, `lifecycle.go`,
`build_modules.go`, `internal/transport/composite.go` and `httptest`, `internal/command/summary_executor.go`,
`goAsync` of the tracker). `Modules` is what each part of the configuration starts
and opens, in the order of `Build`; `main` is where the main goroutine is from
`Build` through `waitLifecycle` and `shutdown` to the exit. Components that only
do their work until the context ends return together, since nothing waits for
one of them. A message is handled, may hand a summary to the executor or a task
to the tracker, and may be answered. `root` is the context its job got: the run's,
or the background if the component behind it had not begun. A task started
before the tracker has its errgroup is a plain goroutine; one in the group holds
one of its slots, and a task that submits another waits, in `errgroup.Go`, with
its own slot in hand. A reply may fail, which the code discards: the Iris server may
refuse it, its context may be done, and with several Iris clients the reply of a
summary, which names none of them, always fails. A summary that panics sends none.

**`Dispatch`** (`internal/bot/router*.go`, `middleware.go`, `internal/app/reply_composite.go`,
and the error paths of every handler in `internal/command`). What a text matches
is a choice. A handler is the set of its `Plans`: trees of the replies it tries,
with what it does when one is sent or fails, and the error it returns at the end.
The explicit command, the bare queries, the deterministic and the automatic
fallbacks, the ACL, the limiter, the error and the logging middleware and the
tracker of composite replies follow the code, and so do the panics, of which
only those of commands are recovered.

**`Metrics`** (`internal/metrics`, `cmd/adminbackfill`): messages between the
connection and their dispatch, which is when the first event is recorded, the
queue, the batch, the drain at the end of the context, the inserts, the rebuild of
the rollups from the raw events, the retention of both, and the backfill, a second
process over the same table, which reads the messages from the chat database. A
row has the time of its event (of the chat database, where backfill inserted it),
a rollup the day, and days are coarser than the cutoffs. **`Alertd`** (`cmd/alertd`, `internal/alerting`) extends it with the
poller that looks for failed replies in that table.

**`SportsPoller`** (`internal/scraper/sports_poller.go`, `sports_cache.go`,
`internal/app/build_modules_sports.go` and the providers of schedules). One
behaviour is about one of the three sports. A round polls league after league
for the date it began with; what a league's fetches bring depends on the date
its provider files a match under (UTC, US, Korean). Ticks are half hours; the
interval of half a minute while a match is live is rounded up to one.

**`QuoteCaches`** (`internal/scraper/hotlist.go`, `coin_hotlist.go`, `coin_cache.go`,
`weather_cache.go`, `theme_index.go`, the websockets and `internal/command/coin_lookup.go`).
`kind` says which cache a behaviour is about. A price is its version, an amount
in KRW the pair of the price and the rate it was computed from, so that a
derived amount can be compared with what it derives from. Entries are objects
that lookups hold on to; an entry that is replaced while held leaves the lookup
with the old object, and the token list shares its objects with the coin cache.

**`Dashboard`** (`internal/admin`, with the script of its page, and
`internal/metrics/sqlite_queries.go`). The server's scopes and queries are
operators over the rows; the page has the selected window and room, the loads
under way and what each panel shows. A row is one event with a time of its own,
so that a message and its outcome may lie on two sides of a window, a day of the
server or a day of UTC. A query with an ORDER BY and a LIMIT returns any of the
answers these leave open. A load is all fetches of one panel, and several SELECTs
of a fetch are one; rollups are computed from the rows there were at some rebuild,
a prefix of them. The table is fixed once the page has loaded, so that a wrong
panel is the page's doing, and no event of it was dropped on its way (`Metrics`
has the drops). "Figures" stands for the reliability, feature and product panels,
which load alike.

`MC*` modules give the constants their values. Operators named `Mut...` are
plausible defects, each written above the definition it replaces; no
specification uses them. They show that the properties can fail.

## 3. Runs, bounds and what they show

| Run | Bounds | Shows |
|---|---|---|
| `iris_inbound` | 2 rooms, 1 text, 2 connections, 3 frames, buffer 1, window 1 tick, worker count 0 (one worker) or 2, workers on or off | `SerialPerRoom` and `InRoomOrder` across a reconnect; `NoSilentLoss`; `QueuedStarts` while rooms do not outnumber workers; `ShutdownCompletes` |
| `coupang_registration` | 2 lookups, capacity 1, 3 slots; one track coalesced, two tracks not | the refinement of `SingleFlight`, `FlightsComplete`, `SeededOnce`, `CapacityRestored`, `LookupsAnswer` |
| `coupang_async_deadlock` (violation of `AsyncWorkObservesShutdown`) | 2 lookups, 2 slots | two deferred bootstraps wait for each other's slot, deaf to the shutdown |
| `coupang_refresh` | 2 lookups, 1 track, 2 slots shared with refreshes of other products, 1 crash | the refinement of `SingleFlight`, `MarkMeansInFlight`, `LookupsReturn` |
| `access_control` | 2 rooms, 2 users, 1 intent, 2 command goroutines, 2 databases to start from; 3 commands, 1 restart | `ReloadIsCurrent`, `BootstrapRestored` |
| `lotto` | 1 user in 2 rooms, 3 requests, 3 phases, 2 lines a recommendation, messages with 0 or 1 set | `DrawnRoundsAreClosed`, `AnswersAreTrue`, `RecommendedOnce` |
| `app_runtime` | 2 messages, both with a link, one with a product; 1 summary worker; 1 slot of the errgroup; every transport; the admin server on | `ErrorsReported`, `ClosingIsLast`, `ShutdownEnds`, `LinksAreReplied` |
| `dispatch` | a message of each of 35 kinds beside a second of two kinds, burst 1, 2 sets of barred intents | `OutcomePerCommand`, `AnsweredOnce`, `VerdictOfAllParts` |
| `metrics` (module `MCAlertd`) | 2 messages, queue and batch of 2, 3 ticks on 2 days, raw retention 1, daily 2, alert window 2, dedup 2, 1 backfill, 1 fault | `EventsReachTheTable`, `DuplicatesNeedOverlap`, `RecentDaysKept`, `FailuresAlerted` |
| `sports` | 2 matches, 4 starts, 2 boots, to tick 104, 2 goals, 1 failed poll, 1 half hour that ends during a round | `ShownIsToday`, `StartNoticedInTime`, `NextIsWholeDay`, `FinalEvents` |
| `quotes` | 1 code, 2 lookups, 3 ticks, idle timeout and TTL 1, 2 prices, 2 rates, 1 market cap | `NeverBackwards`, `CacheAgrees`, `ExchangeFirst` |
| `dashboard` | 2 rooms, 15 events of two lookups and the tracker, windows of 1 and 2 ticks, a day of 2 that UTC begins one tick before the server, limits of 1 and 2 rooms and 2 issues, an operator and a customer; 2 acts on a page over 2 rows | `PanelsFollowWindow`, `DetailIsSelected`, `FiguresAgree` |

Why the bounds are enough for the interesting cases.

*Iris*: three frames and a buffer of one give a handled, a queued and a dropped
frame of one room, or two rooms that compete for one token; two connections
give a reconnect with frames still queued; dedup entries can expire between two
equal texts or not.

*Registration*: two lookups are a leader and a follower, or two uncoalesced
registrations that overshoot a capacity of one; each may leave a bootstrap and a
seed, four tasks at most. With three slots the two bootstraps cannot both hold a
slot while all other slots are full, so the deadlock of `coupang_async_deadlock`
cannot occur in the passing run: that run shows that it is the only way the
liveness properties fail.

*Refresh*: products share nothing but the budget (a choice) and the errgroup.
There is one track, with five actors on it (two readers, two tasks, the
watchlist); the refreshes of all other products are there as the slots they
take, hold and wait for (`OtherRefresh`), so two slots can be full of any mix of
refreshes and charts. They can also be full of refreshes that all wait for a
slot for their chart (`Blocked`, `service_refresh.go:113`): then nothing moves in
the errgroup again, a lookup that schedules a refresh stays in `goAsync`, and
`LookupsReturn` is that this is the only way not to return. Without coalescing a reader never joins, and every
behaviour is one the coalesced run has as well.

*Access control*: two commands reload at once, one of them changing tables the
other has read or has yet to read; the third command meets what an earlier one
left half done; the restart interrupts any of them or the startup itself. The
second database has lost the bootstrap principals and has another admin, who can
remove them again.

*Lotto*: three phases have a close of sales, a draw held and published, and
the close of the next; a stored draw can be current, one or two rounds behind.
Three requests are two that overlap and a third after them. Other users share no
row with this one and no check; the theorems of section 5 are for any number.

*Runtime*: with one worker the second summary finds it busy; two messages let
one job slip past the last look of the executor while another runs. With one slot
a task in the group that submits another is stuck, one that began before the
group is not; `ShutdownEnds` is that there is no other way not to end. Of the
parts that can be off, two open a store and start a poller at most, which the others
do as well.

*Dispatch*: messages meet only in the limiter of a command and in the tracker;
the second message is one that takes the last token, or one with a composite
reply of its own.

*Metrics*: the queue is full with two events; the last tick purges what the first
one stored, which is a part of the first day, and takes it out of the alert window;
a message may wait for its dispatch from one tick, or day, to the next, and the
backfill come in between; the one fault is a failed statement, a crash of the bot,
a lost frame or a poll that fails.

*Sports*: the starts are later on the day the program starts, at midnight, on
the next morning, which two UTC dates share, and a day later; the program
starts in the morning, or an hour before midnight so that a round may
go over it. Two matches are of one league or of two, so that either of them
decides the interval.

*Quotes*: the caches are per code, so one code and two lookups have every
interleaving of a poll and two fetches; a second version of the price is what
going back means.

*Dashboard*: two changes of the window, or one and a click, or a failure: enough
for two loads of one panel under way at once. The queries are compared over
every prefix of the 15 events, at any times of three ticks: the two lookups differ
in outcome, latency and every other thing a query looks at, are in one room or in
two, and any of their events may be in the window or the day or before it. The limit
of one room is reached by two rooms with as many requests or not, that of two issues
by the three a failing lookup leaves. The page itself is opened over the first two
rows, the two requests, which decide what its lists may hold.

Symmetry is used where the run's properties are all safety properties. Where a
model can stand still because a bound is used up, a `Rest` step says so
(`access_control`, `lotto`), so that every other standstill would be reported,
or the cfg turns the check of deadlock off (`metrics`, `sports`, `quotes`,
`dispatch` and `dashboard`, which end when their messages, ticks or acts do). It
is off in `coupang_async_deadlock`, whose subject is a state without
successor.

History variables (`accepted`, `started`, `dropped`, `last`, `evicted`,
`leftover`, `touched`, `unlogged`, `met`, `late`,
`answered`, `unheard`, `log`, `got`, `tried`, `verdicts`, `overlap`, `attempts`, `missed`,
`lastLive`, `newest`, `overlapped`, `lost`) record what happened for the
properties; the code's decisions do not depend on them.

Where a property has an exception, the exception is what the code does not
prevent, and the property says that nothing else goes wrong: tickets of two
overlapping requests of a user (`lotto`), fetches of one code that overlap
(`quotes`), loads that overtake each other (`dashboard`), a batch whose insert
fails and messages on their way when the backfill runs (`metrics`), jobs that slip past the last look at them (`app_runtime`), a
league whose last poll failed (`sports`), an errgroup full of tasks that wait for
it (`coupang_refresh`, `app_runtime`). Such an exception is a failure the run does
not catch; the hazards say which.

## 4. Fairness

Goroutines that can run do (weak fairness of the client, of each worker, of the
lookups with their tasks, of the watchlist), and handlers, fetches and store
calls return: each has a timeout in the code. Nothing is assumed of the
environment: the server need not send, a connection need not fail, prices need
not age, the bot need not be stopped, the process need not crash, except that
after the context is done the read ends, because pings stop and the read
deadline passes. The semaphore of the Iris client and the errgroup of the
registrations are only weakly fair. A lookup that refreshes competes for slots
with refreshes of other products without end, so `CoupangRefresh` assumes more:
errgroup.Go sends to a channel, which serves its waiters in order, hence strong
fairness of the lookups' steps. One condition for all lookups is
enough because each has finitely many steps to take; the same holds of the
client's own steps, and of `AppRuntime`, whose one condition (`Progress`) is that
as long as some goroutine can go on, one does: messages, signals, failures of
components and timeouts are outside of it. The other modules state no fairness:
their properties are safety properties.

## 5. Proofs

Every proof follows one line: an inductive invariant `IInv`, which TLC checks on
the run of its module first (all of them are written next to the module's
properties); `Init => IInv`; one lemma per part of the invariant or per group of
actions for `IInv /\ [Next]_vars => IInv'`; and then the properties, which are
conjuncts of `IInv`, follow from it, or are what a step from a state of it does.
Each proof module starts with facts about the operators its proofs share.

`IrisInboundProofs`, from `IrisAssumption` alone (a positive buffer, natural
bounds; any rooms, texts, window, worker counts):

- `Inductive`: `Spec => []IInv` with
  `IInv == TypeOK /\ PhaseOK /\ OrderOK /\ LossOK`.
- `TypeCorrect`: `Spec => []TypeOK`.
- `RoomsAreSerial`: `Spec => []SerialPerRoom`.
- `RoomsAreOrdered`: `Spec => InRoomOrder`.
- `NothingIsLost`: `Spec => []NoSilentLoss`.

`SerialPerRoom` is not inductive: it says nothing of workers that wait or idle.
`PhaseOK` adds that every live worker belongs to the latest connection and that
the client is past `close()` only when none lives (which is what `wg.Wait` gives);
two handlers of one room would then be one worker. Inline handlers exclude
workers because a configuration never changes. `InRoomOrder` needs `OrderOK`:
the queue of a live worker is increasing, above the latest handled frame of its
room, and below the frame the reader holds; a new connection starts with empty
queues of new workers, and the frames it reads are later than any before.
`NoSilentLoss` needs `LossOK`, about the moments at which a frame could slip
away: the reader holds one only between the duplicate check and the end of the
dispatch, for a room whose worker is still there, and the channels are closed by
the reader alone, after its last frame. Each conjunct is preserved action by
action, in one lemma per group of actions.

`AccessControlProofs`, from `AccessAssumption` (bootstrap principals among the
rooms and users, configuration and stored tables respect the foreign key; any
rooms, users, intents, commands):

- `Inductive`: `Spec => []IInv` with `IInv == TypeOK /\ SnapshotOK /\ StartupOK`.
- `TypeCorrect`: `Spec => []TypeOK`, with the foreign key of the tables.
- `ReloadsAreCurrent`: `Spec => ReloadIsCurrent`.
- `BootstrapIsRestored`: `Spec => BootstrapRestored`.

`ReloadIsCurrent` is about what a reload applies, hence about snapshots in the
making. `SnapshotOK` says what those hold: rows of the tables already queried,
and of these exactly the ones in the tables, up to the rows `touched` meanwhile.
One conjunct is about the moment between the rooms and the grants query, when a
grant still in the table has its room either in the snapshot or touched: a room
deleted there takes its grants with it. `StartupOK` says that before the
bot is up nobody but the startup changes tables, and that each principal is
in them or still to be added, wherever the startup is.

`LottoProofs`, from `LottoAssumption` (at least one line a recommendation,
natural bounds; any rooms, users and sizes of messages):

- `Inductive`: `Spec => []IInv` with
  `IInv == TypeOK /\ CalendarOK /\ FlowOK /\ OverlapOK /\ AnswerOK`.
- `TypeCorrect`: `Spec => []TypeOK`, with the foreign key of the shops and the
  unique lines of a user in a round.
- `DrawnRounds`: `Spec => DrawnRoundsAreClosed`.
- `OneRecommendation`: `Spec => RecommendedOnce`.
- `TrueAnswers`: `Spec => []AnswersAreTrue`.

`DrawnRoundsAreClosed` compares the round a request registers for with what the
site shows when the row is written. The request computes the round from its own
time and from a draw it may have read long before, so `CalendarOK` bounds what
can have been published meanwhile: no draw later than the one held at the
request's time (this is where the time limits of the HTTP calls come in, as
guards of `Tick` and `Publish`), and every draw the request may know is among
them. The lemma `OpenRound` shows that the round is then later, whichever draw it
was computed from. `FlowOK` says which draws a request can hold at each step and
which commands insert. `RecommendedOnce` needs `OverlapOK`: two running requests
of one user are both marked as having met, and one that is not marked still has
no recommendation when it comes to insert, since only a request of the same user
could have added one. `AnswersAreTrue` needs `AnswerOK`: no ticket is of a round
beyond the open one, and for a request that met no other of its user the rows it
has seen are those its own earlier statements left (`Told`), at each of its
steps. What a step of a room does is the subject of lemmas by
piece of state (its own request, tickets, calendar, flow, overlaps), each by
cases on the actions.

`CoupangRefreshProofs`, from `RefreshAssumption` and `ActorsAssumption` (readers,
their tasks and the watchlist are different actors; any products, lookups and
limits):

- `Inductive`: `Spec => []IInv` with
  `IInv == TypeOK /\ FlightOK /\ MarkMeansInFlight`.
- `TypeCorrect`: `Spec => []TypeOK`.
- `MarksMeanInFlight`: `Spec => []MarkMeansInFlight`.
- `RefreshIsSingleFlight`: `Spec => ImplementsSingleFlight`.

A row is marked as in flight by one actor and cleared by the same one, some steps
and possibly a crash later, so what `MarkMeansInFlight` needs is who holds the
flight: `FlightOK` says that an actor between the start and the end of a refresh
is the one the flight of its product names, and that a task which has not begun
still has its lookup in the scheduling. The refinement is a step-by-step
argument: each action starts a flight, ends one, or leaves all of them alone;
and the abstract specification admits the first only when the key is free,
which is what the code's test under the lock gives, and the second only to the
holder, which is `FlightOK`. A crash ends all flights, in both.

`CoupangRegistrationProofs`, from `RegistrationAssumption` (any lookups, tracks, limit
of products and settings):

- `Inductive`: `Spec => []IInv` with
  `IInv == TypeOK /\ FlightOK /\ RowsOK /\ SeedsOK`.
- `TypeCorrect`: `Spec => []TypeOK`.
- `ChartsSeededOnce`: `Spec => []SeededOnce`.
- `RegistrationIsSingleFlight`: `Spec => ImplementsSingleFlight`.

Seeds are inserted by lookups, by deferred bootstraps and by the watchlist,
without a constraint in the store. `RowsOK` says, of tracks that were never
evicted and with the coalescing on, what a lookup's place in the code tells of
the store: the row is there for one that found or registered it, absent for one
about to, and no two registered the same. `SeedsOK` traces each seed to the one
that inserted it. Without coalescing the property makes no claim, and neither do
the invariants. A lookup that hands its work to a deferred bootstrap is done with
its own (`FlightOK`), so the flight is not held twice.

`AppRuntimeProofs`, from `RuntimeAssumption`:

- `Inductive`: `Spec => []IInv` with `IInv == TypeOK /\ ErrorsOK /\ JobsOK`.
- `TypeCorrect`: `Spec => []TypeOK`.
- `RunReportsErrors`: `Spec => []ErrorsReported`.
- `NothingRunsAtClosing`: `Spec => []ClosingIsLast`.

`ErrorsOK` follows an error from the goroutine that fails to the value `Run`
returns: what failed is in the list unless it came first, and the list grows only
while the lifecycle waits or drains. For `ClosingIsLast`, a component that has
returned has left nothing running but what the property excepts: `JobsOK` says so
component by component (the executor, the tracker, the transport) up to the jobs
which slipped by the last look, and `closing` comes after all have returned.

The same module has the proofs of three more components of the process, which
share no state with the lifecycle or each other; that is why their modules name
operators apart (`QuoteInit`, `SportsNext`, `PageIInv`).

`QuoteCaches`, from `QuoteAssumption` (natural bounds; any codes and lookups):

- `QuotesInductive`: `QuoteSpec => []QuoteIInv` with `QuoteIInv == QuoteTypeOK /\
  CodesOK /\ EntryHeld /\ PricesOK /\ FetchesOK /\ TokensPriced /\ VenuesOK` and the
  three properties.
- `QuotesTyped`, `NeverGoesBack` (`NeverBackwards`), `CacheIsConsistent` (`CacheAgrees`),
  `ExchangesComeFirst` (`ExchangeFirst`).

`NeverBackwards` compares an answer with those given before its lookup began, so
the invariant says where a price is on its way: in an entry, in what a poll got,
in a lookup that stores or registers it. None is newer than the price of the
code (`PricesOK`), and of a code no two fetches of which overlapped there is one
fetch in hand at most, and what it brought is as new as all that was
answered or stored (`FetchesOK`). `CodesOK` and `EntryHeld` say which lookups these
are; no lookup touches an entry that is gone.

`SportsPoller`, from `SportsAssumption` (starts and boots are natural, boots within
the bound of time; any matches):

- `SportsInductive`: `SportsSpec => []SportsIInv` with `SportsIInv == SportsTypeOK /\
  RoundOK /\ DatesOK /\ NoticedOK /\ EventsOK /\ ShownIsToday /\ NextIsWholeDay`.
- `SportsTyped`, `ListsAreOfToday` (`ShownIsToday`), `NextAreWholeDays` (`NextIsWholeDay`),
  `StartsAreNoticed` (`StartNoticedInTime`), `EventsAreFinal` (`FinalEvents`).

A round polls for the date it began with and may end on the next day. `RoundOK`
and `DatesOK` say that no list is cached for a later date than that, so on
the new day no list is shown until a round of this day: the handlers fall back to
the next matches of the day before, which may be matches of this day
(`NextIsUpcoming` in section 6). `NoticedOK` bounds,
for every match listed as to come, when its list is read again: between rounds by
the ticker's time, in a round by whether the league is still to be polled. The
step that needs it is the end of a round, where the planner looks at one league
only: `Intervals` shows that whichever it is, it has a match, so the interval is
that of a match day. `SearchFootball` is the lemma behind `NextIsWholeDay`: a
Korean day lies in two UTC dates, and a UTC date in two Korean days. The first
match of the first date that has a coming one decides the day, in the order of the
provider, which nothing sorts; whichever of the two days it is, the search stops
only beyond the second of its dates. The property is about days the search is
sure to read whole (12 of its 14 for football).

`Dashboard`, from `DashboardAssumption` (scopes over finitely many rooms, a window
selected, positive limits; events in an order in which a command ends once, after
it was activated; any rooms, users, windows, events):

- `PageInductive`: `PageSpec => []PageIInv` with
  `PageIInv == PageTypeOK /\ RowsOK /\ MeFirst /\ TabsOK /\ DetailOK`.
- `PageTyped`, `PanelsFollow` (`PanelsFollowWindow`), `DetailFollows`
  (`DetailIsSelected`), `FiguresAreConsistent` (`FiguresAgree`).

The first two properties are about the moment when no load is under way. Before it, a
panel shows the selected window, or was lost, or has a latest load pending,
which is of the selected window (`TabsOK`); the detail may be waiting instead for
the list that will load it (`DetailOK`). `MeFirst` says that nothing but the
profile is loaded before it is known.

`FiguresAgree` needs of the invariant only the types and `RowsOK` (the rows are
the first events, each once, and those of a run in one room): the proof is about
the queries, one lemma for each group of panels. `TopExists`: an ORDER BY with a
LIMIT has an answer, and what it leaves out ranks no higher than what is in it.
`ScopeFacts`: a request for a room is answered for it or denied, and the list without
a room is for all rooms or those of the profile, so that every room in it has a
detail (`ListedHaveDetails`). `DetailsAgree`: the three filters choose the same rows,
a room that is not in the list has no request in the window or met a full list
(`ListFacts`), and so it is with the issues (`IssuesShown`). `SumOfUsage`: the
requests of all commands add up to what was completed; induction over a set of
commands is out of reach, so the lemma takes a smallest set for which the sum were
wrong, and shows that one command less is also wrong. `FunnelNarrows`: what ended
and was not under way when the first day began has its activation in the same days,
another one for each (`RunsInOrder`). `SameLocalDay`: today is a part of the last
day, whatever the zone. `SameDayIsNormal`: no threshold is passed by a day equal to
the one before. `RetentionIsOfCohorts`: a first day later than the day the
window begins in lies in the window, so the list of cohorts counts its users, too.

`AlertdProofs`, about the recorder, the backfill and the alert daemon together,
from `MetricsAssumption` and `AlertdAssumption`:

- `Inductive`: `AlertSpec => []AlertIInv` with
  `AlertIInv == IInv /\ AlertTypeOK /\ AlertOK` and, in `Metrics`,
  `IInv == TypeOK /\ LineOK /\ FillOK /\ RollupOK /\ EventsReachTheTable /\
  DuplicatesNeedOverlap`.
- `TypeCorrect`: `AlertSpec => []AlertTypeOK`, `TypeOK` included.
- `AcceptedEventsAreKept`: `AlertSpec => []EventsReachTheTable`.
- `OnlyOverlapDuplicates`: `AlertSpec => []DuplicatesNeedOverlap`.
- `EveryFailureAlerted`: `AlertSpec => []FailuresAlerted`.
- `CompleteDaysKept`: `AlertSpec => RecentDaysKept`, where raw events are not kept
  longer than daily rollups.

An accepted event is in the queue, in the buffer of the loop, or in the table:
`LineOK` says so and that these three are in order of time, which is what makes
"older than the raw retention" of one event tell something of the others.
`FillOK` says that a message which the backfill inserted and which is still on its
way, undispatched or recorded and not inserted, is one they overlapped on; it needs
the assumption that the outcomes of a request do not contain `message_received`, as
the dispatch of the router is the only one to record that event
(`internal/bot/router_dispatch.go:14-17`). `RollupOK` bounds the daily rollups by
what a rebuild would make of the table, for the days still complete: those of which
the cutoff has reached no tick. The proofs take of days only that they follow the
order of time. `FailuresAlerted` needs, for each failed reply, the poll
that ended the tick after it: its window reaches back over what was in the queue
at the one before. The hypothesis of `CompleteDaysKept` is the shipped
configuration (90 and 395 days); the validation does not enforce it, and
`DailyHistoryKept` (section 6) is about what happens beyond.

`DispatchProofs`, from `DispatchAssumption` (a positive burst, matches among the
sets the parser can make, and an access control that never denies the exempt
intents; any messages and rooms):

- `Inductive`: `Spec => []IInv` with `IInv == TypeOK /\ HistoryOK /\ \A m \in
  Messages : RouteOf(m) /\ LogOf(m) /\ PartsOf(m) /\ AnswersOf(m)`.
- `TypeCorrect`: `Spec => []TypeOK`.
- `OneOutcomePerCommand`: `Spec => []OutcomePerCommand`.
- `OneAnswerPerCommand`: `Spec => []AnsweredOnce`.
- `OneVerdictPerProduct`: `Spec => []VerdictOfAllParts`.

The three properties are about what is recorded, answered and summed up by the
time a message is through; the invariant says how far each of these is at every
step before. `RouteOf`: the handler a message is at, what is left of its plan, and
that each fallback is asked once. `LogOf`: a command that is dispatched has no
outcome while it runs and one afterwards, unless its lookup panicked. `AnswersOf`:
a message none of whose replies failed has no answer before its plan is
through, then one. `PartsOf`: a product is not begun, half told (the image was tried,
the text comes next) or told, and the tracker's parts are the ones tried so
far. The lemmas enumerate the plans by what a step of one leaves
(`CommandPlans`, `FallbackKinds`, `CommandNode`, `FallbackNode`, `LastNode`), show that
a step of a message leaves what the invariant says of every other as it is
(`StepElsewhere`, `KeptElsewhere`), count the events after one is recorded, and then
take one part of the invariant at a time.

Only model-checked: the liveness properties (`QueuedStarts`, `ShutdownCompletes`,
`ShutdownEnds`, `LinksAreReplied` and those of the Coupang modules) and everything
about `ENABLED`, which the prover does not handle. No module uses RECURSIVE
operators.

## 6. Disagreements between code and documents

One is a run, and `PROJECT.json` `findings` quotes it: async work of the tracker
does not observe the shutdown when deferred bootstraps fill the errgroup and
submit their seeds (`coupang_async_deadlock`).

Others are stated in the modules as properties the code does not keep, next to
those it does; no run checks them:

| Property | What the code does |
|---|---|
| `IrisInbound!EveryQueuedFrameStarts` | a room worker keeps its semaphore token while idle, so `room_worker_count` bounds the rooms of a connection, not the rooms being handled |
| `CoupangRefresh!WarmupCoversStale` | `refresh_in_flight` left by a killed process keeps a product out of the warmup and of every sweep; only a lookup clears it |
| `CoupangRefresh!StaleAnswerIsKept` | a detail of another product makes the read-through refresh dereference nil |
| `AccessControl!EveryWriteAudited` | an ACL change whose audit entry fails stays, and is never recorded: repeating the command changes nothing |
| `Dispatch!UnmatchedIsUnanswered` | a fallback whose reply fails apologises and reports that it did not handle the message, which is then asked on and recorded as unmatched |
| `Metrics!DailyHistoryKept` | a rebuild makes the daily rollups from the raw events, so they never outlive these, whatever `daily_retention` says; the day the raw cutoff is in is rebuilt from the rest of its events, its counts falling from one rebuild to the next (`internal/metrics/sqlite.go:332,399`) |
| `SportsPoller!LeadTimeKept` | the first league that has matches decides the interval, so another's match may start unnoticed for an hour |
| `SportsPoller!NextIsUpcoming` | after midnight, until the round of the new day, the next matches shown may be of this day and begun; and when the search finds no match the old ones stay, however long ago they were |
| `QuoteCaches!TokenPricesAgree` | the amount in KRW a poll preserves for a token is not recalculated until it is asked for again |

Worth knowing, though no document says otherwise: with several Iris instances the
reply of a summary names no adapter, and the composite refuses it
(`internal/command/url_summary.go:158`, `internal/transport/composite.go:74-77`);
`LinksAreReplied` only says that it is sent. Football shows as
the next day the day of the match its provider happens to list first, which may
hide a nearer one. Two overlapping reloads may be
applied in the order opposite to the one they read in, so a row one command took
away can be back in memory until the next reload (`ReloadIsCurrent` states what
does hold). A fallback that panics ends the process, since the middleware
recovers commands only. The dispatched event names the command by its id, the
outcome events of the middleware by its Korean name. Most handlers answer an
upstream failure with a text and count as success. A quantity of a stock that
does not resolve is not answered at all (`internal/command/stock.go:466`), and
theme replies discard their errors. "/차트" is said to remain available
(`internal/bot/router_parse.go:66-70`) but all slash messages are ignored. The
audience filter of the product panels compares the role of the viewer with an
audience that is always "customer", so an operator sees empty ones.

## 7. What is not modelled

In the modelled components: `Reply` of the Iris client (an HTTP call without
client state); messages without an id, which are deduplicated by text or not at
all; memory shared by pointer between leader and followers of a flight; panics
other than those of a handler, a lookup and a summary; the ranking of candidates and the keywords of a
resolution, its budget counters; price histories and the migration of the price
store; the fields of a coin quote read without a lock; the pruning of composite
states after two minutes, and composite ids of two Iris instances that collide;
stores a failed `Build` leaves open; the request goroutines of the admin server,
which returns before they end; restarts of alertd, which empty its deduper and
so only say more; odds, goal scorers and score changes of matches; market hours
and backoffs of feeds, which change when something is polled and not what is
stored; tenants and feature filters of the dashboard, and the rollups' other
dimensions. SQL is modelled by what a
statement does. `SeededOnce` leaves the startup backfill out, which no
flight coalesces.

Other components:

- *Automatic queries* (`internal/bot/auto_query.go`): no configuration constructs
  the policy manager, so the evaluation is dead code in this program.
- *Provider breaker* (`internal/scraper/providers/breaker.go`): a library breaker
  around every HTTP call; the models see a call that fails.
- *Providers* apart from what their schedules, quotes and rates bring: HTTP and
  parsing.
- *Configuration, catalogue*: constant after the start, the CONSTANTS here.
- *Formatting, charts, fortune, the calculator's expressions*: pure translation
  and layout; no property is about them. Lists of themes, `memory_cache.go`
  (unused) and the smoke runner of the admin page are left out too.

Known hazards outside of these models: a failed football fetch replaces a list
by what the other fetches brought; a partial refresh of the Naver themes
truncates the list (`internal/scraper/theme_index.go:109`); the backoff of the
websockets is never reset.

## 8. Plan

| Module | Composes | Runs | Theorems |
|---|---|---|---|
| `IrisInbound` | | 1 | types, serial, ordered, no silent loss (done) |
| `CoupangRegistration`, `CoupangRefresh` | `CoupangResolution`, `SingleFlight` | 3 | types, the refinements of `SingleFlight`, `SeededOnce`, `MarkMeansInFlight` (done) |
| `AccessControl` | store, audit log, snapshot, commands | 1 | types, reloads, startup (done) |
| `Lotto` | service, store, site | 1 | types, drawn rounds, recommendations, true answers (done) |
| `AppRuntime` | transports, executor, tracker, lifecycle | 1 | types, `ErrorsReported`, `ClosingIsLast` (done) |
| `Dispatch` | router, middleware, handlers, reply tracker | 1 | types, one outcome, one answer, one verdict (done) |
| `Metrics`, `Alertd` | recorder, backfill, poller | 1 | types, the four safety properties (done) |
| `SportsPoller`, `QuoteCaches` | pollers, caches, handlers | 2 | types, the four and the three safety properties (done) |
| `Dashboard` | page, server, queries | 1 | types, the three safety properties (done) |

All modules of the plan are written, and every safety property a run checks is a
theorem. Of the model, the price histories of the store and the budgets of the tracker are what a further
module could be about.
