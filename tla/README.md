# bittuly: TLA+ verification project

bittuly is a URL shortener: three Rust services (url-service, auth-service,
consumer-service) around two PostgreSQL databases with read replicas, Redis and
RabbitMQ, and a React front end. These modules model the parts of it where steps
of several processes, caches and queues interleave. TLC checks them on small
instances; TLAPS proves nearly all the safety properties for every value of the
constants. Both the Rust services and the React client are modelled.

Paths below are those of the repository. `PROJECT.json` lists the components,
runs, mutants, the map from definitions to source lines, findings and hazards.

## 1. Inventory

| Component | Where | State | Operations | Talks to |
|---|---|---|---|---|
| Redirect path | `services/url-service/src/handlers.rs` 109-203 | Moka cache per instance (3 s, one load per key), Redis keys (TTL or none) | `get_original_url`: look-up, load (Redis, then replica), background fill, answer with expiry re-check | Redis, urls replica, publisher |
| URL rows | `repository.rs` 63-200, `handlers.rs` 77-107, 205-225 | table `urls`, UNIQUE(original_url, user_id) | shorten, reactivate an expired row, delete (then Redis DEL), list a page | urls primary and replica, Redis |
| Click publisher | `handlers.rs` 180-192, `libs/shared/src/rabbitmq.rs` 102-132 | a spawned task per redirect | publish the short code | `click_events_queue` |
| Click consumer | `services/consumer-service/src/main.rs` 104-207, 358-380 | batch, total, last delivery tag, failure count | read, flush by size or by 30 s timer, cumulative ack or nack, back off | RabbitMQ, urls primary |
| User-deletion consumer | `main.rs` 46-81, 209-346 | the delivery it works on | DELETE, DEL per code, ack; on failure republish to a retry queue or the DLQ, ack | RabbitMQ, urls primary, Redis |
| Account deletion | `services/auth-service/src/handlers.rs` 166-196 | table `users` | DELETE, then publish | users primary, `user_deleted_queue` |
| Signup, login, update | `services.rs` 39-166, `handlers.rs` 52-261 | table `users`, pending tokens | request OTP, verify, log in, update | users primary and replica, e-mail |
| JWT session | `libs/shared/src/jwt.rs` | access (15 min) and refresh (30 d) cookies | verify, refresh, set, clear | every protected route |
| Dashboard | `web/src/pages/Dashboard.tsx`, `components/UrlItem.tsx` | list, cursor, search, form, a row's dialogs and copy button | search, load more, create, delete, copy | url-service |
| Browser session | `web/src/context/AuthContext.tsx`, `Login`, `Signup`, `VerifyOtp`, `Profile`, `Settings` | user of each tab, stored user id, cookies | restore, sign in, verify, update, sign out, delete | auth-service |
| Theme | `web/src/components/theme-provider.tsx` | theme of each tab, one localStorage item | choose, key d, storage events, system preference | the other tabs |
| Health page | `web/src/pages/Health.tsx`, `api/health.ts` | last report, spinner, countdown | fetch on mount, every 30 s, by hand | url-service |
| Insights page | `web/src/pages/Insights.tsx` | one page of links | load, derive totals, pie, bars, colours | url-service |
| Layout | `web/src/components/ui/sidebar.tsx`, `hooks/use-mobile.ts`, `AppSidebar` | panel, sheet, menu, cookie | toggle, shortcut, resize, navigate | the window |
| Wiring | `config.rs`, `telemetry.rs`, `metrics.rs`, `health.rs`, nginx, k8s, CI | - | start-up, observation | - |

What is hard, and what makes each part correct:

- **Click consumer.** Counts are in memory, messages at the broker, totals in
  PostgreSQL, and a crash, a failed or half-failed UPDATE, a dead channel or a
  nack can come between any two of them. Correct: no click is lost; without a
  failure each is counted once; each is counted in the end.
- **User deletion.** At-least-once delivery, retries through TTL queues, a count
  in a header. Correct: the event survives until its DELETE commits, is retried
  with the right delay through queues that exist, is given up only after four
  failures, is not multiplied, and the cascade evicts every code it deletes.
- **Redirect path.** Two cache levels, a lagging replica and a fill that runs
  behind the answer's back. Correct: a deleted or expired URL stops redirecting
  within a bounded time, a 404 is true or recent, a thundering herd loads once,
  nobody waits for a load that died.
- **URL rows.** Check, then act, outside a transaction. Correct: one row per URL
  and user, one winner among concurrent requests.
- **Pages.** Keyset cursor over a table that changes. Correct: no row that stays
  is skipped or repeated.
- **Signup and session.** Stale replica at request, unique constraint at
  verification; tokens outlive what they stand for.
- **Dashboard.** Answers in any order over local edits. Correct: the list is that
  of the current search and its cursor belongs to it; paging repeats and skips
  nothing; a spinner ends.
- **Browser session.** Tabs share cookies and the stored id but not the user;
  answers arrive late, after a reload, or not at all. Correct: both cookies are of
  one user, the user shown is the one requests are made for, no protected page
  stays without a user.
- **Forms, rows, theme, health, layout.** Timers that are started and never
  stopped, input typed over while a request is under way, storage and media
  events that are handled later than what they tell of. Correct: what is shown for
  a moment ends; an error is about what stands in the field; tabs agree on the
  theme; a report has a bounded age; the toggle acts on the sidebar on the screen.
- **Insights.** Three pictures ranked separately, with limits and ties. Correct:
  the pie adds up and a link has one colour.

Hazards are listed in `PROJECT.json`, each at its line.

## 2. Modules

### ClickPipeline (MCClickPipeline, ClickPipelineProofs)

The path of a click from the redirect's spawned publish to `urls.click_count`.
Clicks are named. `batch` is the HashMap split by click; `unacked` and `queue`
are the broker's side; `stream` is what lapin has prefetched; `counted` is what
each click added to its row. `pc` names the awaits of the loop: `select`,
`flush` (the UPDATE), `ack`, `backoff`, `down`.

Actions: `Publish`, `PublishFails`, `DeleteRow`, `Deliver`, `Read` (the delivery
arm), `Tick` (the timer arm), `FlushOk`, `FlushFails` (no effect, or committed and
unanswered), `Ack`, `Nack`, `Disconnect`, `BrokerRestart`, `Crash`, `Restart`. Both
arms of the `select!` run the same flush, so they share its actions. A dead
channel does not end the loop in the code and does not in the model; the broker
then redelivers to whichever process connects next.

### UserDeletion (MCUserDeletion, UserDeletionProofs)

`delete_user` (DELETE, then a publish whose result is ignored), the broker's
queues as a bag of messages (queue, user, retry count), and the consumer: `Take`,
`DeleteUrls` or `DeleteUrlsFails`, `Evict` per code or `Republish`, `Ack`.
`DeadLetter` is the TTL of a retry queue. The url-service is present as `Shorten`
(a token of a deleted user still verifies), and with the two steps of a redirect
that misses Redis: `ReadRow` is the SELECT, on a replica that may still have the
row (`lagging`, until `Replay`), `EndFill` the spawned task that sets the key some
time later, or never. Names and counts are computed as in the code: `RetryQueue(n)`
is the queue declared with the delay 3^(n+1), if one is (`QueueOf`), and `msgs`
counts what is sent to no declared queue, too, so that `TypeOK` can say that nothing
is. What is lost there is seen by `EventNotLost`.

### RedirectCache (MCRedirectCache, RedirectCacheProofs)

One short code, since codes share only the capacity of the caches. `row` and
`replica` hold the expiry of the row if it exists, `redis` the moment its key
lapses, `l1` an entry per instance, `leader` the request whose load an instance
waits for, `fill` the spawned Redis fill of a request. Actions follow
`get_original_url` await by await: `Start` and `Retry` (`try_get_with`),
`RedisGet`, `DbGet`, `LoadDone`, `Respond`; `Cancel` is a handler dropped at an
await; `FillTtl` and `FillSet` are the two steps of the spawned task; `DeleteRow`
then `DelOk` or `DelFails` is the delete handler (a handler dropped between the
two is a `DelFails`). `Create`, `Reactivate`, `Replicate`, `RedisEvicts`,
`InstanceCrash` and `Tick` are the environment. Time is in seconds, like
`timestamp()` in the TTL. The bounds on a request (`RequestTime`) and on a SETEX
(`FillDelay`) are parameters: the code sets none, so the time properties are
stated relative to them.

### UrlStore and ShortenUrl (MCShortenUrl, ShortenUrlProofs)

`UrlStore` is what POST /api/urls promises: a user has one link for a URL, codes
are never reused, and each request ends in `Create`, `Renew`, `Conflict` or `Fail`,
each one atomic step; the answer of a link that was created or renewed may be lost,
and the request then ends in an error. `ShortenUrl` is the code, statement by
statement: `Select`, then `Reactivate` (UPDATE ... WHERE url_id, which commits on
its own), or `Insert`, `SetCode` and `Commit` of a transaction, which waits for
another that holds the same key (`KeyIsHeld`). `Reactivate` and `Commit` may take
effect and lose their answer; `Abort` is a statement that fails without effect or a
dead process, `DeleteUrl` and `Expire` are the environment. A
row's code is its `url_id`, since base62 is one-to-one. The refinement mapping
takes `rows` to `links` and the statement a request is at to how far its request
is (`Progress`): everything before an answer is "asked", except that a request on
its way to the UPDATE has "noticed" an expired link. `Renew` may therefore renew a
link that another request has renewed since, which is what the code does.

### Session (MCSession, SessionProofs)

auth-service's `users` and its replica (`accounts`, `replica`), the browser's two
cookies (`jar`), the stored id, and per tab the user, the page, and whether it is
booting. A request is a record that carries the cookies of the moment it was sent;
`Serve` runs one of `Login`, `RequestSignup`, `VerifyOtp`, `GetUser`, `UpdateUser`,
`DeleteUser`, `Logout` behind `Protect` (jwt_auth with its refresh); the tab's
handlers (`Booted`, `LoggedIn`, `Verified`, `Updated`, `SignedOut`, `FormFails`)
take the answer, or a failure, whatever the tab has become; `Orphan` is the answer
of a tab that was left, whose cookies are stored all the same. A form is disabled
while its request is under way, but by component state: once its page is left
(`Unmounted`), another mount of it starts enabled. `pending` holds the pending tokens
that the tab's history keeps with its entries of /verify-otp, to which the way back
may lead. Two requests that are alike in everything are one. `AccessExpires` and
`AccessCookieGoes` are the two ways an access token ends, `Load` a (re)load,
`Visit` a navigation through the guards of the router. The ghost `crossed` records
that requests overlapped, an answer was cut off, or another tab signed in.

### Dashboard (DashboardProofs)

The table and its replica on one side (`ServeList` is `get_urls_page` with limit +
1, `ServeCreate`, `ServeDelete`, `Replicate`, `Elsewhere` for other tabs), the page
on the other: `TypeSearch`, `Debounce` (the effect that loads the first page),
`FirstOk`/`FirstFails`, `LoadMore`, `MoreOk`/`MoreFails`, `Shorten`, `ShortenOk`,
`DeleteRow` (optimistic), `DeleteOk`, `DeleteFails` (which reloads), `ReloadOk`. No
answer is compared with what was asked last, in the code or here. `made` and
`pages` split the list into rows prepended after a POST and pages of the cursor, so
that order can be stated. The ghosts `overlapped`, `failed` and `tangled` record when
list requests overlapped or failed and when a page was appended to another list.

### ShortenForm, OtpForm, UrlItem (WebProofs)

The form of the dashboard, the form of the code, one row with its details,
confirmation and copy button: what is typed over while a request is under way,
timers that run on, clicks that go up from a dialog to the row it is rendered in.

### Theme, HealthPage, AppShell (WebProofs), InsightsPage (InsightsPageProofs)

`Theme`: every tab's state, its queue of storage events, the system's preference
and its listener; `crossed` records a tab that wrote before it had handled its
events. `HealthPage`: time in seconds, fetches with an age, the interval, the
spinner's timer, the countdown. `InsightsPage`: the load, and what is derived from
it as operators over sequences (`PieData`, `BarCells`, `TableDots`, `StatCards`).
`AppShell`: panel, sheet, media query and its late event, menu, cookie.

`MCWeb` composes the eight components of the web client for TLC. They share no
state, so in each behaviour one of them moves (`scene`) and the others rest: the
states to check are the sum of the components', not their product. Each component
has its own specification, about which the proofs are, and `WebRunsEach` in
`WebProofs` shows that MCWeb implements all eight.

Modules compose in their messages and rows: the row a redirect reads in
RedirectCache is what `DeleteRow` removes in ClickPipeline, `DeleteUrls` in
UserDeletion and `DeleteUrl` in ShortenUrl; the accounts of Session are those
UserDeletion deletes.

## 3. Runs

| Run | Bounds | Shows |
|---|---|---|
| `click_pipeline` | 3 clicks, 2 codes, flush at 2, any 2 of 5 faults | `NoClickLost`, `ExactlyOnceWithoutFaults`, `BatchMirrorsUnacked`, `EventuallyCounted` |
| `user_deletion` | 1 user, 1 code, 2 requests, any 4 of 7 faults (256,086 states) | `EventNotLost`, `RetriesAreEarned`, `CascadeEvicts`, `NoDuplicateEvents`, `EventuallyResolved` |
| `redirect_cache` | 2 instances, 2 requests at once, expiry 2 or never, L1 2 s, delays 1 s, 7 ticks | `SingleFlight`, `RedisOutlivesRowBriefly`, `ExpiredStopsRedirecting`, `DeletedStopsRedirecting`, `NotFoundIsTrue` |
| `redirect_liveness` | 1 instance, 3 requests, 2 ticks | `RequestsAnswered` |
| `shorten_url` | 2 keys, 2 requests at once, 2 ids (242,900 states) | `ImplementsLiveStore`: ShortenUrl implements UrlStore, liveness included |
| `session` | 2 tabs, 3 requests of which 2 overlap, 3 users (1 registered), 2 e-mails (833,051 states) | `TokensMatch`, `ShownIsAuthenticated`, `PagesHaveUsers`, `EmailsUnique` |
| `web` (Dashboard) | page size 1, 3 of 4 rows at first, 2 searches, 2 loads and 1 deletion at once, 3 changes | `PagesInOrder`, `NothingSkipped`, `OrderlyListIsCurrent`, `BusyMeansRequest` |
| `web` (forms, row) | 3 copies, 2 tries of a code | `ErrorsAreAboutInput`, `MomentsEnd` |
| `web` (Theme) | 2 tabs, 4 writes | `ShownIsResolved`, `TabsAgree` |
| `web` (HealthPage) | interval 3, requests of up to 4 s | `HealthIsFresh`, `SpinningEnds`, `BannerMatchesCards` |
| `web` (InsightsPage) | 5 links of 0 to 2 clicks, 4 asked for, pie of 2, bars of 3, 3 colours | `PieIsWhole`, `ColoursAgree` |
| `web` (AppShell) | 3 pages, 1 in the menu | `TogglesWhatIsShown` |
| `click_overcount` | 1 failed UPDATE | finding: `ClickCountedOnce` is violated |
| `deletion_orphans` | no fault | finding: `NoOrphans` is violated |
| `deletion_eviction` | 1 crash | finding: `AckedMeansEvicted` is violated |
| `redirect_deleted_key` | 1 instance, 1 request | finding: `DeletedKeyStaysGone` is violated, in the trace by a SELECT on the lagging replica when the row is gone |
| `redirect_expired` | 1 instance, 1 request | finding: `ExpiredIsGone` is violated |

Why the bounds are enough. *Clicks*: three clicks and a threshold of two give a
flush by size with one delivery prefetched behind it, a flush by timer, a
two-click code and a second code; two faults give a failure during recovery from
another. *Deletion*: four faults are the four failed DELETEs that reach the
dead-letter queue, or a crash in the middle of a retry; two requests give a
repeated deletion. One code is enough for what may come between a row, its DEL and a
late fill; codes meet only in the set that a DELETE returns, and `CascadeIsComplete`
is proved for any number of them.
*Cache*: two instances are needed for Redis to be filled by one and read
by the other, two requests for a leader and a waiter; seven ticks reach the end of the
longest stale interval of a row that expires at 2 (2 + FillDelay + StaleFor = 7).
*Shortening*: two requests for one key meet in
every pair of statements, two keys keep them apart, two ids allow a row to be
deleted and made again; conflicts and rollbacks use up ids too. *Session*: two
tabs are two users of one jar; two requests that overlap are the shortest
overtaking, and a third comes after it; a second free user can take an e-mail that
the first was promised. *Web*: four rows and pages of one give a list of three
pages with a row created on top; requests longer than the interval make health
fetches overtake each other; five links against limits of four, two and three
cross every limit, and 0 to 2 clicks give ties and zeros.
`redirect_cache` uses symmetry of instances and requests and `session` of tabs and
of the users without an account: they occur only in functions, sets and
quantifiers, and neither run checks liveness; the liveness runs use none. `CHECK_DEADLOCK FALSE`
everywhere: a run stops when its clicks, requests, faults or ticks are used up.

Each property of a passing run has a mutant in its module (`\* Mutant:` comments),
a plausible slip in one mapped definition that TLC must find with that property.

### Fairness

- ClickPipeline: the publish task runs, the broker pushes ready messages, the loop
  polls (tokio polls a ready task; the interval fires), Kubernetes restarts a
  process that ended. Faults stop only because `MaxFaults` bounds them.
  `EventuallyCounted` assumes in its premise a channel that is up for good.
- UserDeletion: handlers run to their end, TTLs expire, the loop polls, restarts
  happen. Same premise in `EventuallyResolved`.
- RedirectCache: every handler is polled. `RequestsAnswered` assumes that clients
  stop going away, since a waiter may otherwise lose to a new leader that is
  cancelled in turn, again and again. Fills, replication and the clock are not
  fair: no property needs them to happen.
- ShortenUrl: `Step(r)` of each request is weakly fair: the database executes each
  statement, and a handler goes on. `Insert(r)` is strongly fair: it waits while
  another transaction holds its key, and PostgreSQL wakes it whenever that one ends,
  even if a third then takes the key again and again. `Abort` is not fair, so that no
  request is answered only because it may fail. `UrlStore` has weak fairness of
  `Answered(r)`.
- The web client's modules state no fairness and no liveness: a user need not
  press anything. That nothing hangs is stated as an invariant instead, that what
  is busy has a request or a timer under way that ends it (`BusyMeansRequest`,
  `SpinningEnds`, `MomentsEnd`, `PagesHaveUsers`).

## 4. Proofs

For every value of the constants, from the named assumptions in the modules
(types of the constants; `Never` beyond every time; an entry of the in-process cache
lives for at least a second; the pie has fewer than twenty slices, 7 in the code):

- `ClickPipelineProofs`. `NoClickLost` is not
  inductive: an ack settles by tag, so the proof needs that tags in the stream are
  above what was read (`TagOrder`), that what was read is at or below the last tag
  (`ReadCovered`), in the batch until a flush (`ReadInBatch`) and settled once it
  succeeded (`ReadSettled`); and that a dead channel has no deliveries (`Offline`).
  `ExactlyOnceWithoutFaults` follows from `InOnePlace` (without a fault a click that
  waits anywhere is counted nowhere), `BatchMirrorsUnacked` from `MirrorInv` (the
  same agreement at each place of the loop, not only where it waits).
- `UserDeletionProofs`. `TypeOK` claims that the consumer never names a queue nobody
  declared: `RetryQueueDeclared` and `RetryOrDlqDeclared` compute its names and
  counts from the count in hand, which is three at most (`TypeOK` itself), since it
  was so when the message was sent. `EventNotLost` and `RetriesAreEarned` need what
  the consumer has in hand (`Holding`, `JobEarned`) and that an event in hand is kept
  by the broker too (`EventKept`). `CascadeEvicts` is a property of steps: a key is
  newly left behind only by one of its four accidents. It needs that nothing is left
  to evict except while evicting (`EvictInv`), so that a DELETE overwrites no pending
  codes.
  `NoDuplicateEvents` counts the copies of a user's events in a bag. The proof counts
  them as a finite set of pairs, a message and a number up to its multiplicity, so
  that sending adds one pair and taking removes one; `CountInv` says that these pairs
  and what is in hand are no more than what was published, unless a fault that may
  duplicate has happened.
- `RedirectCacheProofs`. `SingleFlight` from `LoadingLeads` (who loads is the leader
  of its instance); `RedisOutlivesRowBriefly` from `KnownExpiries` and `FillsInTime`
  (a spawned fill knows no expiry later than the latest, and a SETEX on its way
  ends there if it arrives at once). The three action properties on stale answers
  follow from `AgeInv`, which dates what each load, cache entry and answer knows
  (`Known`): a miss is dated by the replica's last absence, a hit by the latest
  expiry or by the DEL that settled; every copy of it, into an entry or to a
  waiter, costs at most the life of the entry and a request.
- `ShortenUrlProofs`. `IdsAreFresh` (the id of an open transaction is issued to
  nobody and drawn by no other) and `KeysAreHeld` (its key has no row and no other
  transaction) make the types inductive and give the step simulation
  `ImplementsAtomicStore`: every initial state and every step of ShortenUrl maps to
  one of UrlStore or to a stutter.
- `DashboardProofs`. `CallsMatch` (each slot holds requests of its kind),
  `LagIsHarmless` (ids only grow, so that the replica, and an answer read from it,
  lacks none of the rows that were read before and still exist), `MoreContinues` (a load-more whose list has not changed asks
  where it ends), `AboveCursor` (what is below the cursor was not shown), and
  `OneAtATime` for the runs without overlap.
- `SessionProofs`. `AnswersAreHonest` (what an answer carries is of the user whose
  request it was), `JarsMatch` (the two cookies are of one user, also in the jars
  of requests under way), `OneRequest` (unless `crossed`, at most one request is
  under way, of a tab that shows its user or none).
- `InsightsPageProofs`. What is loaded is loaded newest first (`UrlsAreNewest`), and
  from that `PieIsWhole` and `ColoursAgree` follow for any number of links. A fold
  has no prefix function of its own: `AddingFolds` and `ActiveLinksAre` show, by
  induction over the places of the sequence (`UpTo`, from well-foundedness of the
  naturals), what every function that satisfies the fold's equation computes. A
  total is the size of a pile with one item for each click (`TotalIsPile`), which
  neither sorting nor leaving out links without clicks changes. A sorted list holds
  each link at its rank, the number of links before it (`RankFacts`,
  `SortedByRank`), and a link with clicks has no link without clicks before it
  (`RanksAgree`): pie, bars and table therefore agree on places, and so on colours.
  That some slice has a label is where the bound on the number of slices is needed.
- `WebProofs`, theme. `OnlySystemListens`, and `EventsCatchUp`: the last event a tab
  has still to handle, or its theme if there is none, is the stored item.
- `WebProofs`, health page. `AnswerExpected` (there is always a fetch under way, or
  one due, recent enough to refresh the report), `OneByHand`, `ReportIsHonest`.
- `WebProofs`, forms, row and shell. `ErrorsAreAboutInput` needs that nothing is
  shown while a request is under way (`QuietWhilePosting`); the counters of
  `MomentsEnd` keep their types because timers are at most as many as tries and
  presses (`TimersAreOfTries`, `WritesAreOfPresses`);
  `TogglesWhatIsShown` that React knows the width of the window unless an event is
  on its way (`MobileIsKnown`).
- `WebProofs`, composition. An initial state of MCWeb is one of every component and a
  step of MCWeb is a step of one and a stutter of the others; `WebRunsEach` follows,
  and with it the properties of each hold of MCWeb.

The refinement, all type invariants and all the safety properties that passing runs
check, state invariants and action properties, are so proved. Model-checked only:
liveness (`EventuallyCounted`, `EventuallyResolved`, `RequestsAnswered`, the fairness
half of `ImplementsLiveStore`), which is out of the prover's reach. The runs that
expect a violation stay with TLC too: a counterexample is their proof.

## 5. Findings

Twenty are in `PROJECT.json`. Five disagree with a document of the repository and
have a run that shows it: a failed flush counts clicks twice; a deleted user's
token creates URLs no event removes; a crash between DELETE and DEL leaves keys for
good; a late fill, of a row read on the lagging replica or before the deletion,
brings the key of a deleted URL back; an entry from Redis is not
re-checked for expiry. The others need no run, as the definition they name shows
them:

- services: a deletion leaves the Moka caches alone; messages are not persistent;
  an expired access cookie is gone before it could be refreshed; logout needs an
  access cookie, and a refresh may set both cookies again after it; two requests may
  both renew an expired URL;
- dashboard: older answers replace newer ones, a failed deletion reloads without
  the search, what is typed during a POST is cleared;
- elsewhere in the client: a failed boot forgets the user; every failure of a code
  is "Incorrect code"; the sidebar's cookie is never read; clicks in the
  confirmation dialog open the details; Insights shows at most 100 links as if
  they were all, and a failed load as none; the health countdown is reset by
  answers that leave the interval alone.

The properties of the client are stated so that they hold beside these: under
the ghosts that record an overlap (`overlapped`, `tangled`, `crossed`), never by
leaving the overlapping steps out.

## 6. What could come next

1. A composition of UserDeletion with RedirectCache: UserDeletion has the cascade's
   DEL against late fills of rows that do not expire, RedirectCache the time that a
   stale key lasts; how long a deleted user's links redirect needs both.
2. A version of Dashboard that compares each answer with the current search, to
   show that `OrderlyListIsCurrent` then holds without its premise.

## 7. Not modelled

Password hashing, e-mail text, the development OTP store, configuration, metrics,
telemetry, the server side of health endpoints, nginx, Kubernetes manifests, CI:
they keep no state the properties are about. UI primitives are styled wrappers of
a component library, most of them used by no page; those with state that pages
use are modelled where they are used.

Within modelled parts: the capacity of the Moka cache (a million entries) and of
the broker is not bounded. A malformed message cannot be produced by the
publishers and its discard branch is left out. The refresh token's own 30 days do
not end. Of the client, toasts, the highlight of a new row, percentages, dates,
tooltips, uptime and version, the 422 of a code that the form does not let
through, the page for unknown paths, the text "No links yet." while more rows are
behind the cursor, and a reactivated row that stands in the list twice until the
next load.
