# Garba Partner: TLA+ specifications and proofs

Garba Partner is a web service where adults find a dance partner for garba nights, chat with
them and buy passes for events. The API (`apps/api`, Express, Sequelize, PostgreSQL, Socket.IO)
holds all the rules; the member app (`apps/web`) and the admin app (`apps/admin`) are React
clients of it, with a cache of queries, a session shared by the tabs of a browser and a chat
socket of their own. This directory models the places where several requests, a background job,
an external provider, a second tab or a restart meet on the same state, checks them with TLC and
proves the most important invariants with TLAPS.

Run a configuration with `tlc -config MCPassSalesCapacity.cfg MCPassSales` and a proof with
`tlapm PassSalesProofs.tla`. `PROJECT.json` lists runs, mutants, the correspondence of every
definition with source lines, findings, hazards and theorems.

## 1. The system

| Component | State it keeps | Operations | Talks to |
|---|---|---|---|
| Checkout and payments (`modules/payments`) | `orders`, `payments`, `event_bookings`, `payment_webhook_events` | `createOrder`, `verify`, `handleWebhook`, `finalize`, `startRefund`, `applyRefund`, `onRefundWebhook`, `refundBooking` | Razorpay (HTTP calls and webhooks), the event row, notifications |
| Expiry job (`payment-jobs.ts`) | a `running` flag | `expireOrders` every minute | Razorpay, `finalize` |
| Admin events and organizers (`modules/admin/events`, `organizers`), attendance | `events`, `event_organizers`, `event_attendance`, images | publish, unpublish, archive, restore, update, verify, `updatePass`, image upload | the event row lock is shared with checkout; events and organizers read each other |
| Interests and matches (`modules/interests`) | `partner_interests`, `matches` | `send`, `accept`, `reject`, `withdraw`, `unmatch` | discovery (eligibility), the pair lock, notifications, sockets |
| Chat (`modules/chat`, `realtime`, web `features/chat`) | `messages`, read positions; the conversation on screen | `send`, `markRead`, socket events, REST fallback | the pair lock, suspicious-activity detection, notifications |
| Safety (`modules/safety`) | `blocks`, `reports`, `user_sanctions`, cached account status and flags | block, unblock, report, warn, restrict, suspend, ban, lift, timed expiry, automatic hiding | ends interests and matches, revokes sessions, disconnects sockets |
| Admin moderation (`modules/admin/users`, `matches`, `reports`) | assignment and resolution of reports | restrict, close a match, review, resolve | safety |
| Sessions (`modules/auth`, `modules/admin/auth`, the apps' `api-client.ts`) | `user_sessions`, `admin_sessions`, lockout counters; the refresh cookie, each tab's token | login, refresh with rotation, logout | sanctions revoke sessions; tabs take turns by Web Locks |
| Phone sign-in (web `features/auth`) | the pending number, the reCAPTCHA check, the accepted code | request, resend, confirm | Firebase |
| Notifications (`modules/notifications`, `whatsapp`) | `notifications`, `notification_deliveries` | notify, push, reminders, purge, deliver by SMS/WhatsApp, delivery reports | Meta, sockets |
| Profiles (`modules/profiles`, `providers/media`) | profile, preferences, photo and its badge; the stored file | create, update, upload, delete | the media storage |
| Discovery (`modules/discovery`) | none | one SQL query with the eligibility rules and the ranking | read by interests and the partner page |
| Dashboard, lists (`admin/dashboard`, `lib/pagination.ts`) | none | periods, figures, buckets; keyset pages of every list | all tables |
| Infrastructure | log queue (`api-logs`), in-memory limiters (`lib/sliding-window.ts`) | record, flush, close, `take` | every request |
| Web and admin app | routes, guards, cached queries, mutations | navigate, fetch, save, invalidate, sign in and out | the API, socket pushes |

What is hard in this code:

* `finalize()` is reached by the browser (`verify`), by webhooks and by the job, at the same time
  and repeatedly; an order has several Razorpay payments; holds lapse while members pay.
* Refunds run outside transactions: read, HTTP call, two writes, with webhooks in between.
* Interests, matches, chat, blocks and reports are serialised by an advisory lock per pair, but
  the rules are checked before the lock is taken, and three operations do not take it.
* Sanctions, their expiry, sign-ins and refreshes lock the same rows in different orders.
* A refresh token is used once, by tabs that share a cookie, over a network that loses answers.
* A message has two ways to the server and four ways to the screen.
* Provider calls sit between a claim and its record; files and rows share no transaction.
* A restart can fall between any commit and what follows it.

What makes each part correct: seats are never oversold, captured money
ends as a booking or a refund, a booking rests on exactly the money it was sold for (checkout);
a refund shown is a refund made, and never for a valid pass (refunds); one open thing per pair
and nothing across a block (connections); reports hide and keep their evidence (moderation); the
cached account status agrees with the sanction rows, and everything that waits ends (accounts);
tabs that take turns keep their session (sessions); every wrong password counts (admin sign-in);
one send per notification and channel, one reminder per date (deliveries); a message once (messaging); badges,
photos, areas and rows that agree (profiles, catalogue, pictures); lists without gaps (paging);
pages that show what was saved (screens).

## 2. Modules

Each module models one component with its own variables, initial predicate and next-state
relation; module names, variables and actions keep the code's names where possible, and the `map`
of `PROJECT.json` gives the lines of every definition. A transaction that holds the lock of what
it reads is one action. A handler is split where it awaits a provider between transactions, or
where it reads something it does not lock.

### PassSales, SalesLedger, SeatLedger

PassSales models the sale of the passes of one event: `payments.service.ts`,
`pass-availability.ts`, `payment-jobs.ts` and the operations of `admin-events.service.ts` that
share the event row.

| Variable | Code |
|---|---|
| `event` | the `events` row: status, schedule, capacity |
| `orders` | `orders`, keyed by member and idempotency key (the unique index) |
| `attaching`, `issued` | requests inside `attachRazorpayOrder()`, Razorpay orders created for an order |
| `payments`, `bookings` | `payments`, `event_bookings` |
| `remote`, `seen` | Razorpay's payments and the statuses it announced |
| `handlers` | `finalize()` calls that have fetched a payment and not yet committed |
| `job` | a run of `expireOrders()`: the batch, the answers, the order to expire |

`CreateOrder`/`JoinOrder`, `Attach`/`AttachFails`, `Webhook`, `Verify`, `Finalize`, the `Job...`
actions and the event actions are the operations. `FinalizeThenStop` and `Restart` are the
process stopping at its worst moment.

`SeatLedger` is the abstract specification: claims on seats that are free, held, lapsed, sold or
returned, with no orders, payments, webhooks, jobs or clock. `SalesLedger` gives the refinement
mapping (an order's row, its booking and the clock together are the state of a claim), and
`ImplementsSeatLedger` says that every step of PassSales is a step of the ledger or a stutter.

### Refunds

`startRefund`, `applyRefund`, `onRefundWebhook`, `refundBooking` and the branches of `finalize()`
that ask for money to go back. Handlers in flight are records in `handlers`: where they are, the
row they read (`memory`; Sequelize writes only columns that differ from it) and what they are
going to write. `WritePayment` and `WriteBooking` are separate because the code writes without a
transaction. `Booked`, `Extra` and `Mismatched` are the three reasons a payment is refunded: its
booking is cancelled, the order was paid before, the amount is wrong. PassSales ends where a
refund is requested; Refunds starts there. Handlers of one payment overlap as the code lets them;
the history variable `disturbed` remembers the payments where they did, and those of which a
restart fell between the two writes (`HalfWritten`), because a late write or a lost one is then
not made good (section 6, `ProcessedFinal`). `RestAgrees` is about all other payments that are
booked or paid twice: every `finalize()` of a payment of another amount starts a refund again,
Razorpay refuses it, and the refusal overwrites `processed`.

### Connections

What two members can have between them: `interests.service.ts`, `connections.ts`,
`matches.service.ts`, chat's `send`, `blocks.service.ts`, `reports.service.ts`, and of
`sanctions.ts`, `admin-users.service.ts` and `admin-matches.service.ts` what ends interests and
matches. It follows one pair, since the lock and all rows are per pair. `slots` holds the
handlers between their checks and their transaction. `send()`'s transaction is two steps (it
reads a pending interest and later overwrites it by ID), because `respond()` does not take the
pair lock and can act in between. The unique indexes behind the lock are deliberately absent: a
property that holds without them shows the lock suffices. A ban or restriction is one step: it
locks the user's row `FOR UPDATE`, and every insert that refers to the user waits for that lock
through its foreign key.

### Moderation

Reports about one member. `queue` is the `reports` rows, `hidden` and `banned` the account's
flags, `requests` the reports and detections between what they read (`BeginReport`, `BeginFlag`)
and their commit. Only reports of one reporter are serialised by the pair lock. `Review` is
`assign()` and `conversation()`, `Resolve` a moderator's decision with its clearing of the hide.

### Accounts

One member's `users` row with its sanction rows, sessions and sockets. `work` holds transactions
that have their first row lock: apply and lift lock the user and then sanctions and sessions,
expiry locks sanctions (`SKIP LOCKED`) and then the user, refresh its session and then the user.
`Queue` waits for the next lock, `Commit` does the rest, `Abort` is PostgreSQL's deadlock
detector. `Handshake` and `Join` are the two halves of a socket's connection: a suspension can
close the member's sockets in between; `TokenExpires` is the socket's timer.

### Sessions, AdminSignIn, PhoneSignIn

Sessions has the rows of `user_sessions` or `admin_sessions` (current hash, previous hash, grace
period), the browser's `cookie` and the `tabs` with their calls in flight; calls are lost before
or after the API acts. With `locks` the tabs take turns (`navigator.locks`). AdminSignIn is the
lockout: the row is read and the password verified outside the transaction that decides.
PhoneSignIn is the `phone-sign-in.ts` object with the login page and the code page on top of it
and Firebase below it. `checks` are the submissions of the code page in flight: asked of Firebase,
accepted there (`FirebaseAccepts`), kept by the page when the answer arrives (`AcceptedArrives`),
lost or refused at any point (`CheckFails`), or answered by the API (`SessionStarts`). A page that
was left does not stop them. No two codes are taken to be equal, and the browser's Forward button
is not modelled.

### WebPages, AdminPages, Screens

The first two are tables: what each page reads, which mutations it offers and where it leads;
what each mutation changes on the API and what its hook invalidates, sets or leaves (`lags`); the
roles and permissions. Screens is the behaviour: routes and their guards, one cached query (any
of the tables') with its fetches, answers, staleness, polling and pushes, and the mutations in
flight. TanStack Query is external and modelled by the contract the apps rely on.

### Messaging

One conversation. `sends` are the calls of `sendChatMessage()` (socket, acknowledgement time-out,
REST with the same `clientMessageId`), `requests` their handlers in the API stage by stage
(admit, store, push, notify), `rows` the stored messages, `screen` and `loads` each member's
conversation and the fetch in flight, `readAt`, `marks` and `notes` the read position, the mark
requests and the "new message" notifications.

### Deliveries

Notifications on their way to a phone: the reminder job and other events store them, `attempts`
are deliveries between recipient check, claim, provider call and record, `row` is
`notification_deliveries`, `accepted` what the provider has taken, `reported` the furthest report
of Meta. `ProviderSend` is one request: what the provider did with it and what the sender learns
are two choices (`Answerable`), and the WhatsApp client repeats it where the answer says "try
again", which a gateway's error page in place of Meta's answer says as well; `masked` counts the
messages taken behind such a page. `RedateEvent` gives the event another date, after which a
purged reminder may be made again under a new ID (`remindsOf` is the date each one is of).
`StopDeliveries` stops the process at any step.

### Pictures, Profiles, Catalogue

Pictures is a file and the row that points at it: store, point, destroy the old one, each of
which fails on its own. Profiles and Catalogue extend it with the profile photo and the event
image. Profiles has the operations of `profile.service.ts`; Catalogue has one event and its
organizers, attendance, and the two-step transactions that read the other table without a lock.

### Discovery, Paging, Dashboard, RateLimits, ApiLogs

Discovery is the candidate query as operators over two members, their preferences and dates
around the end of February. Paging is the keyset pagination of every list (`listing` is one of
the lists' shapes: sort key, precision, whether rows move) over a table that changes between two
pages. Dashboard computes period, figures and buckets. RateLimits is `take()` with its two reads
of the clock; `admitted` are all requests let in, and `hits`, the key's list, are the places of
those it still holds. ApiLogs is the log queue with its writer chain and the server's shutdown.

`MCPassSales`, `MCCheckouts`, `MCRefunds`, `MCSafety`, `MCSignIn`, `MCProviders`, `MCScreens` and
`MCServices` instantiate them; the runs of `Refunds` that need nothing more name that module
itself. `MCSafety`, `MCSignIn`, `MCProviders`, `MCScreens` and `MCServices` bring several modules
into one run: a variable `focus`, chosen in the initial state, says which module a behaviour is
about; the others stay at rest, so the number of states is the sum and not the product.
`MCCheckouts` and `MCRefunds` bound behaviours in the same way by a CONSTRAINT.

Eight modules hold the theorems: `PassSalesProofs` (types, seats) and `SalesMoneyProofs` (orders,
bookings, money and the refinement) for PassSales, `RefundsProofs`, `ConnectionsProofs`,
`ModerationProofs`, `SignInProofs` (AdminSignIn, PhoneSignIn, Accounts), `ScreenProofs`
(Messaging, Screens) and `ServicesProofs` (Deliveries, Pictures, Profiles, Catalogue, Sessions,
RateLimits, ApiLogs, Discovery, Paging, Dashboard).

## 3. Runs

| Run | Shows | Bounds and why they are enough |
|---|---|---|
| `sales_capacity` | capacity is never exceeded (`NoOversell`); every step is one of the abstract ledger (`ImplementsSeatLedger`) | two members, one seat, two payments, hold of one tick, three clock values, one admin edit: a hold can lapse, be taken by the other member, and be paid late |
| `sales_checkout` | bookings rest on captured payments of the exact amount, one each (`BookingBacked`); all other captured money is marked for refund (`CapturedAccounted`); no booking, paid order or refund request is taken back (`MoneyIsFinal`); one open order per member (`OneOpenOrder`); paid exactly when booked (`PaidIffBooked`) | a behaviour is about one order with two payments, right and wrong amounts, authorized and captured, and two overlapping calls of `finalize()`; or about two keys with two overlapping requests each, one payment and one seat, as replaced holds and late `failed` writes need; one fault and a hold of one tick that may lapse in either |
| `sales_live` | captured money is settled, holds are released, paid holds are reconciled without a webhook | two payments, one of which never gets a webhook, one fault; a single key, so no hold is replaced (section 6) |
| `refunds_overlap` | shown refunds are real (`ProcessedIsReal`); no valid pass is refunded (`NoPassAndRefund`); payment, booking and Razorpay agree at rest, except where handlers of the payment overlapped or a restart cut its two writes (`RestAgrees`) | a booked payment beside a duplicate or a mismatched one, two refunds, two handlers that may overlap, one refund call that fails or times out, a restart |
| `refunds_decided` | a refund asked for is decided (`RefundDecided`) | a booked payment, two refunds, two handlers that may overlap, one call that fails or times out; no restart, which `refunds_crash` is about |
| `safety` | one open interest or match per pair (`OneOpenThing`), no accept and no message across a block (`AcceptHonoursSeparation`, `BlockStopsMessages`); enough reporters hide the member in spite of overlaps (`HiddenSoon`), evidence is never overwritten (`EvidenceKept`) | two requests in flight, two interests, two safety actions: block and unblock, report and ban, restrict and lift; three reporters with a threshold of two, so that two overlap at the threshold and a third follows; one detector trigger |
| `sign_in` | the cached status agrees with the sanctions (`CacheAgrees`); due sanctions, transactions, stale sockets and tabs come to an end (`DueSanctionEnds`, `TransactionsEnd`, `StaleSocketsEnd`, `TabsSettle`); no failed password is lost (`NoFailureLost`) | two requests and the job, two sanctions (a cycle of locks needs two transactions, a superseded sanction two rows), two tabs, two rotations and one lost answer (a rotated-out token needs two), three attempts at a limit of three |
| `screens` | what was saved is shown (`OwnWriteShown`); a message is stored, listed and counted once (`MessagesOnce`) | each query of both apps that a mutation changes, in turn, two writes (the own one and another's), one signed-in visitor, whose session ends the behaviour; two messages, one restart, one reload |
| `providers` | the token posted to the API is that of the number whose code was entered (`TokenOfEnteredCode`); no second send but where a gateway hid the first (`SentOnceUnlessMasked`); no date reminded of twice (`OneReminderPerDate`); no report undone (`FurthestReportKept`) | two phone numbers and three codes (a resend and a change of number), two submissions in flight, three reCAPTCHA checks; the messages of one notification (two pushes, three requests per send as in the code, a restart); two reminders of an event that is given another date once, with a retention as long as the window |
| `services` | see the comments at `PicturesAgree`, `ProfileHonest`, `BadgesTrue`, `CandidatesFit`, `PagesComplete`, `TrendsAddUp`, `LimitHolds`, `LogsKept`, `TurnsKeepSession` | two uploads; two admins, two organizers and two days (the catalogue in three parts: everything with one organizer, two organizers without their badges, and the event image); birthdays on both sides of 29 February in leap and common years; four rows in pages of two with equal keys at a page's end; nine days across two weeks with midnight in India inside a UTC day; three windows of the limiter; six log entries through a queue of three in batches of two |
| `sales_orphan`, `refunds_crash` | violations, section 6 | the smallest instance that shows them |

Deadlock checking is off in all of them: every bound (time, faults, rows) lets the system stop,
and a service without requests is at rest.

Symmetry is used only in runs without liveness: members, payments, refunds, handlers and
messages are interchangeable. Every property of a passing run has a mutant, a plausible bug of a
mapped definition that makes TLC report exactly that property.

### Fairness

* PassSales: the clock moves; `setInterval` starts the job again and the process runs the job and
  its handlers to their end (weak fairness; strong fairness for taking up an answer, which a
  failing attempt disables in between). Faults are bounded, which is what "the provider recovers"
  means here. Strong fairness of the `captured` webhook for the payments in `Delivered`:
  Razorpay repeats an event until it gets a 2xx answer, and the handler acknowledges only after
  success. Payments outside `Delivered` have no such promise.
* Refunds: handlers run to their end, Razorpay decides each refund and repeats its events.
* Accounts: PostgreSQL serves the waiters of a row lock in turn, so a commit that is possible
  again and again happens (strong fairness of `Commit` and `CommitExpire`); its deadlock detector
  runs (`Abort`); the job ticks every minute, the sockets' timers fire; the process is not
  restarted for ever.
* Sessions: a call in flight is answered or fails, and Web Locks grants waiting tabs in turn.
* Nobody owes an action: members and admins have no fairness.

## 4. What is proved

The theorems hold for every value of the constants under the named assumptions of the modules,
which TLC evaluates on every run: bounds are naturals, holds, quantities, the lockout limit and the
threshold of reports are positive, sets that are counted are finite, placeholders (`Null`,
`NoSession`, `NoPhone`, `NoArea`) are none of the values they stand beside. The others say what
the code relies on: the three kinds of payment are disjoint (`RefundAssumption`), a pair is two
members (`PairAssumption`), some request can be in flight and members are not triggers of the
detector (`ModerationAssumption`), a preferred age is not 0, which stands for "not given"
(`ProfilesAssumption`), a reminder is kept at least as long as its window
(`DeliveriesAssumption`: the job would send it again after the purge), the expiry job is no
request (`AccountsAssumption`), a table has finitely many rows (`PagingAssumption`), and there is a
least and a greatest age to ask for (`DiscoveryAssumption`: `PREF_AGE_MIN`, `PREF_AGE_MAX`).

No theorem has hypotheses beyond these.

### Sales

| Theorem | Statement | Argument |
|---|---|---|
| `TypeCorrect` | `Spec => []TypeOK` | `TypeInv` adds that a payment a handler or the job holds exists at Razorpay, and that nobody waits for an order that does not exist; without it the rows `Record` writes have no type |
| `SeatsNeverOversold` | `Spec => []NoOversell` | the seat count is the cardinality of a set of (order, pass) pairs. The lemmas `PassesMonotone` and `PassesAdd` say what removing and adding an order does to it; `NothingTaken` disposes of every step that takes no seat, and the three that do (a new order, a late payment, a lower capacity) re-count under the event lock |
| `OrdersPaidIffBooked` | `Spec => []PaidIffBooked` | inductive together with `TypeInv`: only `Record` makes an order paid, with its booking, and every other write of `status` is conditional |
| `MembersHoldOnce` | `Spec => []OneOpenOrder` | inductive with `TypeInv`: `createOrder` is the only step that opens an order, and expires the member's others under the same lock |
| `BookingsBacked`, `CapturedMoneyAccounted` | `Spec => []BookingBacked`, `[]CapturedAccounted` | `MoneyInv`: a row marked captured, and a handler that is about to mark one, have it from Razorpay (`CaptureBelieved`); a booking has a payment of its own order, captured and exact (`Backed`), and a cancelled one asks for its refund (`BookingShape`) |
| `SettledMoneyIsFinal` | `Spec => MoneyIsFinal` | action property, from `MoneyInv`: a booked order is not booked again, nor a booking cancelled twice, and a refund is marked by `Record` and nowhere withdrawn. It holds although the row's status may fall back from captured (`CapturedIsFinal`, section 6) |
| `SalesImplementLedger` | `Spec => ImplementsSeatLedger` | `LedgerInv` (seats not oversold, paid orders booked, only existing orders booked). Under the mapping of SalesLedger initial states are initial; the clock's tick lapses the holds that run out, `Record` sells, returns or takes up a lapsed claim, and the remaining steps are stutters |

### Refunds

| Theorem | Statement | Argument |
|---|---|---|
| `RefundTypes` | `Spec => []TypeOK` | part of `RefundInv` |
| `RefundsShownAreReal` | `Spec => []ProcessedIsReal` | not inductive alone: `Honest` says that a handler about to write `processed` holds an answer or an event of a refund that is processed, `Announced` ties events to refunds |
| `NeverPassAndRefund` | `Spec => []NoPassAndRefund` | `CancelledFirst`: whoever is about to call Razorpay for a booking's payment has cancelled the booking |
| `UndisturbedRefundsAgree` | `Spec => []RestAgrees` | `SerialInv`, about the payments not in `disturbed`: one handler each (`OneEach`), so what it read is still so when it writes (`HandlersKnow`); between handlers the rows agree (`QuietAgree`), and an acknowledged `processed` event is never forgotten (`ProcessedKept`). Handlers that overlap, and a restart between the two writes, take a payment out of the claim, and `ProcessedFinal` and `BookingRefundDecided` of section 6 show why they have to |

### Members

| Theorem | Statement | Argument |
|---|---|---|
| `PairTypes`, `PairHasOneOpenThing` | `Spec => []TypeOK`, `[]OneOpenThing` (Connections) | `ConnectionsInv`: what a `send` has read inside the pair lock is still so, up to an answer given without the lock (`LocksHeld`); matches stem from different accepted interests (`MatchesFounded`), which also bounds the rows. The unique indexes are not used |
| `AcceptsHonourSeparation` | `Spec => AcceptHonoursSeparation` | `AcceptKnows`: blocks and reports cancel what is pending in their own transaction, so an interest that is still pending when `accept` commits was followed by none since the check |
| `BlocksStopMessages` | `Spec => BlockStopsMessages` | the check is repeated under the pair lock |
| `ModerationTypes`, `HideIsAtMostLate` | `ModerationSpec => []ModerationTypeOK`, `[]HiddenSoon` | `FewWithoutHide` counts: the reporters in the window, with those in flight that do not see each other, stay below the threshold and the number of requests that overlap, as long as nobody is hidden and nothing was cleared |
| `EvidenceIsKept` | `ModerationSpec => EvidenceKept` | `MergesOwn`: the row a report is going to merge into is its reporter's and holds what it read |
| `AccountTypes`, `CachedStatusAgrees` | `AccountSpec => []AccountTypeOK`, `[]CacheAgrees` | `AccountInv`: one moderator has the users row (`OneModerator`) and what it checked there stays so until it commits (`ModeratorKnows`); rows the job has claimed stay active, since whoever would end one waits (`ClaimedRows`). The job locks the users row last: because the cache agrees, a claimed row always makes it write that row, so it cannot commit beside a moderator |
| `FailuresAllCounted` | `AdminSignInSpec => []NoFailureLost` | `LockoutInv` adds that the write that locks the account resets the counter; otherwise counting after a lockout would not start at zero |
| `TokensOfEnteredCodes` | `PhoneSpec => []TokenOfEnteredCode` | `PhoneInv` adds that what is kept, asked, accepted or pending are codes that were sent, and that the kept result is its own code's |

### Services

| Theorem | Statement | Argument |
|---|---|---|
| `NothingSentTwice` | `DeliveriesSpec => []SentOnceUnlessMasked` | `DeliveryInv`: one attempt past the claim per notification and channel (`OneSender`), which finds its row pending; before its next request the provider has only what gateways hid, at most one message for each request before (`Unanswered`, `SendersPending`, `TakenOnce`) |
| `RemindersDiffer` | `DeliveriesSpec => []OneReminderPerDate` | `ReminderInv`: a reminder is made within the window before its date and kept for longer than the window, so when it is purged its date has passed, and any later one is of a later date |
| `ReportsNeverGoBack` | `DeliveriesSpec => []FurthestReportKept` | `ReportsKnown`: only a row that knows its message ID has been reported on |
| `PhotosAgree`, `EventPicturesAgree` | `ProfilesSpec`, `CatalogueSpec => []PicturesAgree` | `PictureInv`: a file is in the hands of one request (`OneHolder`) and is there while it is (`StoredThere`). It is proved once for the steps of Pictures, and each service's step is shown to be one of them |
| `ProfilesStayHonest` | `ProfilesSpec => []ProfileHonest` | inductive with `PictureInv`: a new photo is a file never shown before, so no badge follows it |
| `BadgesStayTrue` | `CatalogueSpec => []BadgesTrue` | inductive with the types: every write that changes what is shown drops the badge in the same statement |
| `TurnsKeepTheSession` | `SessionsSpec => []TurnsKeepSession` | `Turns`: one tab is between sending the cookie and storing the answer, so what it sends is current and the cookie is stale only while its replacement is on the way |
| `LimitsHold` | `LimiterSpec => []LimitHolds` | `LimiterInv`: the key's list holds every hit still in the window, and no window, past or to come, is overfull. The wait covers the oldest hit because rounding up to seconds does (`SecondsCover`) |
| `LogsAreKept` | `LogsSpec => []LogsKept` | `LogsInv`: entries are in order from the table through the batch to the queue (`InOrder`), each is in one of them or lost (`NoneMissing`), and what waits has a timer, a chained flush or a writer (`Fetched`) |
| `CandidatesFitEachOther` | `DiscoverySpec => []CandidatesFit` | `BornWithinIsAge`: the range of dates of birth the query computes is the range of ages it means, by cases over the 28th and 29th of February and the 1st of March and over leap years; then a filter only narrows (`ListedEligible`) |
| `WalksAreComplete` | `PagingSpec => []PagesComplete` | `WalkInv`: of the rows that stayed, those after the cursor are unseen and the others were shown once. `NoRankMissing` says that a finite list is numbered without a gap, so a page is full or the last; `CursorCuts` that a cursor of whole milliseconds leaves out only what is after the last row, or ambiguous |
| `BarsAddUp` | `DashboardSpec => []TrendsAddUp` | `BucketIsLabel`: a row of the period falls on a day of it by India's clock, and into exactly one bucket. `SumOfParts`: numbers summed part by part make the same sum |

### Screens

| Theorem | Statement | Argument |
|---|---|---|
| `EachMessageOnce` | `MessagingSpec => []MessagesOnce` | `ChatInv`: each stored message has one request that still has to count it (`OneCounter`), so what is counted and what is to be counted add up to the messages, up to restarts (`Tally`); what a screen shows or a fetch brings is stored and without duplicates (`ListsOnce`) |
| `OwnWritesAreShown` | `ScreensSpec => []OwnWriteShown` | `MutationRefreshes` goes through the tables: what a mutation changes at once, its hook refreshes or fills. `ScreenInv` adds that outdated data of the visitor are marked stale and, on screen, are being fetched (`OutdatedFetched`), and that a mutation was saved after those completed before it (`CallsInOrder`) |

The library's induction theorems take an operator, which the provers cannot instantiate. Two lemmas
of ServicesProofs stand in for them where data are inductive: `LeastNumber` (a nonempty set of
naturals has a least member) and, from it, `SubsetInduction`, whose induction hypothesis is a set.
Sums are reduced to cardinalities (`Stack`, `SumIsStack`).

### Model-checked only

Liveness (`CapturedEventuallySettled`, `HoldEventuallyReleased`, `PaidHoldReconciled`,
`RefundDecided`, `DueSanctionEnds`, `TransactionsEnd`, `StaleSocketsEnd`, `TabsSettle`): fairness
and ENABLED are outside the prover. Every invariant and action property of a passing run is
stated by a theorem.

## 5. Abstractions

* Amounts are right or wrong for their order; prices, currencies, tax and receipts are left out.
* Clocks are small naturals; `Hold`, `RetentionTicks`, `WindowTicks` and `WindowMs` stand for the
  configured durations. In Connections, Moderation and Accounts time is a flag per row.
* Webhook signatures, DTOs, logging and audit entries change nothing the properties see. In the
  modules of sales and safety, notifications are after-commit and never fail a handler.
* In Connections, reports are a set of reporters: any report separates the pair, whatever its
  review state. What the detector takes as suspicious is a choice.
* Profile rules of eligibility are a choice at `accept()` in Connections; Discovery has them.
* Row-level deadlocks are modelled in Accounts, where lock orders differ; elsewhere PostgreSQL's
  abort of one transaction is the failed request that the models allow anyway.
* Pictures: an error of the database means that nothing was committed. A commit whose answer is
  lost would make the code destroy a file its row points at.
* Deliveries: the member's number, templates and the pause between two requests are left out; a
  report that arrives before the row knows its message ID changes nothing, and `FurthestReportKept`
  does not count it.
* Paging: `PagesComplete` excludes, in the lists stamped with microseconds, rows that share their
  millisecond with another one (`Ambiguous`): the cursor carries milliseconds.
* Screens: a query of the tables is the one about the mutation's own subject (the event that is
  edited, the member who is blocked). What a mutation changes and its hook leaves to polling, to
  the stale time or to the socket is listed as `lags` in WebPages and AdminPages, and
  `OwnWriteShown` excludes it: notifications and the list of blocked members after a block or
  report, chats and notifications after an interest that meets the other member's, an event's
  page, the bookings and notifications after buying a pass, chats after an accept or unmatch, a
  conversation's own query after sending and reading; in the admin app an organizer's page,
  bookings and orders after an event's edit, users, reports and matches after a sanction, orders
  and the event after a refund. It also excludes a fetch that failed and an answer asked before
  the save that arrives after it. A refused accept may cancel or expire the interest; the hooks
  refresh after success only, and a refused save is no save in the model.
* Accounts and Moderation forget what is not read again: when an ended sanction would have
  ended, and whether a closed report was resolved or dismissed.
* RateLimits: the clock does not go back.
* Discovery's ranking, the dashboard's export and search filters are left out.

## 6. Findings

Those with a run are violations TLC finds in it. The others are stated as properties in the
modules, with a comment that they do not hold; adding one to the named configuration shows the
counterexample.

| Property (configuration) | The documents say | The code does |
|---|---|---|
| `CapturedEventuallySettled` (run `sales_orphan`) | `payment-flow.md:151` "a race on the same key returns the winner's order" | both requests create a Razorpay order; the second ID overwrites the first (`payments.service.ts:164`), and money paid on the first is never settled |
| `BookingRefundDecided` (run `refunds_crash`) | `webhook.md:72` "a crash mid-way is retried" | the retry finds everything done and does not start the refund (`payments.service.ts:302`) |
| `CapturedIsFinal` (`sales_orphan`) | `payments.service.ts:220` "Never move a captured payment backwards" | the condition names authorized and failed; a payment the expiry job fetched as created and finalized after its capture goes back to created (`payments.service.ts:221`), and its booking cannot be refunded by an admin until an event repeats the capture |
| `PaidHoldReconciled` (`sales_live` with two keys) | `payment-flow.md:165` "if the webhook is also missed, the expiry job asks Razorpay ..." | a hold replaced by a newer checkout is expired without asking (`payments.service.ts:416`) |
| `ProcessedFinal` (`refunds_overlap`) | `refunds.md:42` "A processed refund is final and never overwritten by a late event." | the answer of the refund call, written late, moves the booking back to pending (`payments.service.ts:343`); a repeated `finalize()` of a payment of another amount does so without an overlap (`payments.service.ts:258`) |
| `ReportEndsMatches` (`safety`) | `privacy.md:48` "the two members never see each other again ... any pending interest or match between them ends" | two crossing sends that passed the check before the report match the two members after it (`interests.service.ts:265`) |
| `ThresholdHides` (`safety`) | `moderation-system.md:109` "Reports from 3 different members within 7 days ... Hidden from discovery" | overlapping reports miss each other; the next one hides (`reports.service.ts:247`) |
| `RaceKeepsCookie` (`services`) | `session-management.md:50` "The other tab already has the new cookie" | without Web Locks the refused tab's answer can clear the new cookie (`auth.controller.ts:54`) |
| `CodeForEnteredNumber` (`providers`) | `LoginPage.tsx:21` "any earlier code is forgotten" | a request in flight is joined, and the code page opens for the earlier number (`phone-sign-in.ts:178`) |
| `AcceptedCodeUsable` (`providers`) | `phone-sign-in.ts:148` "A code Firebase already accepted: it cannot be confirmed twice, so the result is kept." | one result is kept, and the late answer for an earlier code replaces it (`phone-sign-in.ts:197`) |
| `BlockedNameGone` (`screens`) | `blocks.service.ts:58` "The blocked member's name must never show up again in notifications." | the hook refreshes partners, connections and chats (`features/partners/hooks.ts:65`); the cached notifications stay until they are stale |
| `ReadClearsNotification` (`screens`) | `notifications.md:33` "Reading the chat ... marks it read" | the notification is stored after the push; a mark in between finds none (`chat.service.ts:365`) |
| `OwnScreen` (`screens` with `MaxSignIns = 2`) | | signing out keeps the query cache; the next member sees it until it is refetched (`AuthProvider.tsx:34`) |
| `UpcomingHasOrganizer` (`services`) | `organizer-management.md:62` archiving "is refused (`409`) while the organizer has upcoming published events" | archive and publish read each other's table without a lock (`admin-organizers.service.ts:285`) |
| `SentAtMostOnce` (`providers`) | `whatsapp.client.ts:181` "a second send cannot duplicate it" | a 5xx or 429 without Meta's error code, a gateway's page after Meta took the message, is retried as well (`whatsapp.client.ts:103`) |

## 7. Not modelled

HTTP plumbing, health, CSRF and upload parsing (no shared state); per-address rate limits of
express-rate-limit; daily limits of interests and reports (parallel requests can exceed one by
the requests in flight, with no further effect); the discovery ranking; the dashboard's CSV
export; delivery statistics, audit and safety logs (read only, append only); the log table's
retention; log sanitising, encryption and PII guards (pure text); schemas (shapes and lengths);
rendering, forms and styles of the two apps; landing and legal texts; seeders and scripts. Of the
migrations and models the columns, constraints and indexes that the modelled services rely on
appear as row types and guards.

## 8. Plan

The safety properties of the runs are proved. What is left:

1. the hazards that no property covers: `send()`'s eligibility check before the
   pair lock and the interest it overwrites by ID, which need profiles and interests in one module;
   the daily limits, which need a count over parallel requests; a mark that overtakes its
   notification (section 6); jobs and socket handlers at work while the database closes;
2. a refinement of Refunds: an abstract ledger of money in and out that PassSales and Refunds both
   implement, so that the hand-over between the two modules is stated and not only described.
