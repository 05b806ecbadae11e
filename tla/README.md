# Invito in TLA+

Models, model-checking runs and proofs about Invito, the booking server in this
repository: a guest picks a slot on a host's page and asks for it, the host
confirms or rejects by a link in a mail, a collector cancels requests nobody
answers, and a sync loop keeps a cache of the host's CalDAV calendars. One Go
process, one SQLite file, one database connection.

## The system

| part | code | state | operations |
| --- | --- | --- | --- |
| public handlers | `internal/handler/public.go`, `widget.go` | none of their own | slot page, booking form, confirm link, reject link |
| booking service | `internal/booking/service.go` | goroutines in flight | CreateBooking, ConfirmBooking, RejectBooking, collector loop, write-back goroutine |
| bookings | `internal/db/bookings.go` | table `bookings` | insert with re-checks in a transaction, update of the status, cancelling what expired |
| slot calculation | `internal/calendar/slots.go` | none | CalculateSlots |
| calendar sync | `internal/calendar/sync.go`, `caldav.go` | table `calendar_events` | background and manual sync, RRULE expansion, purge, write-back PUT |
| calendars | `internal/db/calendars.go` | table `calendars` | create, delete, last_synced |
| event types, availability | `internal/db/event_types.go`, `availability.go`, `handler/dashboard.go` | two tables | create, edit, toggle, replace |
| accounts | `internal/handler/auth.go`, `internal/auth`, `internal/db/users.go`, `sessions.go` | two tables | login, logout, profile |
| rate limiter | `internal/middleware/ratelimit.go` | map of buckets | allow, prune |
| process | `cmd/invito/main.go`, `internal/db/db.go` | the connection pool | start, shutdown |

The parts meet in three places. Handlers, collector, sync and write-back share
the database, whose pool is limited to one connection (`db.go:31`), so single
statements are serial but a goroutine that has read a row decides and writes
later. The service tells people what happened by mail and by page, after the
write. And the slot page, the slot check of the form and the transaction look
at the same rows at three different moments.

What is hard, and what the properties are therefore about:

* **Stale verdicts.** `UpdateBookingStatus` and the collector's `UPDATE` write
  by id without looking at the status they overwrite.
* **Check, check again, insert.** A slot is checked outside and again inside a
  transaction; calendar sync and other guests run in between.
* **One connection.** A path that keeps it stops the whole server.
* **Failure in the middle.** Any statement may fail, mails get lost, the process
  may end between the statement and what is said about it.
* **Time.** Reservations expire, slots lie on a wall clock that is changed twice a
  year and are named in UTC, rows are loaded for a window.
* **Settings that change under a guest.** The week is replaced row by row, event
  types are edited and switched while pages are open.
* **Forgetting.** The rate limiter drops the buckets of addresses that were quiet for
  five minutes, and an address that comes back starts with a full one.
* **Waiting without a deadline.** Mails and the write-back wait for servers that may
  never answer.

`PROJECT.json` lists every component with its state of modelling, and the
hazards line by line, those not yet covered included.

## The modules

| module | what it is |
| --- | --- |
| `BookingTable` | vocabulary of the `bookings` table: status values, the overlap test of the SQL, the loading range, the condition for expiry |
| `BookingLifecycle` | abstract specification: what the service promises about bookings, without goroutines, connection, mails or clock |
| `BookingService` | the service, its statements and the handlers that call it |
| `MCBookingService` | its instances for TLC |
| `BookingServiceProofs` | its inductive invariant; type correctness, overlaps, expiry, answers |
| `BookingOutcomeProofs` | where bookings appear; what mails, calendar and pages say; that the connection comes back |
| `BookingRefinementProofs` | `BookingService` implements `BookingLifecycle` |
| `SlotPicker` | slot page, list of dates, slot check of the form and `CalculateSlots` |
| `MCSlotPicker` | its instance for TLC |
| `SlotPickerProofs` | the slots are the described ones, free and disjoint; which forms get through; which dates are listed; why requests end |
| `HostSettings` | event types and availability rules, and the guests who are using them |
| `MCHostSettings` | its instance for TLC |
| `HostSettingsProofs` | whole weeks, switches, forms and pages |
| `RateContract` | abstract specification: what the rate limiter promises each address |
| `RateLimit` | the map of buckets, the requests and the pruning goroutine |
| `MCRateLimit` | its instance for TLC |
| `RateLimitProofs` | rate and burst are kept; `RateLimit` implements `RateContract` |
| `CalendarSync` | the cache of the hosts' calendars under the loop, manual runs and the dashboard |
| `MCCalendarSync` | its instance for TLC |
| `CalendarSyncProofs` | the foreign key, what success means, and purging |
| `Accounts` | logins, sessions and usernames |
| `MCAccounts` | its instance for TLC |
| `AccountsProofs` | unique names, logins that nobody disturbs, and who writes |

Definitions marked *Mutant of* are altered forms of a definition of the model,
no part of its specification: putting one in the place of the original must
break the property it is listed with in `PROJECT.json`.

### BookingService

A submission is named by its token, so a member of `Guests` is a request, the
row it inserts and the token in the host's links. The row is
`status`/`slot`/`reserved` (`start_at`, `end_at` with the host reached through
the event type, and `reserved_until`); `was` is a history variable that collects
the status values a row has held. `conn` is the holder of the single
connection. `guest`, `click` and `gc` are the program counters and locals of the
goroutines, `writers` counts the detached write-back goroutines, `mails` and
`remote` are what guests and the CalDAV server have received.

Every SQL statement is one step, enabled when the connection is free; a
transaction takes the connection at `TxBegin` and gives it back at the commit or
the deferred rollback. What a goroutine has read lives in its local state until
the step that uses it. One submission is `Submit`, `LoadEvents`, `LoadBookings`
(the slot check, two queries), `TxBegin`, `TxEvents`, `TxBookings`, `TxInsert`
and `Accept`; one click is `Look`, `Update`, `Fetch`, `Mail`, `Return`; one sweep
of the collector is `GCSelect` (or `GCSelectFails`), `GCUpdate` and a `GCMail`
per row. `SyncUpsert`, `SyncDrop`, `Tick` and `Crash` are the surroundings.

Abstractions, all of which add behaviours or leave out what no property sees:

* The INSERT and the COMMIT are one step: nobody reads between them, for the
  transaction holds the connection. It has three outcomes: done, rolled back, or an
  error of COMMIT after which the row is there or not. The last one, and a restart,
  leave the guest `unsure`.
* The three queries before the slot check and the two of
  `fetchEventTypeAndUser` are one step each; users and event types do not change
  in this module, and their queries failing is the same early return.
* The two mails of a confirmation are one, and mails to the host are not kept.
* A submission's time stamp `now` is taken once; the code takes it in
  `calculateSlots` as modelled. `reserved_until` is dated in the last step before
  the transaction.
* `reserved_until <= CURRENT_TIMESTAMP` compares text, so an instant inside the
  current second is not yet expired; the model's unit is coarser than that.
* A shutdown is a crash: `main` returns when the listener is closed, without
  waiting for handlers (`main.go:136`).
* `Fault` is the failure of a statement. It is modelled where the code after it
  differs; a failing lookup of a click leaves the handler where it was.
* The slot check is what `SlotPicker` computes, reduced to one offer: inside the
  window, after the time stamp, free of what was loaded.

* A PUT of the write-back and a mail are one step each, which need never be taken:
  that a server does not answer.

### BookingLifecycle

A booking is requested once, on an interval no active booking of the host
overlaps. It changes status only to a verdict that was reached while it was
PENDING. Verdicts may take effect late and over one another: the code promises
no more, because its updates are not guarded. `ImplementsLifecycle` is the
refinement, with the verdicts in flight read off the program counters: a click
between its read and its write, and the rows the collector has selected. What goes
wrong when two verdicts meet is therefore not excluded by it; `NoDoubleBooking` shows
it.

### SlotPicker

Instants are integers on the UTC clock. A zone has one offset before an instant
and another from it on, so its clock may be put forward or back inside the
booking window; a wall clock is the integer an instant would be in UTC. `Instant`
is `time.Date`: of an hour that comes twice or never it yields one instant, by
looking the offset up twice, as the library does.

A request is a guest asking for the slots of a date (`Pick`), opening the full
page (`Browse`), which tries every date of the window first (`ListDate`), or
submitting a form (`Submit`). Each starts `CalculateSlots`: rows are loaded, one
`Candidate` step is one turn of its loop, `Filter` is the rest and the handler's
decision. A submitted form names a slot of the page before it, whose time stamp is in
UTC, or any start at all, written with any offset, from which `public.go:198` then
reads another date. `Stored` is what a synchronisation just now has cached, which reaches
`Horizon` ahead whatever the window of the event type (`sync.go:38`), and active
bookings. Of a recurring event only the occurrences that begin inside the window of
the synchronisation are cached (`caldav.go:281`): one that has run for over an hour is
not (`Unexpanded`), and a slot can be offered over it. `OfferedIsFree` names this
exception. A duration is any number, as the edit form stores it; with zero or less the
loop of `Candidate` goes on for ever when it has begun. Tables do not
change in this module; that they do is the subject of `BookingService` and
`HostSettings`. The dashboard stores one rule per weekday. `Browse` loads the rows
once per date, the code once per page: with tables that do not change it is the
same. `parseHHMM` is not modelled: a rule's ends are hours of a day, as the time fields of
the availability page send them.

`ChangeAssumption` says how zones change their clocks. It holds for every change from
2025 to 2037 of every zone in `timezones_gen.go` that the tz database knows; some changes of
the past, around or over a midnight (St John's until 2011, Samoa in 2011), do not keep it, and
booking windows lie in the future.

The full page tries as many dates as the window has days, with today as the first
(`public.go:121`). The window itself reaches to the same hour on the date after those, so
that date's slots can be had by a link but are never listed. `DatesAreListed` speaks of
all dates up to the end of the window and names this one among its exceptions.

### HostSettings

`type` is the table `event_types`, `week` the table `availability_rules`. `tab` has the
locals of dashboard requests together with the page they came from, `guest` those
of slot pages and forms. `ReplaceAvailabilityRules` is `Save` (it begins the
transaction and takes the connection), `Delete`, one `Insert` per row and `Commit`;
`draft` is what the transaction sees. `GiveUp` is a failing statement in it. `Edit` and
`Update` are the read and the write of `HandleEventTypePost`; `Create` and `Toggle` are
one statement each. A guest's request is the lookup (`Open`, `Submit`), `LoadRules`,
the turns of the loop and `Answer`.

Abstractions: an event type has an owner, a slug, a duration and the switch; title,
messages, colour and booking window are written with the duration. A rule is open
from 0 to its closing time. Other bookings, events, clocks and windows are left to
the other modules, so a form is accepted when its slot is one the rule yields, and
the insert that follows is `BookingService`'s. A form names a slot of the page before it
or, from who saw none, any start of `Starts`. A duration is any integer, as `Atoi` reads
it; the instance has 0 and a positive one, for with a negative one the loop runs away
from the end of its rule and has no finite state space; the theorems cover it.

`clicks` and `settled` (the form whose saving was committed last) are history variables,
`fresh` and `asShown` history inside `tab`; `had`, `weeks` and `blind` are history
inside `guest`: the durations its event type has had since the form was sent, the weeks
its host has had settled since the request came in, and whether reading the rules
failed. `WholeWeeks` excepts such blind requests by name, for the code takes a failed read
for a week without rules.

### RateLimit and RateContract

`limiters` and `lastSeen` are the map, `bucket` the token buckets: a request that
finds none makes one and gives it its name; a request keeps the bucket it has
fetched, whatever becomes of the map. A bucket's level is kept as the time that
earns it. `GetLimiter` runs under the lock; `Admit` and `Turn429` are `Allow` after the
lock was given back; `Prune` is one tick of the goroutine. `rate.Limiter` is external and
modelled as a token bucket with an exact level. `KeepAssumption` (30 s for a full bucket,
5 minutes of keeping, in `main.go:68` and `ratelimit.go:37`) is what pruning rests on, and
by it no bucket is dropped while a request holds it. It
takes in `Slack`, a bound on how long a request may sit between `getLimiter` and `Allow`,
a few instructions apart in the code: a request held up for the four and a half
minutes that are left would take its token from a bucket that is gone. The limiter lives in memory: a restart
gives everybody a full bucket, and the promise is one of a process.

`RateContract` has neither map nor buckets: a request belongs to the address that asked
(`asker`), and is served exactly when, since each request of that address served
earlier, no more than the burst and what the time since then earned is spent. Each
request has one right answer, whatever the other addresses do.

### CalendarSync

`row` is the table `calendars` (its ids with the URL a row is connected to),
`cache` the table `calendar_events`, `server` what the CalDAV servers hold.
`sync` has the locals of two runs of `SyncCalendar`, one of the loop (`todo` is
what `runSync` has listed) and one of `HandleCalendarSync`; more manual runs
would only add copies of the second. A run is `Discover`, then per collection one
`Query` and one `Store` per event, then `Purge` and `Stamp`; waiting for the
server holds nothing. A failed request of an account's collections, and an account
without any, falls back to its URL, of which it is not known what it answers, so any part is possible. A
query that was refused with the filter is repeated without: both answers are
possible always. A run ends at the first failing query or statement. A removed
id is given again to the next calendar, as SQLite does for the greatest one.

`enforced` is chosen at the start: `db.go:25` asks for foreign keys with
`_foreign_keys=on`, which is another driver's parameter name, and the model
does not decide whether the one in `go.mod` heeds it.

An event is a set of occurrences `<<o, t>>`: the rule puts one at `o`, a
RECURRENCE-ID component moves it to `t`. `Components` are the parts of its object,
`Rows` what `upsertVEVENT` or `expandAndUpsertRRULE` makes of one, `Key` the uid of a
row. An occurrence that was moved has two keys and so two rows, which is why
the hour it was moved from stays busy. `Promised` is what a run caches by
intention: an expanded occurrence only when it begins inside the window.

Abstractions: the unit of time is the hour the window reaches back; events last
`Length` of them. `sync_enabled` is always 1, for nothing sets it. `last_synced` is only
shown, so `Stamp` keeps the moment, not the value. Transparent events, which are
skipped, count as not there. Events without a usable time or uid are left out,
and so are the reading of dates, URLs and passwords.

`alone` and `changed` are history variables inside `sync`: nobody else has worked on
the calendar since the run began, and which events changed meanwhile.

### Accounts

`username` is the column of the table `users`, with the OIDC subject as key:
rows are never deleted. `session` is the table of sessions, `cookie` what each
browser carries, `req` the requests in flight. A login is `Callback`, as many
`Search` as it takes, `Insert` and `Open`; a profile change is `Enter` and `Resolve`
(the two queries of `resolveUser`; either may fail, which clears the cookie), `Check` and
`Save`. A username is a word with
the numbers put to it, so that a claim `ann-2` and the second `ann` are the same.
`UNIQUE(username)` is in the guards of the two writes, which fail without it.
`ON CONFLICT(oidc_sub)` is looked at before it, as SQLite does, so somebody with an
account is never refused. A login has its own session id from the start: it is
random in the code. `who` and `alone` are history variables inside the records:
the person a request goes back to, and whether others wrote an account during a
login. Name, email and zone are written with the username and not kept.

## The runs

| run | what it asks | bounds | outcome |
| --- | --- | --- | --- |
| `booking_race` | two guests race for overlapping offers of two event types while a host clicks, the collector sweeps, sync adds an event | 2 guests, 1 handler, clock to 2, TTL 1, no faults | holds |
| `booking_faults` | what mails, calendar and pages say, with two clicks at once, a fault, also of COMMIT, and a restart | 1 guest, 2 handlers, 1 fault, 1 restart | holds |
| `booking_live` | expired requests are released, submissions and clicks are answered or reach their mail, while two guests compete for the connection and mails and write-backs may hang | 2 guests, 1 handler, clock to 1, 1 fault, 1 restart | holds |
| `double_booking` | "A booking that is confirmed must not double-book" | 2 guests, clock to 1 | violated |
| `slots` | `CalculateSlots` yields the described slots; the dates with slots are listed; only working hours are accepted, and what was shown is refused only where the dates differ | days of 6 units, weeks of 2 days, windows of 1 and 3 days, a horizon of 10 units, 4 zones, 4 rules, 5 events (2 recurring), 3 bookings, durations 0 to 2, 8 submitted starts at 3 offsets | holds |
| `offered_refused` | an offered slot is accepted | as `slots` | violated |
| `settings` | whole weeks, switches and forms under concurrent settings; no request keeps the connection | 1 host with 2 tabs, 1 guest, 2 event types, 1 slug, durations 0 and 2, 2 weeks of 2 days, 4 forms, 1 fault or restart | holds |
| `hang` | a slot page is returned | 1 tab, 1 guest, durations 0 to 2, 3 forms | violated |
| `rate` | rate and burst are kept, and no request is refused but for its own address, while buckets are pruned | 2 addresses, 4 requests, a burst of 2, clock to 8 | holds |
| `sync` | success means cached; purging frees no busy hour; the cache catches up | an account with two collections and a single collection, 3 events, 1 calendar row, 2 start times of runs, one thing going wrong | holds |
| `filed_under` | "Invito removes the calendar and all its cached events" | as `sync`, foreign keys enforced | violated |
| `accounts` | names stay unique, a login nobody interferes with succeeds, accounts are written by requests of their owners only, requests end | 3 people, 1 browser with 2 requests at a time, 3 logins, 1 fault | holds |

The bounds are enough for the interesting cases to happen. Two guests are what
a double booking takes, and the offers overlap without being equal. The clock
passes the end of a reservation, so that the collector, a late click and a
second guest meet on one slot. Two handlers read PENDING of one booking at once.
One fault reaches every failure path once, and a restart comes at any point of
any of them in `booking_faults` and in `booking_live`. `booking_live` is checked under the
view `WithoutTraces`, which leaves out `was`, `mails` and `remote`: no guard and no property
of that run reads them, so states that differ only there have the same futures. The
proofs below have no bounds. The weeks of `slots` contain a day whose end is not a multiple
of the duration, a reversed rule and an inactive one; the local date and the UTC
date differ on some hours of each zone, and three of the four zones change their
clocks on the second day: forward, back, and so that a day has no midnight; requests come
the day before and on that day, one of them before its first hour is over in UTC. A window
of three days contains the change, one of one day ends before it; the horizon lies
inside the longer one. One event under way is plain and one recurring, and the submitted
starts lie on both sides of midnights, with offsets that move their date either way. In
`settings` one slug suffices to be refused a second time, two
tabs to save, edit and switch at once, and four forms to create, edit, save and switch
in one behaviour. In `rate` the clock reaches the point where a bucket is dropped and
made anew, and the second address holds a bucket of its own. In `sync` the two start times
put an event outside the window, inside it, and far enough behind it to be
purged; one row id is what it takes to give it twice. The one thing that goes
wrong may come at any step of two overlapping runs and be a change, a removal, a
failing request or statement, or a restart. In `accounts` two people want one name
and the third the name the search tries next, and the profile form takes the one
after that; all use one browser, the worst case for whose session a request carries.

**Fairness.** `Fairness` of `BookingService` is weak fairness of each goroutine
that has begun, as far as only the scheduler and the connection hold it up: the Go
scheduler runs what is ready, and `database/sql` queues
the waiters for the connection in order. Weak fairness suffices because the
connection, when every transaction ends, is free again and again only between
steps of finitely many submissions. The steps that wait for the network are not fair:
`mailer.Send` sets no deadline (`email.go:82`), the write-back runs with
`context.Background` and a client without a timeout (`service.go:77`), so `Accept`, `Mail`,
`GCMail` and `WriteBack` may never be taken. `SubmissionsEnd` and `ClicksEnd` therefore lead to an
answer or to the mail, and say that nobody is held up by the mails of others.
`ExpiredIsReleased` has the premise that the collector is not in its mails for ever: it is
one goroutine (`service.go:153`), and a mail server that hangs does stop every later
sweep. The collector's tick is weakly fair, its
failures, faults, guests, hosts, sync and restarts are not. In `SlotPicker` the
running request is weakly fair. In `HostSettings` every request that has begun is, be
it in a tab or a guest's. In `CalendarSync` the ticker of the loop and
every run that has begun are: this does assume that a request to a CalDAV server is answered
or fails, for there is no deadline on it but the server's. In `Accounts` the goroutine of a
request is. Its search for a free username (`auth.go:62`) ends only if the others stop
taking names, the premise of `CallersAreAnswered` for that loop: one host who renames just
ahead of each turn keeps it running. All other requests end without a premise. Manual
runs, changes and failures are not fair.

## What the violated claims show

* **A confirmed booking can double-book.** A click reads PENDING, the collector
  cancels, another guest is given the released slot, and the click's `UPDATE`
  confirms. `OverlapOnlyByRevival`, proved for all instances, says this is the only
  way. The same trace leaves a state that `docs/explanation/booking-flow.md:120`
  calls permanent; so does the collector when it cancels a booking that was
  confirmed after its SELECT.
* **A slot on the far side of midnight UTC** is offered and refused: the form
  carries a UTC time, whose date is used as a date in the host's zone. Nothing else
  does it: `RefusedOnOtherDates`, proved for all instances, says that with unchanged tables a
  slot whose UTC date is the host's, and has a midnight, is accepted.
* **An event type of no length** hangs the server's slot page: creation refuses a
  duration of 0, the edit form's handler stores it, and the loop of `CalculateSlots`
  then never gets past its first candidate. Only the browser's `min` stands in the way.
* **A removed calendar's events can reappear** under the next calendar, when a
  run was waiting for the server as it was removed. The purge drops them only
  when they are over, and never for the URL of a single collection, for which
  `SyncCalendar` returns before the purge (`caldav.go:67`).

Met while modelling and not checked by a run:

* The mail server and the CalDAV server are waited for without a deadline (`email.go:82`,
  `service.go:77`); a mail that hangs stops the collector for good.
* A slot can be offered over an occurrence of a recurring event that has run for over an
  hour, for the synchronisation expands only what begins inside its window
  (`caldav.go:281`).
* The last date of the booking window is never listed (`public.go:121`).
* The write-back is not retried by anything, although
  `docs/explanation/booking-flow.md:129` says it "is retried on the next sync cycle".
* A slot across the end of the booking window is offered over an event that begins
  after the window, whose row is not loaded (`slots.go:63`, `public.go:274`); the
  transaction then refuses it.
* The reject page says "Booking rejected." of bookings it did not touch
  (`public.go:268`).
* Connecting a calendar starts no first synchronisation, as
  `docs/how-to/add-calendar.md:40` says it does.
* `docs/how-to/create-event-type.md:61` tells of deleting event types, for which there is
  no handler, and `docs/explanation/data-model.md` of changing their slugs, for which
  the edit form has no field.
* An availability page that could not read its rules shows unchecked days, and
  saving it closes the week (`dashboard.go:222`).
* The dashboard keeps one rule a day, while `docs/explanation/data-model.md` describes days
  with two.
* `docs/explanation/data-model.md` says `end_at` reflects "the exact slot the guest selected";
  when the duration was edited after the page was shown, it is the new one's.
* Two edits of one event type each write the whole row they have read: a blank booking
  window (`dashboard.go:373`) puts the old one back over another tab's.
* In a zone without a midnight on the day of the change, a link with that date leads to
  the day before it, or after it, as `time.Date` has it. On that day itself, west of
  Greenwich, the list of dates begins with yesterday and leaves today out (`public.go:100`),
  and slots a page offers for that date may begin on the evening before.
* An occurrence that was moved keeps its old hour busy (`caldav.go:211`), and an event
  that vanished from the server stays until it is past.
* `docs/explanation/data-model.md:20` calls usernames immutable, while the profile form
  changes them, and a name left behind can become another host's, so that old
  links, which `docs/explanation/architecture.md:48` calls invalid, lead to that host.

## What is proved

`BookingServiceProofs` holds for any number of guests, handlers, offers,
events, faults and restarts, from the named assumptions of `BookingService`
(the bounds are naturals, the connection's "free" is no guest, offers and events
have natural ends).

* `TypeCorrect`: `TypeOK` is invariant. It is inductive by itself.
* `NoOverlapWithoutRevival`: two active bookings of one host overlap only when
  one of them was confirmed after having been rejected or cancelled.
* `CancelledAfterReservation`: a row that was ever cancelled had expired.
* `AnswersAgree`: a guest told of success has a row, one who was refused has none, through
  any restarts. Who got no answer, or an error of COMMIT, is in neither case.

They follow from one inductive invariant, `IInv`, whose parts say why the code
works. `Holder`: a submission inside its transaction is the one that holds the
connection, so two of them never check at once. `NoRowYet`: before its insert
a submission has no row, hence no history. `Checked`: a submission whose
re-checks have passed still overlaps no cached event and no active booking,
which needs `Holder`: nobody else's statement runs in between. `History`: the
present status of a row is in its history, and a PENDING row has no other
history, so a row that is active after having been released was confirmed. `Targets`: what clicks and the collector are about to write
names rows that exist, and the collector's rows had expired when selected, which
stays true because `reserved_until` is written once and time does not run
back. The overlap property itself is symmetric in its two bookings and is
carried over each kind of step by a lemma for that kind.

`BookingOutcomeProofs` rests on it:

* `BookedWhereFree`: the step that creates a booking finds its slot free of cached
  events and active bookings at that moment. Only `TxInsert` makes a row appear
  (`OnlyInsert`), and `Checked` holds before it.
* `MailsTellTruth`, `CalendarTellsTruth`, `ConfirmTellsTruth`: no mail, calendar
  event or confirm page tells of a status the booking has never had. They need
  their own invariant, `OInv`: a click past its update carries a verdict the row
  has held, which stays so because `was` only grows.
* `ConnectionComesBack`: what `SubmissionsEnd` and `ClicksEnd` need besides fairness. Only
  a submission inside its transaction keeps the connection, others leave it alone, and
  each of its steps gives it back or is the next of three statements, so whoever
  waits for it waits for somebody who waits for nothing.

`BookingRefinementProofs` shows `ServiceRefinesLifecycle`. The mapping reads the
verdicts in flight off the clicks and the collector, so the proof needs to know
that an update writes a verdict that was in flight (`Chosen`). Each action is one of
three kinds: it creates a booking (`InsertRefines`), it reaches a verdict
(`JudgeRefines`) or lets one take effect (`EnforceRefines`), or it changes nothing
the lifecycle sees but, in a crash, the verdicts in flight.

`RateLimitProofs` holds for any number of addresses and requests and any rate, from
`RateAssumption` and `KeepAssumption`. Of its invariant `IInv`, `Held` and `Known` say
that a request that has fetched a bucket holds the one in the map, which was seen
not long ago; `Recovered`, that an address without a bucket has earned back all it
spent, so a new one gives it nothing; `Solvent` and `Exact`, that the level of a bucket
is the burst and what was earned, less what was spent, since the request that
left least: that turns a comparison with one level into the contract's comparison
with all earlier requests. `LimiterTypeCorrect` is inductive by itself; `RateKept` follows from `IInv`; `LimiterRefinesContract` maps `Admit` and
`Turn429` to the contract's two answers and everything else but `Tick` to stutters.

`SlotPickerProofs` holds for any zones, rules, durations, windows and rows. The loop
invariant `Cut` says that, with a positive duration, the candidates are the pieces of the
rule below the current start, which needs facts about `%` and `\div` that are lemmas of
their own (`NextMultiple`, `NoMultipleBetween`); `Fresh` that a request works with what it loaded,
`Shown` that a result is the filtered set of pieces.

* `SlotsAsDescribed`: the result is the set `Described`.
* `OfferedSlotsAreFree`: an interval that overlaps a slot of the window and was stored
  begins before the end of the window and ends after now, so it was loaded; and an event
  that overlaps it and is not `Unexpanded` was stored, when the slot ends before the
  horizon.
* `OfferedSlotsAreDisjoint`: two different multiples of the duration lie at least one
  duration apart.

The other three are about clocks that change, and rest on `RulesAssumption` and
`ChangeAssumption` too. `ShownClock` says what `time.Date` does: it hits the wall clock
asked for, and misses a skipped one by the gain of the change. From it and
`NoMidnightComesTwice` follow `PiecesOfTheDay` (what a date's rule yields ends on that date,
and begins there unless its midnight is skipped) and `ListCovers` (the dates tried 24 hours
apart). Their invariant, `PageInv`, adds to `IInv` what the form has to do with the date its
slots are looked up under (`Asked`) and that the list has taken those dates before its
place that have slots (`Listing`).

* `AcceptedTimes`: a form gets through only inside the rule of the host's own date, at
  whatever offset its start is written. The date
  it is looked up under was read off a midnight, and no such date begins in a skipped
  hour before the change (`AskedDayBegins`).
* `RefusedDates`: a slot just shown is refused only where its UTC date is not the host's or
  has no midnight. Where it is, the page was of that same date; the page of a date without
  a midnight shows no slot that is on the day before in UTC as well
  (`PiecesAfterMidnightUTC`).
* `ListedDates`: the list names the dates of the window that have a slot, but for three. That
  it can miss today came out of this proof: the weaker list of exceptions, the end of the
  window alone, held on the instance as long as no request came on the day without a midnight.
* `RequestsDescend`: the safety half of `RequestsEnd`. Every step of a running request
  lowers, in this order, the dates left, the place in the code or the time left in the
  rule, with a duration of at least one minute (`slots.go:48`). That a request
  goes on taking steps is fairness, and stays with TLC.
* `LoopNeverLeaves`: that premise is needed. With zero or less, which `dashboard.go:371`
  stores, a loop that has taken a candidate stays a loop in every step.

`HostSettingsProofs` holds for any number of hosts, tabs, guests, event types, days and
failures, from `SettingsAssumption`. Its invariant `IInv` says who holds the connection
(`Holder`), what a transaction has yet to insert (`Drafts`: the draft is the posted form
but for the days in `rest`), that a page still fresh shows the stored week (`Pages`),
that what is stored and switched is what was asked for (`Logged`), that guests are at
event types that exist (`Served`), that candidates lie in an active rule (`Cut`), and
that a form is judged by a duration its event type has had since it was sent (`Judged`).

* `LinksAreUnique`: a host's slug leads to one event type.
* `WeeksAreWhole`: the stored week is the form saved last, and who reads the rules reads
  such a form, the one in force when the request came in or a later one. The
  reader needs the connection, which the transaction keeps until it is whole.
* `SwitchesCount`: the switch is set by one statement from the row, and the edit leaves it
  alone, so no click is lost.
* `FormsAreJudged`, `PagesRoundTrip`: see `BookedByTheForm` and `PageRoundTrip`. The second
  is an action property: the committing tab's draft is its form, its form the filled
  week, and filling adds no opening hours.

`CalendarSyncProofs` holds for any calendars, events, clocks and windows, from the
assumptions of `CalendarSync`, among them that an event is one its rule can yield
(`Possible`: no two occurrences at one instant of the rule). The heart of its `IInv` is
`Accounted`: what a run that is alone has promised is cached, or among the components
in hand, or in a path still to be queried. A query moves it from the last to the
second place because the objects it answers with are those inside the window
(`PromisedHasRow`); a store moves it to the cache and takes nothing away, because an
event has one row per key (`OneRowPerKey`), the reason moved occurrences have keys of
their own; `Apart` keeps runs of other calendars out of it. From it follow
`SuccessIsEarned`, and with the times of runs behind the clock `BusyHoursStay`;
`CacheIsWhole` is the foreign key.

`AccountsProofs` holds for any number of people, browsers, requests and logins, from
`SubsAssumption` and `LimitsAssumption`. `SessionsOwned` and `RequestsOwned` carry the
person from the login to the session, the cookie and the request; `FoundIsFree` says
that a name a search has ended with stays free until somebody else writes.
`WritersAreOwners` follows from the first, `LoneLoginsAreServed` from the second,
`NamesAreUnique` from the guards that stand for `UNIQUE`.

`PageInv` and the last three `IInv` were checked by TLC on the instances of the runs as well.

Every invariant and every action property of the runs is proved. Only model-checked is
liveness (`ExpiredIsReleased`, `SubmissionsEnd`, `ClicksEnd`, `RequestsEnd`, `TabsAreServed`,
`CacheConverges`, `CallersAreAnswered`), which the prover does not reach.

## Plan

1. `BookingService` and `BookingLifecycle`: done, proved but for liveness.
2. `SlotPicker`: done, proved but for liveness.
3. `RateLimit`: done, the refinement proved.
4. `HostSettings`: done, proved but for liveness.
5. `CalendarSync`: done, proved but for liveness.
6. `Accounts`: done, proved but for liveness. To come: names that pass from one host to
   another under links.
7. Composition of bookings and sync: a confirmed booking written to the calendar
   comes back by sync and takes the slot of its own booking.

Not modelled: CSRF, headers and the log, which are stateless per request; the
encryption of passwords, a pure function over a library; configuration, read once
before anything runs; templates, assets and the list of zone names; the debug script.
`PROJECT.json` gives the reason for each.
