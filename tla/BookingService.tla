--------------------------- MODULE BookingService ---------------------------
(***************************************************************************)
(* The life of a booking request: internal/booking/service.go with the     *)
(* statements of internal/db/bookings.go and the handlers of               *)
(* internal/handler/public.go that call it.                                *)
(*                                                                         *)
(* Four kinds of goroutines share one SQLite database:                     *)
(*   - a guest's submission (handleBookingSubmit, Service.CreateBooking);  *)
(*   - a host's click on confirm or reject (ConfirmBooking, RejectBooking);*)
(*   - the garbage collector (StartGCLoop, CancelExpiredBookings);         *)
(*   - one detached goroutine per confirmation, writing to CalDAV.         *)
(*                                                                         *)
(* The pool has one connection (SetMaxOpenConns(1)).  A statement runs     *)
(* when the connection is free and is one step; a transaction keeps the    *)
(* connection over several steps.  Whatever a goroutine read, it uses in a *)
(* later step, after any number of steps of the others.                    *)
(*                                                                         *)
(* A submission is identified with its random token, so row and token are  *)
(* both named by the member of Guests that sent the form.                  *)
(***************************************************************************)
EXTENDS BookingTable, FiniteSets

CONSTANTS
    Guests,     \* submissions, one token each
    Handlers,   \* confirm/reject requests the server can have in flight
    Offers,     \* intervals the hosts' availability rules yield
    Events,     \* intervals of busy time that can be in the calendar cache
    TTL,        \* cfg.BookingTTL
    Window,     \* booking window of the event types
    MaxTime,    \* bound on the clock
    MaxFaults,  \* bound on failing SQL statements
    MaxCrashes  \* bound on process terminations

ASSUME BoundsAssumption ==
    /\ TTL \in Nat
    /\ Window \in Nat
    /\ MaxTime \in Nat
    /\ MaxFaults \in Nat
    /\ MaxCrashes \in Nat

\* No submission holds the connection; no offer was chosen yet.
Free    == "free"
NoOffer == [host |-> "none", from |-> 0, to |-> 0]

ASSUME NamesAssumption == Free \notin Guests

ASSUME IntervalsAssumption ==
    \A s \in Offers \cup Events : s.from \in Nat /\ s.to \in Nat

VARIABLES
    status,     \* bookings.status, "NONE" before the INSERT
    slot,       \* start_at and end_at of the form, then of the row
    reserved,   \* reserved_until of the form, then of the row
    cached,     \* the calendar_events rows
    conn,       \* holder of the single database connection
    guest,      \* [Guests -> [pc, seen]]: handleBookingSubmit
    click,      \* [Handlers -> [pc, op, tok]]: HandleBookingConfirm/Reject
    gc,         \* [pc, rows]: StartGCLoop
    writers,    \* write-back goroutines running for each booking
    mails,      \* <<kind, booking>>: mails the guest has received
    remote,     \* bookings that have an event on the host's CalDAV server
    now,        \* wall clock
    faults,     \* failed statements so far
    crashes,    \* terminations so far
    was         \* history: every status each row has held

table == <<status, slot, reserved, was>>
tasks == <<guest, click, gc, writers>>
world == <<mails, remote>>
env   == <<now, faults, crashes>>
vars  == <<table, cached, conn, tasks, world, env>>

-----------------------------------------------------------------------------
\* A statement outside the transaction waits for the connection.
Connected == conn = Free

\* A statement fails (driver, disk, lock or cancelled connection).
Fault == /\ faults < MaxFaults
         /\ faults' = faults + 1
         /\ UNCHANGED <<now, crashes>>

\* Control moves of the three kinds of tasks.
\* (a guest's time stamp is forgotten when calculateSlots has returned).
GuestGoes(g, pc)   == guest' = [guest EXCEPT ![g] = [pc |-> pc, seen |-> 0]]
GuestStamps(g, pc) == guest' = [guest EXCEPT ![g] = [pc |-> pc, seen |-> now]]
GuestKeeps(g, pc)  == guest' = [guest EXCEPT ![g] = [pc |-> pc, seen |-> @.seen]]
ClickGoes(h, pc)   ==
    click' = [click EXCEPT ![h] = [pc |-> pc, op |-> @.op, tok |-> @.tok]]
GCGoes(pc, rows)   == gc' = [pc |-> pc, rows |-> rows]

\* UPDATE bookings SET status = st WHERE id IN rows: no test of the old one.
SetStatus(rows, st) ==
    /\ status' = [g \in Guests |-> IF g \in rows THEN st ELSE status[g]]
    /\ was' = [g \in Guests |-> IF g \in rows THEN was[g] \cup {st} ELSE was[g]]
    /\ UNCHANGED <<slot, reserved>>

\* COUNT(*) > 0 of the two re-checks of db.CreateBooking.
EventConflict(s)   == \E e \in cached : Overlaps(e, s)
BookingConflict(s) == \E g \in Guests : status[g] \in Active /\ Overlaps(slot[g], s)

IdleClick == [pc |-> "idle", op |-> "none", tok |-> "none"]
IdleGC    == [pc |-> "idle", rows |-> {}]

Init ==
    /\ status   = [g \in Guests |-> Absent]
    /\ slot     = [g \in Guests |-> NoOffer]
    /\ reserved = [g \in Guests |-> 0]
    /\ was      = [g \in Guests |-> {}]
    /\ cached   = {}
    /\ conn     = Free
    /\ guest    = [g \in Guests |-> [pc |-> "form", seen |-> 0]]
    /\ click    = [h \in Handlers |-> IdleClick]
    /\ gc       = IdleGC
    /\ writers  = [g \in Guests |-> 0]
    /\ mails    = {}
    /\ remote   = {}
    /\ now      = 0
    /\ faults   = 0
    /\ crashes  = 0

-----------------------------------------------------------------------------
(***************************************************************************)
(* A guest's submission.                                                   *)
(***************************************************************************)

\* The form arrives: the user and the event type are looked up; a missing or
\* inactive one is a 404.  calculateSlots then takes its time stamp.
Submit(g) ==
    /\ guest[g].pc = "form"
    /\ Connected
    /\ \/ /\ \E s \in Offers : slot' = [slot EXCEPT ![g] = s]
          /\ GuestStamps(g, "events")
       \/ /\ GuestGoes(g, "refused")
          /\ UNCHANGED slot
    /\ UNCHANGED <<status, reserved, was, cached, conn, click, gc, writers,
                   world, env>>

\* calculateSlots loads the cached events; a failed query counts as no event.
LoadEvents(g) ==
    /\ guest[g].pc = "events"
    /\ Connected
    /\ \/ /\ IF \E e \in cached : InRange(e, guest[g].seen, Window)
                                    /\ Overlaps(e, slot[g])
             THEN GuestGoes(g, "refused")
             ELSE GuestKeeps(g, "bookings")
          /\ UNCHANGED env
       \/ /\ Fault
          /\ GuestKeeps(g, "bookings")
    /\ UNCHANGED <<table, cached, conn, click, gc, writers, world>>

\* The candidate lies after the time stamp and starts inside the window.
InWindow(s, t) == s.from > t /\ s.from <= t + Window

\* Mutant of LoadBookings: the reservation is dated into the past.
ReserveInThePast(g) ==
    /\ guest[g].pc = "bookings"
    /\ Connected
    /\ GuestGoes(g, "begin")
    /\ reserved' = [reserved EXCEPT ![g] = now - TTL]
    /\ UNCHANGED <<status, slot, was, cached, conn, click, gc, writers, world,
                   env>>

\* calculateSlots loads the active bookings, in a statement of its own, and
\* the handler looks for the requested start among the slots left over.  The
\* reservation is dated before the transaction gets its connection.
LoadBookings(g) ==
    LET s == slot[g]
        t == guest[g].seen
        Offered(rows) == InWindow(s, t) /\ \A r \in rows : ~Overlaps(slot[r], s)
        Decide(rows) ==
            IF Offered(rows)
            THEN /\ GuestGoes(g, "begin")
                 /\ reserved' = [reserved EXCEPT ![g] = now + TTL]
            ELSE GuestGoes(g, "refused") /\ UNCHANGED reserved
    IN  /\ guest[g].pc = "bookings"
        /\ Connected
        /\ \/ /\ Decide({r \in Guests : status[r] \in Active
                                          /\ InRange(slot[r], t, Window)})
              /\ UNCHANGED env
           \/ Fault /\ Decide({})
        /\ UNCHANGED <<status, slot, was, cached, conn, click, gc, writers,
                       world>>

\* Mutant of TxBegin: the pool has a connection for everybody.
BeginOnAnotherConnection(g) ==
    /\ guest[g].pc = "begin"
    /\ conn' = g
    /\ GuestGoes(g, "txEvents")
    /\ UNCHANGED <<table, cached, click, gc, writers, world, env>>

\* db.CreateBooking: the transaction takes the connection ...
TxBegin(g) ==
    /\ guest[g].pc = "begin"
    /\ Connected
    /\ \/ conn' = g /\ GuestGoes(g, "txEvents") /\ UNCHANGED env
       \/ Fault /\ GuestGoes(g, "refused") /\ UNCHANGED conn
    /\ UNCHANGED <<table, cached, click, gc, writers, world>>

\* Mutant of Rollback: an early return without the deferred call.
ReturnInTransaction(g) == GuestGoes(g, "refused") /\ UNCHANGED conn

\* The deferred Rollback gives the connection back on every early return.
Rollback(g) == conn' = Free /\ GuestGoes(g, "refused")

\* Mutants of TxEvents: the re-check is left to the slot calculation; the
\* re-check is sent to the pool instead of the transaction.
SkipEventCheck(g) ==
    /\ guest[g].pc = "txEvents"
    /\ GuestGoes(g, "txBookings")
    /\ UNCHANGED <<table, cached, conn, click, gc, writers, world, env>>

CheckThroughPool(g) ==
    /\ guest[g].pc = "txEvents"
    /\ Connected
    /\ GuestGoes(g, "txBookings")
    /\ UNCHANGED <<table, cached, conn, click, gc, writers, world, env>>

\* ... re-checks the calendar events ...
TxEvents(g) ==
    /\ guest[g].pc = "txEvents"
    /\ \/ EventConflict(slot[g]) /\ Rollback(g) /\ UNCHANGED env
       \/ /\ ~EventConflict(slot[g])
          /\ GuestGoes(g, "txBookings")
          /\ UNCHANGED <<conn, env>>
       \/ Fault /\ Rollback(g)
    /\ UNCHANGED <<table, cached, click, gc, writers, world>>

\* ... re-checks the bookings ...
TxBookings(g) ==
    /\ guest[g].pc = "txBookings"
    /\ \/ BookingConflict(slot[g]) /\ Rollback(g) /\ UNCHANGED env
       \/ /\ ~BookingConflict(slot[g])
          /\ GuestGoes(g, "txInsert")
          /\ UNCHANGED <<conn, env>>
       \/ Fault /\ Rollback(g)
    /\ UNCHANGED <<table, cached, click, gc, writers, world>>

\* Mutant of TxInsert: the error of Commit is dropped.
CommitUnchecked(g) ==
    /\ guest[g].pc = "txInsert"
    /\ conn' = Free
    /\ GuestGoes(g, "notify")
    /\ \/ SetStatus({g}, "PENDING") /\ UNCHANGED env
       \/ Fault /\ UNCHANGED table
    /\ UNCHANGED <<cached, click, gc, writers, world>>

\* ... and inserts and commits.  Nobody sees the row before the commit, so the two
\* statements are one step.  A failed INSERT is rolled back; after a failed COMMIT the
\* row may be there all the same, and the guest is told that it is not.
TxInsert(g) ==
    /\ guest[g].pc = "txInsert"
    /\ \/ /\ SetStatus({g}, "PENDING")
          /\ conn' = Free
          /\ GuestGoes(g, "notify")
          /\ UNCHANGED env
       \/ Fault /\ Rollback(g) /\ UNCHANGED table
       \/ /\ Fault
          /\ conn' = Free
          /\ GuestGoes(g, "unsure")
          /\ SetStatus({g}, "PENDING") \/ UNCHANGED table
    /\ UNCHANGED <<cached, click, gc, writers, world>>

\* The mail to the host (its loss changes nothing) and the page that tells the
\* guest the request was sent.
Accept(g) ==
    /\ guest[g].pc = "notify"
    /\ GuestGoes(g, "accepted")
    /\ UNCHANGED <<table, cached, conn, click, gc, writers, world, env>>

-----------------------------------------------------------------------------
(***************************************************************************)
(* A host's click on the confirm or reject link.  op is the status the     *)
(* request is to write, tok the booking the token of its URL names.        *)
(***************************************************************************)

\* Mutants of Look: a click only finds its own outcome already done; a confirm
\* says "confirmed" of every booking already processed.
LookForOwnStatus(h) ==
    /\ click[h].pc = "idle"
    /\ Connected
    /\ \E g \in Guests, op \in {"CONFIRMED", "REJECTED"} :
         /\ status[g] \in Statuses \ {op}
         /\ click' = [click EXCEPT ![h] = [pc |-> "update", op |-> op, tok |-> g]]
    /\ UNCHANGED <<table, cached, conn, guest, gc, writers, world, env>>

LookAndSayConfirmed(h) ==
    /\ click[h].pc = "idle"
    /\ Connected
    /\ \E g \in Guests, op \in {"CONFIRMED", "REJECTED"} :
         /\ status[g] # Absent
         /\ click' = [click EXCEPT ![h] =
                        [pc |-> IF status[g] = "PENDING" THEN "update"
                                ELSE IF op = "CONFIRMED" THEN "saidConfirmed"
                                ELSE "saidRejected",
                         op |-> op, tok |-> g]]
    /\ UNCHANGED <<table, cached, conn, guest, gc, writers, world, env>>

\* GetBookingByToken and the test of the status read.  An unknown token is a
\* 404 and a failed query a 500, which leave the handler as it was.
Look(h) ==
    /\ click[h].pc = "idle"
    /\ Connected
    /\ \E g \in Guests, op \in {"CONFIRMED", "REJECTED"} :
         LET Go(pc) == click' = [click EXCEPT ![h] =
                                   [pc |-> pc, op |-> op, tok |-> g]]
         IN  \/ status[g] = "PENDING" /\ Go("update")
             \/ status[g] = "CONFIRMED" /\ op = "CONFIRMED" /\ Go("saidConfirmed")
             \/ status[g] \in Released /\ op = "CONFIRMED" /\ Go("saidProcessed")
             \/ status[g] \in Terminal /\ op = "REJECTED" /\ Go("saidRejected")
             \/ status[g] = Absent /\ UNCHANGED click
    /\ UNCHANGED <<table, cached, conn, guest, gc, writers, world, env>>

\* UpdateBookingStatus, whatever the row has become since.
Update(h) ==
    LET c == click[h]
    IN  /\ c.pc = "update"
        /\ Connected
        /\ \/ SetStatus({c.tok}, c.op) /\ ClickGoes(h, "fetch") /\ UNCHANGED env
           \/ /\ Fault
              /\ click' = [click EXCEPT ![h] = IdleClick]
              /\ UNCHANGED table
        /\ UNCHANGED <<cached, conn, guest, gc, writers, world>>

Reply(op) == IF op = "CONFIRMED" THEN "saidConfirmed" ELSE "saidRejected"

\* Mutant of Fetch: every verdict is written to the calendar.
FetchAndWriteAlways(h) ==
    /\ click[h].pc = "fetch"
    /\ Connected
    /\ ClickGoes(h, "mail")
    /\ writers' = [writers EXCEPT ![click[h].tok] = @ + 1]
    /\ UNCHANGED <<table, cached, conn, guest, gc, world, env>>

\* fetchEventTypeAndUser.  Without it there is neither write-back nor mail;
\* with it a confirmation starts the write-back goroutine.
Fetch(h) ==
    LET c == click[h]
    IN  /\ c.pc = "fetch"
        /\ Connected
        /\ \/ /\ ClickGoes(h, "mail")
              /\ writers' = IF c.op = "CONFIRMED"
                            THEN [writers EXCEPT ![c.tok] = @ + 1]
                            ELSE writers
              /\ UNCHANGED env
           \/ Fault /\ ClickGoes(h, Reply(c.op)) /\ UNCHANGED writers
        /\ UNCHANGED <<table, cached, conn, guest, gc, world>>

\* mailer.Send to the guest: the mail arrives or is lost, the code goes on.
Mail(h) ==
    LET c == click[h]
    IN  /\ c.pc = "mail"
        /\ ClickGoes(h, Reply(c.op))
        /\ \/ mails' = mails \cup {<<c.op, c.tok>>}
           \/ UNCHANGED mails
        /\ UNCHANGED <<table, cached, conn, guest, gc, writers, remote, env>>

Said == {"saidConfirmed", "saidProcessed", "saidRejected"}

\* The redirect with the flash message ends the request.
Return(h) ==
    /\ click[h].pc \in Said
    /\ click' = [click EXCEPT ![h] = IdleClick]
    /\ UNCHANGED <<table, cached, conn, guest, gc, writers, world, env>>

\* The goroutine of ConfirmBooking: it ends with nothing written when there is
\* no calendar, the list cannot be read or the PUT fails; nobody tries again.
WriteBack(g) ==
    /\ writers[g] > 0
    /\ Connected
    /\ writers' = [writers EXCEPT ![g] = @ - 1]
    /\ \/ remote' = remote \cup {g}
       \/ UNCHANGED remote
    /\ UNCHANGED <<table, cached, conn, guest, click, gc, mails, env>>

-----------------------------------------------------------------------------
(***************************************************************************)
(* The garbage collector.                                                  *)
(***************************************************************************)

\* Mutant of ExpiredRows: the comparison is the wrong way round.
RunningRows == {g \in Guests : status[g] = "PENDING" /\ reserved[g] >= now}

ExpiredRows == {g \in Guests : Expired(status[g], reserved[g], now)}

\* A tick: the SELECT is read to its end before the connection is given back.
GCSelect ==
    /\ gc.pc = "idle"
    /\ Connected
    /\ IF ExpiredRows = {} THEN gc' = IdleGC
       ELSE GCGoes("update", ExpiredRows)
    /\ UNCHANGED <<table, cached, conn, guest, click, writers, world, env>>

\* Mutant of GCSelectFails: the loop returns on the error.
GCStops ==
    /\ gc.pc = "idle"
    /\ Connected
    /\ Fault
    /\ GCGoes("stopped", {})
    /\ UNCHANGED <<table, cached, conn, guest, click, writers, world>>

\* The SELECT fails: the error is logged and the loop waits for the next tick.
GCSelectFails ==
    /\ gc.pc = "idle"
    /\ Connected
    /\ Fault
    /\ UNCHANGED <<table, cached, conn, tasks, world>>

\* Mutant of GCUpdate: the mails go out also when the UPDATE failed.
GCMailAnyway ==
    /\ gc.pc = "update"
    /\ Connected
    /\ GCGoes("mail", gc.rows)
    /\ \/ SetStatus(gc.rows, "CANCELLED") /\ UNCHANGED env
       \/ Fault /\ UNCHANGED table
    /\ UNCHANGED <<cached, conn, guest, click, writers, world>>

\* UPDATE ... WHERE id IN (the rows selected), whatever they have become.
GCUpdate ==
    /\ gc.pc = "update"
    /\ Connected
    /\ \/ /\ SetStatus(gc.rows, "CANCELLED")
          /\ GCGoes("mail", gc.rows)
          /\ UNCHANGED env
       \/ Fault /\ gc' = IdleGC /\ UNCHANGED table
    /\ UNCHANGED <<cached, conn, guest, click, writers, world>>

\* One turn of the loop over the cancelled bookings: fetch and mail, either of
\* which may fail and is passed over.
GCMail ==
    /\ gc.pc = "mail"
    /\ Connected
    /\ \E g \in gc.rows :
         /\ IF gc.rows = {g} THEN gc' = IdleGC
            ELSE GCGoes("mail", gc.rows \ {g})
         /\ \/ mails' = mails \cup {<<"CANCELLED", g>>}
            \/ UNCHANGED mails
    /\ UNCHANGED <<table, cached, conn, guest, click, writers, remote, env>>

-----------------------------------------------------------------------------
(***************************************************************************)
(* The surroundings: calendar sync, clock, termination of the process.     *)
(***************************************************************************)

\* BulkUpsertCalendarEvents commits a sync result in one transaction: new
\* events, and new times in place of the stale ones of events known already.
SyncUpsert ==
    /\ Connected
    /\ \E fresh \in SUBSET Events \ {{}}, stale \in SUBSET cached :
         cached' = (cached \ stale) \cup fresh
    /\ UNCHANGED <<table, conn, tasks, world, env>>

\* Purging, or deleting a calendar, takes events out of the cache.
SyncDrop ==
    /\ Connected
    /\ \E e \in cached : cached' = cached \ {e}
    /\ UNCHANGED <<table, conn, tasks, world, env>>

Tick ==
    /\ now < MaxTime
    /\ now' = now + 1
    /\ UNCHANGED <<table, cached, conn, tasks, world, faults, crashes>>

\* The process ends and is started again.  main returns as soon as the
\* listener is closed, so a shutdown cuts requests, goroutines and an open
\* transaction exactly as a crash does; the table survives.  Who was waiting for an
\* answer gets none.
InFlight(g) == guest[g].pc \notin {"form", "accepted", "refused", "unsure"}

Crash ==
    /\ crashes < MaxCrashes
    /\ crashes' = crashes + 1
    /\ conn' = Free
    /\ guest' = [g \in Guests |-> IF InFlight(g)
                                  THEN [pc |-> "unsure", seen |-> 0]
                                  ELSE guest[g]]
    /\ click' = [h \in Handlers |-> IdleClick]
    /\ gc' = IdleGC
    /\ writers' = [g \in Guests |-> 0]
    /\ UNCHANGED <<table, cached, world, now, faults>>

-----------------------------------------------------------------------------
GuestWorks(g) ==
    \/ LoadEvents(g) \/ LoadBookings(g) \/ TxBegin(g) \/ TxEvents(g)
    \/ TxBookings(g) \/ TxInsert(g) \/ Accept(g)

ClickWorks(h) == Update(h) \/ Fetch(h) \/ Mail(h) \/ Return(h)

Next ==
    \/ \E g \in Guests : Submit(g) \/ GuestWorks(g) \/ WriteBack(g)
    \/ \E h \in Handlers : Look(h) \/ ClickWorks(h)
    \/ GCSelect \/ GCSelectFails \/ GCUpdate \/ GCMail
    \/ SyncUpsert \/ SyncDrop
    \/ Tick
    \/ Crash

Spec == Init /\ [][Next]_vars

\* The Go scheduler runs every goroutine that is ready, and database/sql hands
\* the connection to its waiters in order.  Guests and hosts need not click,
\* nothing fails or changes because it has to.  Nor does the network answer: neither
\* mailer.Send (email.go:82) nor the PUT of a write-back (service.go:77) has a
\* deadline, so the steps that wait for them, Accept, Mail, GCMail and WriteBack,
\* may never be taken.
Fairness ==
    /\ \A g \in Guests : WF_vars(guest[g].pc # "notify" /\ GuestWorks(g))
    /\ \A h \in Handlers : WF_vars(click[h].pc # "mail" /\ ClickWorks(h))
    /\ WF_vars(GCSelect) /\ WF_vars(GCUpdate)

FairSpec == Spec /\ Fairness

-----------------------------------------------------------------------------
(***************************************************************************)
(* Correctness.                                                            *)
(***************************************************************************)

GuestPcs == {"form", "events", "bookings", "begin", "txEvents", "txBookings",
             "txInsert", "notify", "accepted", "refused", "unsure"}
TxPcs    == {"txEvents", "txBookings", "txInsert"}
ClickPcs == {"idle", "update", "fetch", "mail"} \cup Said

TableType == /\ status \in [Guests -> Statuses \cup {Absent}]
             /\ slot \in [Guests -> Offers \cup {NoOffer}]
             /\ reserved \in [Guests -> Nat]
             /\ was \in [Guests -> SUBSET Statuses]
GuestType == guest \in [Guests -> [pc : GuestPcs, seen : Nat]]
ClickType == /\ click \in [Handlers -> [pc  : ClickPcs,
                                        op  : {"CONFIRMED", "REJECTED", "none"},
                                        tok : Guests \cup {"none"}]]
             /\ \A h \in Handlers :
                  click[h].pc # "idle" => /\ click[h].op # "none"
                                          /\ click[h].tok \in Guests
GCType    == gc \in [pc : {"idle", "update", "mail"}, rows : SUBSET Guests]
WorldType == /\ writers \in [Guests -> Nat]
             /\ cached \in SUBSET Events
             /\ conn \in Guests \cup {Free}
             /\ mails \in SUBSET (Terminal \X Guests)
             /\ remote \in SUBSET Guests
EnvType   == now \in Nat /\ faults \in Nat /\ crashes \in Nat

\* Every variable has its type; a click that has looked carries a verdict.
TypeOK ==
    TableType /\ GuestType /\ ClickType /\ GCType /\ WorldType /\ EnvType

\* A confirmed row that had given its slot back before it was confirmed.
Revived(g) == status[g] = "CONFIRMED" /\ was[g] \cap Released # {}

\* Two active bookings of a host overlap only when one of them was confirmed
\* after it had been rejected or cancelled: the transaction of CreateBooking
\* never books a taken slot, and two requests racing for it never both win.
OverlapOnlyByRevival ==
    \A a, b \in Guests :
        /\ a # b
        /\ {status[a], status[b]} \subseteq Active
        /\ Overlaps(slot[a], slot[b])
        => Revived(a) \/ Revived(b)

\* A row appears only where no cached event and no active booking is at that
\* very moment, however old the page and the first check of its guest are.
BookedOnFreeSlot ==
    [][\A g \in Guests :
          status[g] = Absent /\ status'[g] # Absent
          => ~EventConflict(slot[g]) /\ ~BookingConflict(slot[g])]_vars

\* CancelExpiredBookings never cancels a reservation that is still running,
\* although its list may be old when it writes.
NeverCancelledEarly ==
    \A g \in Guests : "CANCELLED" \in was[g] => reserved[g] <= now

\* No guest is mailed an outcome the row never had, whatever fails or ends
\* between the statement and the mail.
MailsAreTrue == \A m \in mails : m[1] \in was[m[2]]

\* Nothing is written to the host's calendar, or on its way there, for a
\* booking that was never confirmed.
CalendarHoldsConfirmed ==
    \A g \in Guests : g \in remote \/ writers[g] > 0 => "CONFIRMED" \in was[g]

\* "Booking confirmed." is only said of a booking that was confirmed.
ConfirmReplyIsTrue ==
    \A h \in Handlers :
        click[h].pc = "saidConfirmed" => "CONFIRMED" \in was[click[h].tok]

\* A guest told that the request was sent has a row, and a guest refused has none and
\* gets none later, also when the process ends in between.  (Not a guest whose COMMIT
\* failed, or who got no answer.)
AnswerMatchesTable ==
    \A g \in Guests :
        /\ guest[g].pc = "accepted" => status[g] # Absent
        /\ guest[g].pc = "refused" => status[g] = Absent

\* The service implements the lifecycle it promises: a request is entered on a
\* free interval, and a status is only ever overwritten with a verdict reached
\* while the booking was PENDING.
Lifecycle == INSTANCE BookingLifecycle WITH
    Bookings   <- Guests,
    Intervals  <- Offers,
    NoInterval <- NoOffer,
    interval   <- [g \in Guests |-> IF status[g] = Absent THEN NoOffer ELSE slot[g]],
    verdicts   <- {<<click[h].tok, click[h].op>> :
                       h \in {x \in Handlers : click[x].pc = "update"}}
                  \cup (IF gc.pc = "update" THEN gc.rows \X {"CANCELLED"} ELSE {})

ImplementsLifecycle == Lifecycle!Spec

\* An expired request gives its slot back in the end, also when statements of the
\* collector fail or the process restarts in the middle of a sweep; provided the mails
\* of the collector return, for it is one goroutine (service.go:153) and a mail server
\* that hangs holds up every later sweep.
ExpiredIsReleased ==
    []<>(gc.pc # "mail") =>
        \A g \in Guests :
            Expired(status[g], reserved[g], now) ~> status[g] # "PENDING"

\* Every submission is answered or gets as far as its mail, although the mails and
\* write-backs of others hang: no early return keeps the connection.
SubmissionsEnd ==
    \A g \in Guests : InFlight(g) ~> ~InFlight(g) \/ guest[g].pc = "notify"

\* Every click is answered or gets as far as its mail, while submissions take and give
\* back the one connection and mails of others hang.
ClicksEnd ==
    \A h \in Handlers : click[h].pc # "idle" ~> click[h].pc \in {"idle", "mail"}

-----------------------------------------------------------------------------
(***************************************************************************)
(* What the repository's documents and texts say of the program.           *)
(***************************************************************************)

\* docs/explanation/architecture.md: "A booking that is confirmed must not
\* double-book.  This is the only hard invariant."
NoDoubleBooking ==
    \A a, b \in Guests :
        /\ a # b
        /\ status[a] = "CONFIRMED"
        /\ status[b] \in Active
        => ~Overlaps(slot[a], slot[b])
=============================================================================
