----------------------------- MODULE SlotPicker -----------------------------
(***************************************************************************)
(* Which slots a guest is offered and which requests pass the first check: *)
(* internal/calendar/slots.go with handleSlotPicker, calculateSlots and    *)
(* the slot test of handleBookingSubmit in internal/handler/public.go.     *)
(*                                                                         *)
(* Instants are integers on the UTC clock; a day has DayLen units there,   *)
(* and an hour one.                                                        *)
(* The host's zone has one offset before, and another from a change on     *)
(* that may lie inside the booking window, as at the ends of summer time.  *)
(* A wall clock is the integer an instant would be if the zone were UTC.   *)
(* A slot is named by its start, for one event type gives all slots one    *)
(* duration.                                                               *)
(***************************************************************************)
EXTENDS BookingTable, FiniteSets

CONSTANTS
    DayLen,     \* length of a day
    WeekLen,    \* days in a week
    Zones,      \* zones a host can be in, [before, after, change]
    Windows,    \* BookingWindowDays an event type can have
    Durations,  \* durations it can have: dashboard.go:371 stores any number
    Horizon,    \* how far ahead calendars are read (sync.go), in units
    Rules,      \* availability rules a weekday can have, [from, to, active]
    Busy,       \* [from, to, recurs] of events the calendars can hold
    Bookings,   \* [from, to, status] of bookings the table can hold
    Now,        \* the instants a request can arrive at
    Requested,  \* the starts a hand-made form can name
    Offsets     \* the offsets from UTC it can write them with

ASSUME ZoneAssumption ==
    /\ DayLen \in Nat \ {0}
    /\ WeekLen \in Nat \ {0}
    /\ Zones \subseteq [before : Int, after : Int, change : Int]
ASSUME TypesAssumption == Windows \subseteq Nat \ {0} /\ Durations \subseteq Int

\* How the zones of timezones_gen.go change their clocks, all of them from 2025 on: by
\* less than a day; back, without the hour that comes twice reaching over a midnight;
\* forward, in the west at a midnight or no less than the gain after one and never into
\* the east, and there no less than twice the gain before the next midnight.
ASSUME ChangeAssumption ==
    \A z \in Zones :
        LET gain == z.after - z.before
            hour == (z.change + z.before) % DayLen
        IN  /\ {z.before, z.after, gain} \subseteq 1 - DayLen .. DayLen - 1
            /\ gain < 0 => (z.change + z.after) % DayLen <= DayLen + gain
            /\ gain > 0 /\ z.before < 0 => z.after <= 0 /\ (hour = 0 \/ hour >= gain)
            /\ gain > 0 /\ z.after > 0 => hour + 2 * gain <= DayLen + 1

\* The time fields of the availability page send hours of a day.
ASSUME RulesAssumption ==
    Rules \subseteq [from : 0 .. DayLen - 1, to : 0 .. DayLen - 1, active : BOOLEAN]
ASSUME RowsAssumption ==
    /\ Busy \subseteq [from : Int, to : Int, recurs : BOOLEAN]
    /\ Bookings \subseteq [from : Int, to : Int, status : STRING]
ASSUME InstantsAssumption ==
    Now \cup Requested \cup Offsets \subseteq Int /\ Horizon \in Int

VARIABLES
    zone,       \* the host's
    rules,      \* availability_rules of the host: [weekday -> rule]
    busy,       \* events on the host's calendars
    booked,     \* bookings of the host
    duration,   \* of the event type
    window,     \* of the event type
    now,        \* time.Now() of the request
    pc,         \* control of the request
    form,       \* the start the submitted form names, {} before there is one
    offered,    \* the slots shown to the guest before the form was sent
    left,       \* full page: days its list of dates has yet to try, or NoList
    dates,      \* full page: the dates found, as instants
    day,        \* CalculateSlots: local date asked for
    at,         \* CalculateSlots: slotStart
    candidates, \* CalculateSlots: candidates
    loaded,     \* the intervals calculateSlots has loaded
    slots       \* CalculateSlots: the result

tables == <<zone, rules, busy, booked, duration, window>>
list   == <<left, dates>>
loop   == <<day, at, candidates, loaded>>
vars   == <<tables, now, pc, form, offered, list, loop, slots>>

-----------------------------------------------------------------------------
NoList == -1

\* Mutant of Instant: the wall clock is taken for UTC.
InstantUTC(w) == w

\* time.Date: the instant at which the host's clock shows w.  The offset is looked
\* up at w, and once more where that leads: of an hour that comes twice or never it
\* names one instant.
UTCOffset(t) == IF t < zone.change THEN zone.before ELSE zone.after
Instant(w)   == w - UTCOffset(w - UTCOffset(w))

Clock(t)    == t + UTCOffset(t)
LocalDay(t) == Clock(t) \div DayLen
UTCDay(t)   == t \div DayLen
Midnight(d) == Instant(d * DayLen)
Weekday(d)  == d % WeekLen
WindowEnd   == now + window * DayLen

\* The rule of the weekday asked for; it counts when it is active.
RuleApplies(d) == rules[Weekday(d)].active
RuleStart(d)   == Instant(d * DayLen + rules[Weekday(d)].from)
RuleEnd(d)     == Instant(d * DayLen + rules[Weekday(d)].to)

Slot(s)     == [host |-> "host", from |-> s, to |-> s + duration]
Interval(x) == [host |-> "host", from |-> x.from, to |-> x.to]

\* An occurrence of a recurring event that is under way for over an hour: rset.Between
\* (caldav.go:281) yields those that begin inside the window of the synchronisation.
Unexpanded(e) == e.recurs /\ e.from < now - 1

\* The tables: a synchronisation just now has cached what begins before its horizon.
Cached == {e \in busy : e.from <= now + Horizon /\ ~Unexpanded(e)}
Kept   == {Interval(b) : b \in {x \in booked : x.status \in Active}}
Stored == {Interval(e) : e \in Cached} \cup Kept

\* Mutant of Loaded: only what starts after the request arrived.
LoadedStarting == {x \in Stored : x.from < WindowEnd /\ x.from > now - 1}

\* ListCalendarEventsForUser and ListPendingBookingsInRange: what a request loads.
Loaded == {x \in Stored : InRange(x, now, window * DayLen)}

-----------------------------------------------------------------------------
AtMostOne(S) == {T \in SUBSET S : Cardinality(T) <= 1}

Init ==
    /\ zone \in Zones
    /\ window \in Windows
    /\ rules \in [0 .. WeekLen - 1 -> Rules]
    /\ busy \in AtMostOne(Busy)
    /\ booked \in AtMostOne(Bookings)
    /\ duration \in Durations
    /\ now \in Now
    /\ pc = "idle"
    /\ form = {}
    /\ offered = {}
    /\ left = NoList
    /\ dates = {}
    /\ day = 0
    /\ at = 0
    /\ candidates = {}
    /\ loaded = {}
    /\ slots = {}

\* CalculateSlots starts on a date, with the rows loaded for this request.
Calculate(d) ==
    /\ day' = d
    /\ at' = RuleStart(d)
    /\ candidates' = {}
    /\ loaded' = Loaded
    /\ slots' = {}
    /\ pc' = IF RuleApplies(d) THEN "loop" ELSE "filter"
    /\ UNCHANGED <<tables, now>>

\* handleSlotPicker: the guest asks for the slots of a local date of the host,
\* any date, for the link carries it.
Pick ==
    /\ pc = "idle"
    /\ \E d \in LocalDay(now) - 1 .. LocalDay(WindowEnd) + 1 : Calculate(LocalDay(Midnight(d)))
    /\ UNCHANGED <<form, offered, list>>

\* Mutant of Today: the date is read off the UTC clock.
TodayUTC == Midnight(UTCDay(now))

\* The first of the dates the full page tries; the others lie 24 hours apart.
Today     == Midnight(LocalDay(now))
Listed(i) == Today + i * DayLen

\* handleSlotPicker again: the full page looks for dates first.  (With a date in
\* its link it goes on to what Pick shows.)
Browse ==
    /\ pc = "idle"
    /\ left' = window
    /\ Calculate(LocalDay(Listed(0)))
    /\ UNCHANGED <<form, offered, dates>>

\* The forms: of a slot of the page, with the UTC time stamp slots-partial.html puts
\* there; or, from who never saw a page, of any start, written with any offset.
Forms == IF pc = "picked" THEN slots \X {0} ELSE Requested \X Offsets

\* Mutant of Submit: the date is that of the slot's end.
SubmitEnd ==
    /\ pc \in {"idle", "picked"}
    /\ \E f \in Forms :
         /\ form' = {f[1]}
         /\ Calculate(LocalDay(Midnight(UTCDay(f[1] + duration + f[2]))))
    /\ offered' = slots
    /\ UNCHANGED list

\* handleBookingSubmit: the date is read off the time stamp as it is written, and
\* taken for a local date of the host.
Submit ==
    /\ pc \in {"idle", "picked"}
    /\ \E f \in Forms :
         /\ form' = {f[1]}
         /\ Calculate(LocalDay(Midnight(UTCDay(f[1] + f[2]))))
    /\ offered' = slots
    /\ UNCHANGED list

\* The loop of CalculateSlots leaves for the filter.
Leave == pc' = "filter" /\ UNCHANGED <<at, candidates>>

\* It takes the slot at hand and steps on.
Take(step) ==
    /\ candidates' = candidates \cup {at}
    /\ at' = at + step
    /\ UNCHANGED pc

\* Mutants of Candidate: slots start one unit apart; a slot may run past the
\* end of the rule; the end of the rule is tested for equality alone.
CandidateEveryUnit ==
    /\ pc = "loop"
    /\ IF at + duration > RuleEnd(day) THEN Leave ELSE Take(1)
    /\ UNCHANGED <<tables, now, form, offered, list, day, loaded, slots>>

CandidatePastEnd ==
    /\ pc = "loop"
    /\ IF at > RuleEnd(day) THEN Leave ELSE Take(duration)
    /\ UNCHANGED <<tables, now, form, offered, list, day, loaded, slots>>

CandidateStay ==
    /\ pc = "loop"
    /\ IF at + duration > RuleEnd(day) THEN Leave ELSE Take(duration - 1)
    /\ UNCHANGED <<tables, now, form, offered, list, day, loaded, slots>>

\* One turn of the loop of CalculateSlots over the slots of the rule.  With a duration
\* of zero or less a turn leads no nearer to its end.
Candidate ==
    /\ pc = "loop"
    /\ IF at + duration > RuleEnd(day) THEN Leave ELSE Take(duration)
    /\ UNCHANGED <<tables, now, form, offered, list, day, loaded, slots>>

InWindow(s) == s > now /\ s <= WindowEnd
IsFree(s)   == \A x \in loaded : ~Overlaps(x, Slot(s))

\* The filter of CalculateSlots: its result.
Available == {s \in candidates : InWindow(s) /\ IsFree(s)}

\* A day of the list is done; the next one is tried, or the first date is shown.
ListDate ==
    /\ pc = "filter" /\ left > 0
    /\ left' = left - 1
    /\ dates' = IF Available = {} THEN dates ELSE dates \cup {Listed(window - left)}
    /\ \E t \in IF left > 1 THEN {Listed(window - left + 1)}
                ELSE IF dates' = {} THEN {Today}
                ELSE {x \in dates' : \A y \in dates' : x <= y} :
         Calculate(LocalDay(t))
    /\ UNCHANGED <<form, offered>>

\* The slots are shown, or looked up for the form.
Filter ==
    /\ pc = "filter" /\ left <= 0
    /\ slots' = Available
    /\ pc' = IF form = {} THEN "picked"
             ELSE IF form \subseteq Available THEN "accepted" ELSE "unavailable"
    /\ UNCHANGED <<tables, now, form, offered, list, loop>>

\* The guest has an answer, or looks at the page and leaves it there.
Done == pc \in {"picked", "accepted", "unavailable"} /\ UNCHANGED vars

Next == Pick \/ Browse \/ Submit \/ Candidate \/ ListDate \/ Filter \/ Done

\* A request that runs is served to its end.
Spec == Init /\ [][Next]_vars /\ WF_vars(Candidate \/ ListDate \/ Filter)

-----------------------------------------------------------------------------
(***************************************************************************)
(* Correctness.                                                            *)
(***************************************************************************)

\* The starts docs/explanation/booking-flow.md describes: the rule cut into
\* pieces of the duration, in the future, inside the window, loaded rows out.
Described(d) ==
    {s \in RuleStart(d) .. RuleEnd(d) :
        /\ RuleApplies(d)
        /\ duration > 0 /\ (s - RuleStart(d)) % duration = 0
        /\ s + duration <= RuleEnd(d)
        /\ InWindow(s)
        /\ IsFree(s)}

\* The loop and the filter of CalculateSlots compute that set when they return, whether
\* the rule is a multiple of the duration, shorter than it, reversed or inactive.
SlotsAreDescribed ==
    pc \in {"picked", "accepted", "unavailable"} => slots = Described(day)

\* No slot that ends inside the booking window overlaps an active booking of the
\* host, nor one of his events when it ends inside the horizon of the last
\* synchronisation, although the handlers of public.go load only the rows between
\* an hour ago and the end of the window.  The exception are occurrences of recurring
\* events that have run for over an hour: the synchronisation does not cache them.
OfferedIsFree ==
    \A s \in slots : s + duration <= WindowEnd =>
        /\ \A x \in Kept : ~Overlaps(x, Slot(s))
        /\ s + duration <= now + Horizon =>
             \A e \in busy : ~Unexpanded(e) => ~Overlaps(Interval(e), Slot(s))

\* Two slots of a page never overlap: no guest who takes one of them makes
\* CreateBooking refuse the other.
OfferedAreDisjoint ==
    \A s, t \in slots : s # t => ~Overlaps(Slot(s), Slot(t))

\* A form handleBookingSubmit lets through names a time inside the active rule of
\* the host's own date, whatever offset it is written with and however far the date
\* read off it lies from the host's, and also when the clocks are changed.
AcceptedByWallClock ==
    pc = "accepted" =>
        \A s \in form :
            LET d == LocalDay(s)
            IN  RuleApplies(d) /\ RuleStart(d) <= s /\ s + duration <= RuleEnd(d)

\* A slot the guest was just shown is refused only where its UTC date, under which
\* handleBookingSubmit looks it up, is not the host's date or has no midnight there.
RefusedOnOtherDates ==
    pc = "unavailable" /\ form \subseteq offered =>
        \A s \in form :
            LocalDay(s) = UTCDay(s) => Clock(Midnight(UTCDay(s))) # UTCDay(s) * DayLen

\* The list of dates of the full page names every date with a slot from today to the
\* end of the booking window, and no other, although its days are 24 hours apart on
\* every clock.  Three dates can be missing: the one in the middle of which the window
\* ends, for only as many dates are tried as the window has days (public.go:121), with
\* today as the first; the one before it, when a day of the window has 25 hours; and
\* today, when it has no midnight and the list begins with yesterday.
DatesAreListed ==
    pc = "picked" /\ left = 0 =>
        LET days == {LocalDay(t) : t \in dates}
            last == LocalDay(now) + window - 1
        IN  /\ \A d \in days : Described(d) # {}
            /\ \A d \in LocalDay(now) .. LocalDay(WindowEnd) \ days :
                 Described(d) # {} => \/ d > last
                                      \/ d = last /\ LocalDay(Listed(window - 1)) < last
                                      \/ d = LocalDay(now) /\ LocalDay(Today) < d

\* CalculateSlots returns, and every request is answered, when the duration is at
\* least one.
RequestsEnd ==
    pc \in {"loop", "filter"} /\ duration > 0
        ~> pc \in {"picked", "accepted", "unavailable"}

-----------------------------------------------------------------------------
(***************************************************************************)
(* Claims of the program and its docs that the code does not keep.         *)
(***************************************************************************)

\* public.go answers "slot is no longer available" to a form: here nothing has
\* changed since the page offered that very slot.
OfferedIsAccepted == pc = "unavailable" => ~(form \subseteq offered)
=============================================================================
