---------------------------- MODULE HostSettings ----------------------------
(***************************************************************************)
(* What hosts set on the dashboard, and guests who are using it meanwhile: *)
(* internal/db/event_types.go and availability.go, the event type and      *)
(* availability handlers of internal/handler/dashboard.go, and the handlers *)
(* of public.go as far as they depend on both.                             *)
(*                                                                         *)
(* A tab is a dashboard request with the page it came from.  A week holds  *)
(* the rule of each day, or None where there is no row; a rule is open     *)
(* from 0 to its closing time.  Of an event type the columns that matter   *)
(* to a guest are kept; the others travel with the duration.               *)
(*                                                                         *)
(* Clocks, calendars and other bookings are left to SlotPicker and         *)
(* BookingService, and so is what the connection is held for elsewhere.    *)
(***************************************************************************)
EXTENDS Integers

CONSTANTS
    Hosts, Tabs, Guests,
    None,       \* no row, no holder, no host
    MaxTypes,   \* bound on the event types that are created
    Slugs,      \* slugs of the forms
    Durations,  \* durations of the forms: what Atoi makes of the field, 0 and less included
    Starts,     \* starts of forms that no page has shown
    Days,       \* days of the week
    Weeks,      \* weeks a host fills in, [Days -> [to, active] or None]
    MaxPosts,   \* bound on the forms that are posted
    MaxTrouble  \* bound on failing statements and restarts

Ids == 1 .. MaxTypes

Rule      == [to : Nat, active : BOOLEAN]
WeekType  == [Days -> Rule \cup {None}]
EventType == [owner : Hosts, slug : Slugs, duration : Int, active : BOOLEAN]

ASSUME SettingsAssumption ==
    /\ Durations \cup Starts \subseteq Int /\ Days \subseteq Nat
    /\ MaxTypes \in Nat \ {0} /\ {MaxPosts, MaxTrouble} \subseteq Nat
    /\ None \notin Hosts \cup Tabs \cup EventType
    /\ Weeks \subseteq WeekType

VARIABLES
    type,    \* event_types: [Ids -> [owner, slug, duration, active] or None]
    week,    \* availability_rules: [Hosts -> week], committed
    conn,    \* the tab whose transaction has the connection, or None
    tab,     \* [Tabs -> locals of the dashboard request]
    guest,   \* [Guests -> locals of the page or of the form]
    posts, trouble,
    clicks,  \* history: [Ids -> times its owner has switched it]
    settled  \* history: [Hosts -> the form whose saving was committed last]

history == <<clicks, settled>>
limits  == <<posts, trouble>>
vars    == <<type, week, conn, tab, guest, limits, history>>

-----------------------------------------------------------------------------
NoWeek   == [d \in Days |-> None]
NewRule  == [to |-> 1, active |-> FALSE]

\* fresh: the page could be read, and nobody has saved since.  asShown: the form is
\* the page.
IdleTab == [pc |-> "idle", host |-> None, form |-> NoWeek, draft |-> NoWeek, rest |-> {},
            id |-> 1, duration |-> 0, switch |-> FALSE, fresh |-> FALSE, asShown |-> FALSE]

\* had: the durations its event type has had since the form was sent.  weeks: what
\* its host has had settled since the request came in.  blind: reading it failed.
IdleGuest == [pc |-> "idle", id |-> 1, duration |-> 0, day |-> 0, rules |-> NoWeek,
              at |-> 0, slots |-> {}, pick |-> {}, had |-> {}, weeks |-> {},
              blind |-> FALSE]

TabGoes(t, r)   == tab' = [tab EXCEPT ![t] = r]
GuestGoes(g, r) == guest' = [guest EXCEPT ![g] = r]
Connected       == conn = None

\* A form is posted.
Post == posts < MaxPosts /\ posts' = posts + 1 /\ UNCHANGED trouble

Trouble == trouble < MaxTrouble /\ trouble' = trouble + 1 /\ UNCHANGED posts

Owned(id, h) == type[id] # None /\ type[id].owner = h

\* The event type of a link.
IsLinked(id, h, slug) == Owned(id, h) /\ type[id].slug = slug

Init ==
    /\ type = [i \in Ids |-> None]
    /\ week = [h \in Hosts |-> NoWeek]
    /\ conn = None
    /\ tab = [t \in Tabs |-> IdleTab]
    /\ guest = [g \in Guests |-> IdleGuest]
    /\ posts = 0 /\ trouble = 0
    /\ clicks = [i \in Ids |-> 0]
    /\ settled = week

-----------------------------------------------------------------------------
(***************************************************************************)
(* Event types.                                                            *)
(***************************************************************************)

\* Mutant of Create: slugs are not UNIQUE.
CreateTwice ==
    /\ Post /\ Connected
    /\ \E h \in Hosts, s \in Slugs, d \in {x \in Durations : x > 0}, i \in Ids :
         /\ type[i] = None /\ \A j \in 1 .. i - 1 : type[j] # None
         /\ type' = [type EXCEPT ![i] =
                       [owner |-> h, slug |-> s, duration |-> d, active |-> TRUE]]
    /\ UNCHANGED <<week, conn, tab, guest, history>>

\* HandleEventTypesPost.  A form without a duration, or with a slug the host has
\* already (UNIQUE), is shown again.
Create ==
    /\ Post /\ Connected
    /\ \E h \in Hosts, s \in Slugs, d \in {x \in Durations : x > 0}, i \in Ids :
         /\ \A j \in Ids : ~IsLinked(j, h, s)
         /\ type[i] = None /\ \A j \in 1 .. i - 1 : type[j] # None
         /\ type' = [type EXCEPT ![i] =
                       [owner |-> h, slug |-> s, duration |-> d, active |-> TRUE]]
    /\ UNCHANGED <<week, conn, tab, guest, history>>

\* HandleEventTypePost reads the row; any duration goes.
Edit(t) ==
    /\ tab[t].pc = "idle"
    /\ Post /\ Connected
    /\ \E h \in Hosts, i \in Ids, d \in Durations :
         /\ Owned(i, h)
         /\ TabGoes(t, [IdleTab EXCEPT !.pc = "update", !.host = h, !.id = i,
                                       !.duration = d, !.switch = type[i].active])
    /\ UNCHANGED <<type, week, conn, guest, history>>

\* Who is waiting for the answer to a form of this event type learns of a duration.
Learns(i, d) ==
    guest' = [g \in Guests |-> IF guest[g].id = i THEN [guest[g] EXCEPT !.had = @ \cup {d}]
                                                  ELSE guest[g]]

\* Mutant of Update: the whole row is written back.
UpdateRow(t) ==
    LET r == tab[t]
    IN  /\ r.pc = "update" /\ Connected
        /\ type' = [type EXCEPT ![r.id].duration = r.duration, ![r.id].active = r.switch]
        /\ Learns(r.id, r.duration)
        /\ TabGoes(t, IdleTab)
        /\ UNCHANGED <<week, conn, limits, history>>

\* UpdateEventType: neither slug nor active is in its list; or it fails, and the
\* form is shown again.
Update(t) ==
    LET r == tab[t]
    IN  /\ r.pc = "update" /\ Connected
        /\ \/ /\ type' = [type EXCEPT ![r.id].duration = r.duration]
              /\ Learns(r.id, r.duration)
              /\ UNCHANGED limits
           \/ Trouble /\ UNCHANGED <<type, guest>>
        /\ TabGoes(t, IdleTab)
        /\ UNCHANGED <<week, conn, history>>

\* HandleEventTypeToggle: one statement, NOT active of whatever is there.  (When it
\* fails, nothing changes and nobody is told.)
Toggle ==
    /\ Post /\ Connected
    /\ \E h \in Hosts, i \in Ids :
         /\ Owned(i, h)
         /\ type' = [type EXCEPT ![i].active = ~@]
         /\ clicks' = [clicks EXCEPT ![i] = @ + 1]
    /\ UNCHANGED <<week, conn, tab, guest, settled>>

-----------------------------------------------------------------------------
(***************************************************************************)
(* Availability.                                                           *)
(***************************************************************************)

\* Mutant of Filled: a day without a row is shown as a working day.
FilledActive(w) == [d \in Days |-> IF w[d] = None THEN [NewRule EXCEPT !.active = TRUE] ELSE w[d]]

\* The form HandleAvailabilityGet shows: every day has a rule, checked or not.
Filled(w) == [d \in Days |-> IF w[d] = None THEN NewRule ELSE w[d]]

Shown(h, w) == [IdleTab EXCEPT !.pc = "shown", !.host = h, !.form = Filled(w),
                               !.fresh = TRUE, !.asShown = TRUE]

\* The error of ListAvailabilityRules is dropped: the page then shows no rules.
ShowWeek(t) ==
    /\ tab[t].pc \in {"idle", "shown"} /\ Connected
    /\ \E h \in Hosts :
         \/ TabGoes(t, Shown(h, week[h])) /\ UNCHANGED limits
         \/ TabGoes(t, [Shown(h, NoWeek) EXCEPT !.fresh = FALSE]) /\ Trouble
    /\ UNCHANGED <<type, week, conn, guest, history>>

\* HandleAvailabilityPost: the form as it was shown or filled in anew, days with a
\* blank time left out.  ReplaceAvailabilityRules begins a transaction.
Save(t) ==
    /\ tab[t].pc = "shown"
    /\ Post /\ Connected
    /\ conn' = t
    /\ \E w \in Weeks \cup {tab[t].form} :
         TabGoes(t, [tab[t] EXCEPT !.pc = "delete", !.form = w, !.draft = week[tab[t].host],
                                   !.asShown = w = tab[t].form])
    /\ UNCHANGED <<type, week, guest, history>>

\* Mutant of GiveUp: the deferred rollback is missing.
GiveUpOpen(t) ==
    /\ Trouble
    /\ TabGoes(t, IdleTab)
    /\ UNCHANGED <<conn, week>>

\* A statement of the transaction fails: it is rolled back, "db error".
GiveUp(t) ==
    /\ Trouble
    /\ conn' = None
    /\ TabGoes(t, IdleTab)
    /\ UNCHANGED week

\* DELETE of all rows of the host.
Delete(t) ==
    /\ tab[t].pc = "delete"
    /\ \/ /\ TabGoes(t, [tab[t] EXCEPT !.pc = "insert", !.draft = NoWeek,
                                       !.rest = {d \in Days : tab[t].form[d] # None}])
          /\ UNCHANGED <<conn, week, limits>>
       \/ GiveUp(t)
    /\ UNCHANGED <<type, guest, history>>

\* INSERT of one row.
Insert(t) ==
    /\ tab[t].pc = "insert"
    /\ \E d \in tab[t].rest :
         \/ /\ TabGoes(t, [tab[t] EXCEPT !.rest = @ \ {d},
                                         !.draft = [@ EXCEPT ![d] = tab[t].form[d]]])
            /\ UNCHANGED <<conn, week, limits>>
         \/ GiveUp(t)
    /\ UNCHANGED <<type, guest, history>>

\* The form of t is what the host has settled on from now on: pages of the week that
\* was are not fresh, and who is being served may have read either.
Settles(t) ==
    LET h == tab[t].host
    IN  /\ settled' = [settled EXCEPT ![h] = tab[t].form]
        /\ tab' = [s \in Tabs |-> IF s = t THEN IdleTab
                                  ELSE [tab[s] EXCEPT !.fresh = @ /\ tab[s].host # h]]
        /\ guest' = [g \in Guests |->
                       IF Owned(guest[g].id, h)
                       THEN [guest[g] EXCEPT !.weeks = @ \cup {tab[t].form}] ELSE guest[g]]

\* Mutant of Commit: the rows go out before the last one is in.
CommitEarly(t) ==
    /\ tab[t].pc = "insert"
    /\ week' = [week EXCEPT ![tab[t].host] = tab[t].draft]
    /\ conn' = None
    /\ Settles(t)
    /\ UNCHANGED <<type, limits, clicks>>

Commit(t) ==
    /\ tab[t].pc = "insert" /\ tab[t].rest = {}
    /\ \/ /\ week' = [week EXCEPT ![tab[t].host] = tab[t].draft]
          /\ conn' = None
          /\ Settles(t)
          /\ UNCHANGED limits
       \/ GiveUp(t) /\ UNCHANGED <<guest, settled>>
    /\ UNCHANGED <<type, clicks>>

-----------------------------------------------------------------------------
(***************************************************************************)
(* Guests.                                                                 *)
(***************************************************************************)

\* A request for event type i on day d that has looked the link up.
Looked(i, d) ==
    [IdleGuest EXCEPT !.pc = "rules", !.id = i, !.day = d, !.duration = type[i].duration,
                      !.weeks = {settled[type[i].owner]}]

\* handleSlotPicker looks the link up.
Open(g) ==
    /\ guest[g].pc = "idle" /\ Connected
    /\ \E i \in Ids, d \in Days :
         /\ type[i] # None /\ type[i].active
         /\ GuestGoes(g, Looked(i, d))
    /\ UNCHANGED <<type, week, conn, tab, limits, history>>

\* The forms of a page; and those nobody was shown, of any link, day and start.
FormsOf(r) ==
    IF r.pc = "shown" THEN {[id |-> r.id, day |-> r.day, start |-> s] : s \in r.slots}
    ELSE [id : {i \in Ids : type[i] # None}, day : Days, start : Starts]

\* Mutant of Submit: the form is judged by the event type of the page.
SubmitOldType(g) ==
    LET r == guest[g]
    IN  /\ r.pc = "shown" /\ Connected
        /\ \E f \in FormsOf(r) :
             GuestGoes(g, [r EXCEPT !.pc = "rules", !.pick = {f.start}, !.slots = {}, !.at = 0,
                                    !.had = {type[r.id].duration}])
        /\ UNCHANGED <<type, week, conn, tab, limits, history>>

\* handleBookingSubmit looks it up again: what a form says of the slot is its start.
Submit(g) ==
    /\ guest[g].pc \in {"idle", "shown"} /\ Connected
    /\ \E f \in FormsOf(guest[g]) :
         GuestGoes(g, IF type[f.id].active
                      THEN [Looked(f.id, f.day) EXCEPT !.pick = {f.start},
                                                       !.had = {type[f.id].duration}]
                      ELSE [IdleGuest EXCEPT !.pc = "notfound"])
    /\ UNCHANGED <<type, week, conn, tab, limits, history>>

\* ListAvailabilityRules, for the page or the form; its error is dropped here too.
LoadRules(g) ==
    /\ guest[g].pc = "rules" /\ Connected
    /\ \/ /\ GuestGoes(g, [guest[g] EXCEPT !.pc = "loop",
                                           !.rules = week[type[guest[g].id].owner]])
          /\ UNCHANGED limits
       \/ GuestGoes(g, [guest[g] EXCEPT !.pc = "loop", !.blind = TRUE]) /\ Trouble
    /\ UNCHANGED <<type, week, conn, tab, history>>

\* One turn of the loop of CalculateSlots, if the rule of the day is active.  With a
\* duration of 0 a turn leads nowhere, with a negative one away from the rule's end
\* (the list of candidates grows all the same).
Turn(g) ==
    LET r    == guest[g]
        rule == r.rules[r.day]
        over == IF rule = None THEN TRUE
                ELSE ~rule.active \/ r.at + r.duration > rule.to
    IN  /\ r.pc = "loop"
        /\ GuestGoes(g, IF over THEN [r EXCEPT !.pc = "filter"]
                        ELSE [r EXCEPT !.slots = @ \cup {r.at}, !.at = @ + r.duration])
        /\ UNCHANGED <<type, week, conn, tab, limits, history>>

\* The page is shown, or the form is accepted or refused.
Answer(g) ==
    LET r == guest[g]
    IN  /\ r.pc = "filter"
        /\ GuestGoes(g, [r EXCEPT !.pc = IF r.pick = {} THEN "shown"
                                         ELSE IF r.pick \subseteq r.slots THEN "booked"
                                         ELSE "refused"])
        /\ UNCHANGED <<type, week, conn, tab, limits, history>>

\* The guest goes, and may come back.
Leave(g) ==
    /\ guest[g].pc \in {"shown", "booked", "refused", "notfound"}
    /\ GuestGoes(g, IdleGuest)
    /\ UNCHANGED <<type, week, conn, tab, limits, history>>

\* The process ends and starts again; only what was committed stays.
Crash ==
    /\ Trouble
    /\ conn' = None
    /\ tab' = [t \in Tabs |-> IdleTab]
    /\ guest' = [g \in Guests |-> IdleGuest]
    /\ UNCHANGED <<type, week, history>>

TabWorks(t)   == Update(t) \/ Delete(t) \/ Insert(t) \/ Commit(t)
GuestWorks(g) == LoadRules(g) \/ Turn(g) \/ Answer(g)

Next ==
    \/ Create \/ Toggle
    \/ \E t \in Tabs : Edit(t) \/ ShowWeek(t) \/ Save(t) \/ TabWorks(t)
    \/ \E g \in Guests : Open(g) \/ Submit(g) \/ GuestWorks(g) \/ Leave(g)
    \/ Crash

Spec == Init /\ [][Next]_vars

\* A request that has begun is served; nobody has to post one.
FairSpec == /\ Spec
            /\ \A t \in Tabs : WF_vars(TabWorks(t))
            /\ \A g \in Guests : WF_vars(GuestWorks(g))

-----------------------------------------------------------------------------
(***************************************************************************)
(* Correctness.                                                            *)
(***************************************************************************)

TabType ==
    [pc : {"idle", "update", "shown", "delete", "insert"}, host : Hosts \cup {None},
     form : WeekType, draft : WeekType, rest : SUBSET Days, id : Ids, duration : Int,
     switch : BOOLEAN, fresh : BOOLEAN, asShown : BOOLEAN]
GuestType ==
    [pc : {"idle", "rules", "loop", "filter", "shown", "booked", "refused", "notfound"},
     id : Ids, duration : Int, day : Days \cup {0}, rules : WeekType, at : Int,
     slots : SUBSET Int, pick : SUBSET Int, had : SUBSET Int, weeks : SUBSET WeekType,
     blind : BOOLEAN]

\* The types, and UNIQUE(user_id, slug): a link leads to one event type.
SettingsTypeOK ==
    /\ type \in [Ids -> EventType \cup {None}]
    /\ \A i, j \in Ids :
         type[i] # None /\ IsLinked(j, type[i].owner, type[i].slug) => i = j
    /\ week \in [Hosts -> WeekType]
    /\ conn \in Tabs \cup {None}
    /\ tab \in [Tabs -> TabType]
    /\ guest \in [Guests -> GuestType]

\* ReplaceAvailabilityRules is all or nothing (availability.go:36): what is stored is
\* the form that was saved last, and what a page or the check of a form has read is
\* such a form, the one in force when the request came in or one saved since; never
\* the deleted week that is not inserted yet, nor a part of it, also when a statement
\* fails, the process ends, or two tabs save at once.  A page that could not read the
\* rules shows none (public.go:114), and is no witness of what is stored.
WholeWeeks ==
    /\ \A h \in Hosts : week[h] = settled[h]
    /\ \A g \in Guests :
         guest[g].pc \in {"loop", "filter", "shown", "booked", "refused"}
           /\ ~guest[g].blind => guest[g].rules \in guest[g].weeks

Hours(w) == {<<d, w[d].to>> : d \in {x \in Days : w[x] # None /\ w[x].active}}

\* Saving the availability page as it was shown opens and closes no hour, although
\* the page shows rules for days that have no row and stores them all.  (Not of a
\* page that could not be read: it closes the whole week.)
PageRoundTrip ==
    [][\A t \in Tabs :
          LET h == tab[t].host
          IN  tab[t].pc = "insert" /\ tab[t].asShown /\ tab[t].fresh /\ week' # week
                => Hours(week'[h]) = Hours(week[h])]_vars

\* An event type is on when its owner has switched it an even number of times: no
\* click is lost to another one or to an edit that was under way.
SwitchFollowsClicks ==
    \A i \in Ids : type[i] # None => (type[i].active <=> clicks[i] % 2 = 0)

\* A booking is as long as its event type said at some moment after the form was
\* sent, however old the page is, and lies in the rule the check has loaded, whatever
\* start the form names.
BookedByTheForm ==
    \A g \in Guests : guest[g].pc = "booked" =>
        LET r == guest[g]
        IN  /\ r.duration \in r.had
            /\ r.rules[r.day].active
            /\ \A s \in r.pick : s + r.duration <= r.rules[r.day].to

\* Every dashboard request is answered, and every page gets to its rules: no early
\* return keeps the connection.
TabsAreServed ==
    /\ \A t \in Tabs : tab[t].pc \in {"update", "delete", "insert"} ~> tab[t].pc = "idle"
    /\ \A g \in Guests : guest[g].pc = "rules" ~> guest[g].pc # "rules"

-----------------------------------------------------------------------------
(***************************************************************************)
(* What the program's texts say.                                           *)
(***************************************************************************)

\* slots.go:15: CalculateSlots "returns available booking slots for the given
\* date, duration, and location".
PagesReturn == \A g \in Guests : guest[g].pc = "loop" ~> guest[g].pc # "loop"
=============================================================================
