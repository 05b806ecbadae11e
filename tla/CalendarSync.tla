---------------------------- MODULE CalendarSync ----------------------------
(***************************************************************************)
(* The cache of the hosts' CalDAV calendars: internal/calendar/sync.go and *)
(* caldav.go over internal/db/calendars.go, with the dashboard handlers    *)
(* that connect, remove and synchronise a calendar.                        *)
(*                                                                         *)
(* Two synchronisations can be under way: one of the background loop and   *)
(* one a host asked for.  Each keeps its copy of the calendar's row, waits *)
(* for the server without holding the database, and then writes statement  *)
(* by statement, while servers, dashboard and the other one go on.         *)
(*                                                                         *)
(* An event on a server is a set of occurrences <<o, t>>: the one the RRULE *)
(* puts at o and a RECURRENCE-ID moves to t, or leaves where it is, t = o. *)
(* A plain event has at most one, an event that is not there has none.     *)
(***************************************************************************)
EXTENDS Integers

CONSTANTS
    MaxId,        \* bound on the row ids of the calendars table
    Sources,      \* CalDAV URLs a host can connect
    Homes,        \* those of an account; the others are of one collection
    Uids,         \* events
    Source,       \* [Uids -> source the event is seen through]
    Collection,   \* [Uids -> collection it is in]
    Recurring,    \* events with an RRULE
    Length,       \* [Uids -> hours an event lasts]
    Times,        \* instants an event can start at
    AtFirst,      \* what the servers may hold in the beginning
    Horizon,      \* hours a synchronisation looks ahead
    ForeignKeys,  \* whether the driver may heed, or ignore, _foreign_keys=on
    Clock,        \* instants a run can begin at
    MaxTrouble    \* bound on changes on the servers, calendars removed, requests
                  \* and statements that fail, and restarts, taken together

Ids == 1 .. MaxId

None == "none"
Loop == "loop"
Manual == "manual"
Syncs == {Loop, Manual}

\* What an event can be: a rule puts one occurrence at an instant, and an event
\* without one takes place at most once, where it says.
Possible(u, os) ==
    \A x, y \in os : IF u \in Recurring THEN x[1] = y[1] => x = y
                                        ELSE x = y /\ x[1] = x[2]

ASSUME SourcesAssumption == None \notin Sources /\ Homes \subseteq Sources
ASSUME UidsAssumption ==
    /\ Source \in [Uids -> Sources] /\ Recurring \subseteq Uids
    /\ Times \subseteq Nat /\ Length \in [Uids -> Nat]
    /\ AtFirst \subseteq [Uids -> SUBSET (Times \X Times)]
    /\ \A at \in AtFirst : \A u \in Uids : Possible(u, at[u])
ASSUME ClockAssumption == Clock \subseteq Nat \ {0} /\ Clock # {}
ASSUME KeysAssumption == ForeignKeys \subseteq BOOLEAN
ASSUME LimitsAssumption ==
    {MaxId, Horizon, MaxTrouble} \subseteq Nat

VARIABLES
    server,   \* [Uids -> occurrences of the event on the server]
    row,      \* calendars: [Ids -> source the row is connected to, or None]
    cache,    \* calendar_events: {[cal, key, at]}, at is start_at
    enforced, \* whether the database enforces its foreign keys
    sync,     \* [Syncs -> locals of the synchronisation]
    todo,     \* rows the loop has listed and not turned to yet, and its time
    now, trouble

database == <<row, cache, enforced>>
process  == <<sync, todo>>
limits   == <<now, trouble>>
vars     == <<server, database, process, limits>>

-----------------------------------------------------------------------------
Collections(src) == {Collection[u] : u \in {v \in Uids : Source[v] = src}}

\* changed (events changed on the server since it began) and alone (nobody else
\* worked on this calendar since it began) are history.
Idle == [pc |-> "idle", id |-> 0, src |-> None, at |-> 0, paths |-> {},
         found |-> FALSE, objs |-> {}, changed |-> {}, alone |-> TRUE]

Goes(p, s) == sync' = [sync EXCEPT ![p] = s]

\* What comes after an object: the next one, the next path, or the end.
Onward(s) ==
    [s EXCEPT !.pc = IF s.objs # {} THEN "store"
                     ELSE IF s.paths # {} THEN "query"
                     ELSE IF s.found THEN "purge" ELSE "stamp"]

\* from and to of a synchronisation begun at t.
From(t) == t - 1
To(t)   == t + Horizon

\* uid of a row: that of the event and, for an occurrence of a recurring one, what
\* tells it from the others.
Key(u, o, t) == IF u \notin Recurring THEN <<u, "", 0>>
                ELSE <<u, IF o = t THEN "~" ELSE "/", o>>

\* Mutant of Components: an object is its first component.
ComponentsMasterOnly(u, os) == {[uid |-> u, occ |-> {<<o[1], o[1]>> : o \in os}]}

\* The components of an event's object: the event itself, with each occurrence
\* where the rule puts it, and one for each occurrence that is moved.
Components(u, os) ==
    {[uid |-> u, occ |-> {<<o[1], o[1]>> : o \in os}]}
      \cup {[uid |-> u, occ |-> {o}] : o \in {x \in os : x[1] # x[2]}}

\* upsertVEVENT stores a component as it is, expandAndUpsertRRULE the occurrences
\* that begin inside the window.
Rows(id, c, t) ==
    {[cal |-> id, key |-> Key(c.uid, o[1], o[2]), at |-> o[2]] :
       o \in {x \in c.occ : c.uid \in Recurring /\ x[1] = x[2]
                              => From(t) <= x[1] /\ x[1] <= To(t)}}

\* INSERT ... ON CONFLICT(calendar_id, uid) DO UPDATE of some rows.
Upsert(rows) ==
    {e \in cache : \A r \in rows : ~(e.cal = r.cal /\ e.key = r.key)} \cup rows

Trouble == /\ trouble < MaxTrouble
           /\ trouble' = trouble + 1
           /\ UNCHANGED now

Begin(p, id, src, t) ==
    sync' = [q \in Syncs |->
               IF q = p
               THEN [Idle EXCEPT !.pc = "discover", !.id = id, !.src = src, !.at = t,
                                 !.alone = \A o \in Syncs \ {p} : sync[o].id # id]
               ELSE [sync[q] EXCEPT !.alone = @ /\ sync[q].id # id]]

Init ==
    /\ server \in AtFirst
    /\ row = [i \in Ids |-> None]
    /\ cache = {}
    /\ enforced \in ForeignKeys
    /\ sync = [p \in Syncs |-> Idle]
    /\ todo = {}
    /\ now \in {t \in Clock : \A x \in Clock : t <= x}
    /\ trouble = 0

-----------------------------------------------------------------------------
(***************************************************************************)
(* The dashboard.                                                          *)
(***************************************************************************)

\* HandleCalendarsPost, once the credentials are verified: SQLite gives the row
\* the id after the greatest one in use.
Connect ==
    /\ \E src \in Sources, i \in Ids :
         /\ \A j \in Ids : j >= i => row[j] = None
         /\ i > 1 => row[i - 1] # None
         /\ row' = [row EXCEPT ![i] = src]
    /\ UNCHANGED <<server, cache, enforced, process, limits>>

\* Mutant of Remove: the events stay.
RemoveRowOnly ==
    /\ Trouble
    /\ \E i \in Ids :
         /\ row[i] # None
         /\ row' = [row EXCEPT ![i] = None]
         /\ sync' = [p \in Syncs |-> [sync[p] EXCEPT !.alone = @ /\ sync[p].id # i]]
    /\ UNCHANGED <<server, cache, enforced, todo>>

\* HandleCalendarDelete.  The events go by ON DELETE CASCADE.
Remove ==
    /\ Trouble
    /\ \E i \in Ids :
         /\ row[i] # None
         /\ row' = [row EXCEPT ![i] = None]
         /\ cache' = {e \in cache : enforced => e.cal # i}
         /\ sync' = [p \in Syncs |-> [sync[p] EXCEPT !.alone = @ /\ sync[p].id # i]]
    /\ UNCHANGED <<server, enforced, todo>>

\* HandleCalendarSync reads the row and takes the time.
Ask ==
    /\ sync[Manual].pc = "idle"
    /\ \E i \in Ids : row[i] # None /\ Begin(Manual, i, row[i], now)
    /\ UNCHANGED <<server, database, todo, limits>>

-----------------------------------------------------------------------------
(***************************************************************************)
(* The loop.                                                               *)
(***************************************************************************)

\* runSync lists the rows and takes one time for all of them.
List ==
    /\ sync[Loop].pc = "idle"
    /\ todo = {}
    /\ \E i \in Ids : row[i] # None
    /\ todo' = {<<i, row[i], now>> : i \in {j \in Ids : row[j] # None}}
    /\ UNCHANGED <<server, database, sync, limits>>

\* It turns to the next one, whatever became of the one before.
NextCalendar ==
    /\ sync[Loop].pc = "idle"
    /\ \E c \in todo :
         /\ Begin(Loop, c[1], c[2], c[3])
         /\ todo' = todo \ {c}
    /\ UNCHANGED <<server, database, limits>>

-----------------------------------------------------------------------------
(***************************************************************************)
(* SyncCalendar and syncPath.                                              *)
(***************************************************************************)

\* The collections of an account are found, each a path to query.  When finding
\* fails, as it does for the URL of a collection, or there are none, the URL itself
\* is the path.
Discover(p) ==
    LET s     == sync[p]
        exist == s.src \in Homes /\ Collections(s.src) # {}
    IN  /\ s.pc = "discover"
        /\ \/ /\ exist
              /\ Goes(p, [s EXCEPT !.pc = "query", !.found = TRUE,
                                   !.paths = {{c} : c \in Collections(s.src)}])
              /\ UNCHANGED limits
           \/ /\ IF exist THEN Trouble ELSE UNCHANGED limits
              /\ Goes(p, [s EXCEPT !.pc = "query", !.paths = {Collections(s.src)}])
        /\ UNCHANGED <<server, database, todo>>

\* An occurrence that starts at x takes part of the window of a run begun at t.
Touches(u, x, t) == x + Length[u] > From(t) /\ x < To(t)

\* The components of some collections: of the objects inside the window or, when
\* the server refused the filter, of all.
Answer(src, path, t, filtered) ==
    UNION {Components(u, server[u]) :
             u \in {v \in Uids :
                      /\ Source[v] = src /\ Collection[v] \in path
                      /\ server[v] # {}
                      /\ filtered => \E o \in server[v] : Touches(v, o[2], t)}}

\* Mutant of Query: a failed query counts as an empty collection.
QueryFailsQuietly(p) ==
    LET s == sync[p]
    IN  /\ s.pc = "query"
        /\ \E path \in s.paths :
             \/ /\ Goes(p, Onward([s EXCEPT !.paths = @ \ {path},
                                            !.objs = Answer(s.src, path, s.at, TRUE)]))
                /\ UNCHANGED limits
             \/ Trouble /\ Goes(p, Onward([s EXCEPT !.paths = @ \ {path}]))
        /\ UNCHANGED <<server, database, todo>>

\* One path is queried.  An account's URL queried for want of its collections
\* answers for some of them.  A query that fails twice ends the run.
Query(p) ==
    LET s == sync[p]
    IN  /\ s.pc = "query"
        /\ \E path \in s.paths :
             \/ /\ \E f \in BOOLEAN, heard \in SUBSET path :
                     /\ s.found \/ s.src \notin Homes => heard = path
                     /\ Goes(p, Onward([s EXCEPT !.paths = @ \ {path},
                                                 !.objs = Answer(s.src, heard, s.at, f)]))
                /\ UNCHANGED limits
             \/ Trouble /\ Goes(p, Idle)
        /\ UNCHANGED <<server, database, todo>>

\* One component is written.  An enforced foreign key refuses it when the calendar
\* is gone, which ends the run like any failing statement.
Store(p) ==
    LET s == sync[p]
    IN  /\ s.pc = "store"
        /\ \/ /\ ~enforced \/ row[s.id] # None
              /\ \E o \in s.objs :
                   /\ cache' = Upsert(Rows(s.id, o, s.at))
                   /\ Goes(p, Onward([s EXCEPT !.objs = @ \ {o}]))
              /\ UNCHANGED limits
           \/ /\ enforced /\ row[s.id] = None
              /\ \E o \in s.objs :
                   IF Rows(s.id, o, s.at) = {}
                   THEN Goes(p, Onward([s EXCEPT !.objs = @ \ {o}]))
                   ELSE Goes(p, Idle)
              /\ UNCHANGED <<cache, limits>>
           \/ Trouble /\ Goes(p, Idle) /\ UNCHANGED cache
        /\ UNCHANGED <<server, row, enforced, todo>>

\* Mutant of Purge: events inside the window are dropped.
PurgeWindow(p) ==
    LET s == sync[p]
    IN  /\ s.pc = "purge"
        /\ cache' = {e \in cache : ~(e.cal = s.id /\ e.at + Length[e.key[1]] < To(s.at))}
        /\ Goes(p, [s EXCEPT !.pc = "stamp"])
        /\ UNCHANGED <<server, row, enforced, todo, limits>>

\* Events that had ended before the window are dropped; an error is ignored.
Purge(p) ==
    LET s == sync[p]
    IN  /\ s.pc = "purge"
        /\ \/ /\ cache' = {e \in cache : ~(e.cal = s.id /\ e.at + Length[e.key[1]] < From(s.at))}
              /\ UNCHANGED limits
           \/ Trouble /\ UNCHANGED cache
        /\ Goes(p, [s EXCEPT !.pc = "stamp"])
        /\ UNCHANGED <<server, row, enforced, todo>>

\* UpdateLastSynced and, for a manual run, the redirect: success is told.
Stamp(p) ==
    /\ sync[p].pc = "stamp"
    /\ Goes(p, Idle)
    /\ UNCHANGED <<server, database, todo, limits>>

-----------------------------------------------------------------------------
(***************************************************************************)
(* The surroundings.                                                       *)
(***************************************************************************)

\* An event is added, moved or deleted on its server, or occurrences of it are.
Change ==
    /\ Trouble
    /\ \E u \in Uids, os \in SUBSET (Times \X Times) :
         /\ os # server[u]
         /\ Possible(u, os)
         /\ server' = [server EXCEPT ![u] = os]
         /\ sync' = [p \in Syncs |->
                       IF sync[p].src = Source[u]
                       THEN [sync[p] EXCEPT !.changed = @ \cup {u}]
                       ELSE sync[p]]
    /\ UNCHANGED <<database, todo>>

Tick ==
    /\ \E t \in Clock : t > now /\ now' = t
    /\ UNCHANGED <<server, database, process, trouble>>

\* The process ends and starts again; only the database stays.
Crash ==
    /\ Trouble
    /\ sync' = [p \in Syncs |-> Idle]
    /\ todo' = {}
    /\ UNCHANGED <<server, database>>

Works(p) == Discover(p) \/ Query(p) \/ Store(p) \/ Purge(p) \/ Stamp(p)

Next ==
    \/ Connect \/ Remove \/ Ask
    \/ List \/ NextCalendar
    \/ \E p \in Syncs : Works(p)
    \/ Change \/ Tick \/ Crash

Spec == Init /\ [][Next]_vars

\* The ticker of the loop fires again and again, a request to a server is
\* answered or fails, and a synchronisation that has begun goes on.
Fairness == /\ WF_vars(List) /\ WF_vars(NextCalendar)
            /\ \A p \in Syncs : WF_vars(Works(p))

FairSpec == Spec /\ Fairness

-----------------------------------------------------------------------------
(***************************************************************************)
(* Correctness.                                                            *)
(***************************************************************************)

SyncType ==
    [pc : {"idle", "discover", "query", "store", "purge", "stamp"},
     id : Ids \cup {0}, src : Sources \cup {None}, at : Nat,
     paths : SUBSET SUBSET {Collection[u] : u \in Uids}, found : BOOLEAN,
     objs : SUBSET [uid : Uids, occ : SUBSET (Times \X Times)], changed : SUBSET Uids, alone : BOOLEAN]

\* The types, and the foreign key: with it, a removed calendar has no events, also
\* none that a run still under way writes afterwards.
CacheTypeOK ==
    /\ server \in [Uids -> SUBSET (Times \X Times)]
    /\ row \in [Ids -> Sources \cup {None}]
    /\ cache \subseteq [cal : Ids, key : Uids \X {"", "~", "/"} \X (Times \cup {0}), at : Times]
    /\ enforced => \A e \in cache : row[e.cal] # None
    /\ sync \in [Syncs -> SyncType]
    /\ todo \subseteq Ids \X Sources \X Nat

\* The occurrence is one the code reads into the cache of a run begun at t: an
\* expanded one has to begin inside the window.
Promised(u, o, t) ==
    Touches(u, o[2], t) /\ (u \in Recurring /\ o[1] = o[2] => From(t) <= o[2])

\* A run of SyncCalendar that is about to report success, and had its calendar
\* for itself, has cached every promised occurrence of every event of all
\* collections that did not change meanwhile, a moved one where it was moved to,
\* whatever else of its event is cached.  (Nothing is promised when the
\* collections of an account were not found.)
SuccessMeansCached ==
    \A p \in Syncs :
        LET s == sync[p]
        IN  s.pc = "stamp" /\ s.alone /\ (s.found \/ s.src \notin Homes) =>
              \A u \in Uids \ s.changed : Source[u] = s.src =>
                \A o \in server[u] : Promised(u, o, s.at) =>
                  [cal |-> s.id, key |-> Key(u, o[1], o[2]), at |-> o[2]] \in cache

\* An hour that is cached and not over stays cached until its event is moved or
\* its calendar removed: no run, however late or broken off, makes a busy hour
\* look free by purging.
BusyStaysBusy ==
    [][\A e \in cache : e.at + Length[e.key[1]] >= From(now) =>
          \/ \E f \in cache' : f.cal = e.cal /\ f.key = e.key
          \/ row'[e.cal] = None]_vars

CaughtUp ==
    \A i \in Ids, u \in Uids : row[i] = Source[u] =>
        \A o \in server[u] : Promised(u, o, now) =>
            LET key == Key(u, o[1], o[2])
            IN  /\ [cal |-> i, key |-> key, at |-> o[2]] \in cache
                /\ \A e \in cache : e.cal = i /\ e.key = key => e.at = o[2]

\* When the servers come to rest, the loop catches up: every occurrence on a
\* connected calendar is cached, and a plain event or a moved occurrence only where
\* it was moved last, however runs failed, overlapped, or wrote old answers over new
\* ones before.
CacheConverges == <>[]CaughtUp

\* Every cached event is of the calendar it is filed under.
FiledUnderItsCalendar ==
    \A e \in cache : row[e.cal] = Source[e.key[1]]
=============================================================================
