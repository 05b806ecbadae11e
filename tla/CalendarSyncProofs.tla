------------------------- MODULE CalendarSyncProofs -------------------------
(***************************************************************************)
(* Safety of CalendarSync for any calendars, events, windows and troubles: *)
(* two runs, the loop's and a host's, over any number of rows.             *)
(***************************************************************************)
EXTENDS CalendarSync, TLAPS

\* The row an occurrence is to have under a calendar.
Wanted(id, u, o) == [cal |-> id, key |-> Key(u, o[1], o[2]), at |-> o[2]]

\* Where a run is, and what it has left to do.
Placed(r) ==
    /\ r \in SyncType
    /\ r.pc # "idle" => r.id \in Ids /\ r.src \in Sources
    /\ r.pc = "discover" => ~r.found
    /\ r.pc \in {"discover", "query"} => r.objs = {}
    /\ r.pc \in {"purge", "stamp"} => r.objs = {} /\ r.paths = {}

\* Of an event that did not change since, a run holds what the server has.
Current(r, srv) ==
    \A c \in r.objs : c.uid \notin r.changed =>
        Source[c.uid] = r.src /\ c \in Components(c.uid, srv[c.uid])

\* What a run has promised is cached, or in hand, or in a path still to be queried.
Accounted(r, srv, rows) ==
    r.pc \in {"query", "store", "purge", "stamp"} /\ r.alone /\ (r.found \/ r.src \notin Homes) =>
      \A u \in Uids \ r.changed : Source[u] = r.src =>
        \A o \in srv[u] : Promised(u, o, r.at) =>
          \/ Wanted(r.id, u, o) \in rows
          \/ \E path \in r.paths : Collection[u] \in path
          \/ \E c \in r.objs : Wanted(r.id, u, o) \in Rows(r.id, c, r.at)

Sound(r, srv, rows, t) ==
    Placed(r) /\ r.at <= t /\ Current(r, srv) /\ Accounted(r, srv, rows)

\* Two runs on one calendar know that they are not alone.
Apart ==
    \A p, q \in Syncs : p # q /\ sync[q].pc # "idle" /\ sync[q].alone =>
        sync[p].id # sync[q].id

Clocked == now \in Nat /\ \A c \in todo : c[3] <= now

IInv == /\ CacheTypeOK /\ Clocked /\ Apart
        /\ \A u \in Uids : Possible(u, server[u])
        /\ \A p \in Syncs : Sound(sync[p], server, cache, now)

-----------------------------------------------------------------------------
(***************************************************************************)
(* Facts about rows and runs.                                              *)
(***************************************************************************)

LEMMA Constants ==
    /\ Times \subseteq Nat /\ Length \in [Uids -> Nat] /\ Clock \subseteq Nat
    /\ Source \in [Uids -> Sources] /\ None \notin Sources
    /\ MaxId \in Nat /\ Horizon \in Nat /\ Ids \subseteq Nat /\ 0 \notin Ids
  BY SourcesAssumption, UidsAssumption, ClockAssumption, LimitsAssumption DEF Ids

LEMMA IdleIsPlaced == Idle \in SyncType /\ Placed(Idle) /\ Idle.pc = "idle"
                        /\ Idle.id = 0 /\ Idle.at = 0 /\ Idle.objs = {}
  BY DEF Idle, SyncType, Placed

LEMMA IdleIsSound == ASSUME NEW srv, NEW rows, NEW t \in Nat PROVE Sound(Idle, srv, rows, t)
  BY IdleIsPlaced DEF Sound, Current, Accounted

Component == [uid : Uids, occ : SUBSET (Times \X Times)]
RowType   == [cal : Ids, key : Uids \X {"", "~", "/"} \X (Times \cup {0}), at : Times]

LEMMA ComponentTypes ==
    ASSUME NEW u \in Uids, NEW os \in SUBSET (Times \X Times)
    PROVE  /\ Components(u, os) \subseteq Component
           /\ \A c \in Components(u, os) : c.uid = u
  <1>1. {<<o[1], o[1]>> : o \in os} \in SUBSET (Times \X Times)
    OBVIOUS
  <1>2. \A o \in os : {o} \in SUBSET (Times \X Times)
    OBVIOUS
  <1>3. QED
    BY <1>1, <1>2 DEF Components, Component

LEMMA KeyTypes ==
    ASSUME NEW u \in Uids, NEW o \in Times, NEW t \in Times
    PROVE  /\ Key(u, o, t) \in Uids \X {"", "~", "/"} \X (Times \cup {0})
           /\ Key(u, o, t)[1] = u
  BY DEF Key

LEMMA RowTypes ==
    ASSUME NEW id \in Ids, NEW c \in Component, NEW t \in Nat
    PROVE  /\ Rows(id, c, t) \subseteq RowType
           /\ \A r \in Rows(id, c, t) : r.cal = id /\ r.key[1] = c.uid
  <1> SUFFICES ASSUME NEW r \in Rows(id, c, t)
               PROVE  r \in RowType /\ r.cal = id /\ r.key[1] = c.uid
    OBVIOUS
  <1>1. PICK o \in c.occ : r = [cal |-> id, key |-> Key(c.uid, o[1], o[2]), at |-> o[2]]
    BY DEF Rows
  <1>2. c.uid \in Uids /\ o[1] \in Times /\ o[2] \in Times
    BY DEF Component
  <1>3. QED
    BY <1>1, <1>2, KeyTypes DEF RowType

\* A moved occurrence and one that is not are told apart by their keys, and so are
\* two of either kind: an event that is possible has one row per key.
LEMMA OneRowPerKey ==
    ASSUME NEW id \in Ids, NEW u \in Uids, NEW os \in SUBSET (Times \X Times),
           Possible(u, os), NEW t \in Nat, NEW o \in os, NEW c \in Components(u, os),
           NEW r \in Rows(id, c, t), r.key = Key(u, o[1], o[2])
    PROVE  r = Wanted(id, u, o)
  <1>1. c.uid = u
    BY ComponentTypes
  <1>2. PICK x \in c.occ : r = [cal |-> id, key |-> Key(u, x[1], x[2]), at |-> x[2]]
    BY <1>1 DEF Rows
  <1>3. Key(u, x[1], x[2]) = Key(u, o[1], o[2])
    BY <1>2
  <1>4. x \in {<<y[1], y[1]>> : y \in os} \/ (x \in os /\ x[1] # x[2])
    BY DEF Components
  <1>5. o[1] \in Times /\ o[2] \in Times /\ o = <<o[1], o[2]>>
    OBVIOUS
  <1>6. x[2] = o[2]
    <2>1. CASE u \notin Recurring
      <3>1. o[1] = o[2] /\ \A y \in os : y = o
        BY <2>1 DEF Possible
      <3>2. QED
        BY <1>4, <3>1
    <2>2. CASE u \in Recurring /\ x[1] = x[2]
      <3>1. Key(u, x[1], x[2]) = <<u, "~", x[1]>>
        BY <2>2 DEF Key
      <3>2. o[1] = o[2] /\ o[1] = x[1]
        BY <1>3, <2>2, <3>1 DEF Key
      <3>3. QED
        BY <2>2, <3>2
    <2>3. CASE u \in Recurring /\ x[1] # x[2]
      <3>1. Key(u, x[1], x[2]) = <<u, "/", x[1]>>
        BY <2>3 DEF Key
      <3>2. o[1] # o[2] /\ o[1] = x[1]
        BY <1>3, <2>3, <3>1 DEF Key
      <3>3. x \in os
        BY <1>4, <2>3
      <3>4. QED
        BY <2>3, <3>2, <3>3 DEF Possible
    <2>4. QED
      BY <2>1, <2>2, <2>3
  <1>7. QED
    BY <1>2, <1>3, <1>6 DEF Wanted

\* Each promised occurrence is a row of some component.
LEMMA PromisedHasRow ==
    ASSUME NEW id \in Ids, NEW u \in Uids, NEW os \in SUBSET (Times \X Times),
           Possible(u, os), NEW t \in Nat, NEW o \in os, Promised(u, o, t)
    PROVE  \E c \in Components(u, os) : Wanted(id, u, o) \in Rows(id, c, t)
  <1>1. o[1] \in Times /\ o[2] \in Times /\ o = <<o[1], o[2]>>
    OBVIOUS
  <1>2. CASE o[1] = o[2]
    <2> DEFINE c == [uid |-> u, occ |-> {<<y[1], y[1]>> : y \in os}]
    <2>1. c \in Components(u, os)
      BY DEF Components
    <2>2. o \in c.occ /\ c.uid = u
      BY <1>1, <1>2
    <2>3. u \in Recurring => From(t) <= o[1] /\ o[1] <= To(t)
      <3>1. u \in Recurring => From(t) <= o[2]
        BY <1>2 DEF Promised
      <3>2. o[2] < To(t)
        BY DEF Promised, Touches
      <3>3. QED
        <4>1. o[2] \in Nat /\ Horizon \in Nat
          <5>1. Times \subseteq Nat /\ Horizon \in Nat
            BY Constants
          <5>2. QED
            BY <1>1, <5>1
        <4>2. o[2] <= To(t)
          BY <3>2, <4>1 DEF To
        <4>3. QED
          BY <1>2, <3>1, <4>2
    <2> HIDE DEF c
    <2>4. Wanted(id, u, o) \in Rows(id, c, t)
      BY <2>2, <2>3 DEF Wanted, Rows
    <2>5. QED
      BY <2>1, <2>4
  <1>3. CASE o[1] # o[2]
    <2> DEFINE c == [uid |-> u, occ |-> {o}]
    <2>1. c \in Components(u, os)
      BY <1>3 DEF Components
    <2>2. o \in c.occ /\ c.uid = u
      OBVIOUS
    <2> HIDE DEF c
    <2>3. Wanted(id, u, o) \in Rows(id, c, t)
      BY <1>3, <2>2 DEF Wanted, Rows
    <2>4. QED
      BY <2>1, <2>3
  <1>4. QED
    BY <1>2, <1>3

LEMMA OnwardIs ==
    ASSUME NEW s \in SyncType
    PROVE  LET r == Onward(s)
           IN  /\ r \in SyncType
               /\ r.pc \in {"store", "query", "purge", "stamp"}
               /\ r.id = s.id /\ r.src = s.src /\ r.at = s.at /\ r.paths = s.paths
               /\ r.found = s.found /\ r.objs = s.objs /\ r.changed = s.changed
               /\ r.alone = s.alone
               /\ r.pc = "query" => r.objs = {}
               /\ r.pc \in {"purge", "stamp"} => r.objs = {} /\ r.paths = {}
  <1> DEFINE pc == IF s.objs # {} THEN "store"
                   ELSE IF s.paths # {} THEN "query"
                   ELSE IF s.found THEN "purge" ELSE "stamp"
  <1>1. /\ pc \in {"store", "query", "purge", "stamp"}
        /\ pc = "query" => s.objs = {}
        /\ pc \in {"purge", "stamp"} => s.objs = {} /\ s.paths = {}
    OBVIOUS
  <1>2. Onward(s) = [s EXCEPT !.pc = pc]
    BY DEF Onward
  <1> HIDE DEF pc
  <1>3. QED
    BY <1>1, <1>2 DEF SyncType

\* A run that learns that it is not alone promises nothing more.
LEMMA LessAlone ==
    ASSUME NEW r, NEW b \in BOOLEAN, b => r.alone,
           NEW srv, NEW rows, NEW more, NEW t, Sound(r, srv, rows, t),
           b => \A e \in rows : e.cal = r.id => e \in more
    PROVE  LET s == [r EXCEPT !.alone = b]
           IN  /\ Sound(s, srv, more, t)
               /\ s.pc = r.pc /\ s.id = r.id /\ s.alone = b
  <1> DEFINE s == [r EXCEPT !.alone = b]
  <1>1. r \in SyncType
    BY DEF Sound, Placed
  <1>2. /\ s \in SyncType
        /\ s.pc = r.pc /\ s.id = r.id /\ s.src = r.src /\ s.at = r.at /\ s.paths = r.paths
        /\ s.found = r.found /\ s.objs = r.objs /\ s.changed = r.changed /\ s.alone = b
    BY <1>1 DEF SyncType
  <1> HIDE DEF s
  <1>3. Placed(s) /\ s.at <= t /\ Current(s, srv)
    BY <1>2 DEF Sound, Placed, Current
  <1>4. Accounted(s, srv, more)
    BY <1>2 DEF Sound, Accounted, Wanted
  <1>5. QED
    BY <1>2, <1>3, <1>4 DEF Sound, s

\* What others write and drop under other calendars does not concern a run.
LEMMA RowsOfOthers ==
    ASSUME NEW r, NEW srv, NEW rows, NEW more, NEW t, Sound(r, srv, rows, t),
           r.alone => \A e \in rows : e.cal = r.id => e \in more
    PROVE  Sound(r, srv, more, t)
  BY DEF Sound, Accounted, Wanted

-----------------------------------------------------------------------------
(***************************************************************************)
(* Steps of the surroundings.                                              *)
(***************************************************************************)

LEMMA Initial == Init => IInv
  <1> SUFFICES ASSUME Init PROVE IInv
    OBVIOUS
  <1>1. now \in Nat
    BY Constants DEF Init
  <1>2. server \in [Uids -> SUBSET (Times \X Times)] /\ \A u \in Uids : Possible(u, server[u])
    BY UidsAssumption DEF Init
  <1>3. CacheTypeOK
    BY <1>2, IdleIsPlaced, KeysAssumption DEF Init, CacheTypeOK
  <1>4. Clocked
    BY <1>1 DEF Init, Clocked
  <1>5. \A p \in Syncs : sync[p] = Idle
    BY DEF Init
  <1>6. Apart
    BY <1>5, IdleIsPlaced DEF Apart
  <1>7. QED
    BY <1>1, <1>2, <1>3, <1>4, <1>5, <1>6, IdleIsSound DEF IInv

LEMMA ConnectKeeps == ASSUME IInv, Connect PROVE IInv'
  <1>1. PICK src \in Sources, i \in Ids : row' = [row EXCEPT ![i] = src]
    BY DEF Connect
  <1>2. UNCHANGED <<server, cache, enforced, sync, todo, now>>
    BY DEF Connect, process, limits
  <1>3. row' \in [Ids -> Sources \cup {None}]
    BY <1>1 DEF IInv, CacheTypeOK
  <1>4. \A j \in Ids : row[j] # None => row'[j] # None
    BY <1>1, Constants DEF IInv, CacheTypeOK
  <1>5. CacheTypeOK'
    BY <1>2, <1>3, <1>4 DEF IInv, CacheTypeOK
  <1>6. QED
    BY <1>2, <1>5 DEF IInv, Clocked, Apart

LEMMA RemoveKeeps == ASSUME IInv, Remove PROVE IInv'
  <1>1. PICK i \in Ids :
          /\ row' = [row EXCEPT ![i] = None]
          /\ cache' = {e \in cache : enforced => e.cal # i}
          /\ sync' = [p \in Syncs |-> [sync[p] EXCEPT !.alone = @ /\ sync[p].id # i]]
    BY DEF Remove
  <1>2. UNCHANGED <<server, enforced, todo, now>>
    BY DEF Remove, Trouble
  <1>3. ASSUME NEW p \in Syncs
        PROVE  /\ Sound(sync'[p], server, cache', now)
               /\ sync'[p].pc = sync[p].pc /\ sync'[p].id = sync[p].id
               /\ sync'[p].alone = (sync[p].alone /\ sync[p].id # i)
    <2> DEFINE r == sync[p]
               b == r.alone /\ r.id # i
    <2>1. sync'[p] = [r EXCEPT !.alone = b]
      BY <1>1
    <2>2. Sound(r, server, cache, now)
      BY DEF IInv
    <2>3. b => \A e \in cache : e.cal = r.id => e \in cache'
      BY <1>1
    <2>4. b \in BOOLEAN /\ (b => r.alone)
      OBVIOUS
    <2> HIDE DEF r, b
    <2>5. /\ Sound([r EXCEPT !.alone = b], server, cache', now)
          /\ [r EXCEPT !.alone = b].pc = r.pc /\ [r EXCEPT !.alone = b].id = r.id
          /\ [r EXCEPT !.alone = b].alone = b
      BY <2>2, <2>3, <2>4, LessAlone
    <2>6. QED
      BY <2>1, <2>5 DEF r, b
  <1>4. Apart'
    BY <1>3 DEF IInv, Apart
  <1>5. CacheTypeOK'
    <2>1. sync' \in [Syncs -> SyncType]
      BY <1>1, <1>3 DEF Sound, Placed
    <2>2. row' \in [Ids -> Sources \cup {None}]
      BY <1>1 DEF IInv, CacheTypeOK
    <2>3. \A j \in Ids : j # i => row'[j] = row[j]
      BY <1>1 DEF IInv, CacheTypeOK
    <2>4. enforced => \A e \in cache' : row'[e.cal] # None
      BY <1>1, <2>3 DEF IInv, CacheTypeOK
    <2>5. QED
      BY <1>1, <1>2, <2>1, <2>2, <2>4 DEF IInv, CacheTypeOK
  <1>6. QED
    BY <1>2, <1>3, <1>4, <1>5 DEF IInv, Clocked

\* A run begins on a row it has read.
LEMMA BeginKeeps ==
    ASSUME IInv, NEW p \in Syncs, NEW id \in Ids, NEW src \in Sources, NEW t \in Nat,
           t <= now, Begin(p, id, src, t), UNCHANGED <<server, database, now>>,
           todo' \subseteq todo
    PROVE  IInv'
  <1> DEFINE first == \A o \in Syncs \ {p} : sync[o].id # id
             r == [Idle EXCEPT !.pc = "discover", !.id = id, !.src = src, !.at = t,
                               !.alone = first]
             less(q) == sync[q].alone /\ sync[q].id # id
  <1>1. \A q \in Syncs : sync'[q] = IF q = p THEN r ELSE [sync[q] EXCEPT !.alone = less(q)]
    BY DEF Begin
  <1>2. first \in BOOLEAN
    OBVIOUS
  <1>3. first => \A q \in Syncs : q # p => sync[q].id # id
    OBVIOUS
  <1> HIDE DEF first
  <1>4. /\ r \in SyncType /\ r.pc = "discover" /\ r.id = id /\ r.src = src /\ r.at = t
        /\ r.objs = {} /\ r.found = FALSE /\ r.alone = first
    <2>1. Idle \in SyncType /\ Idle.objs = {} /\ Idle.found = FALSE
      BY IdleIsPlaced DEF Idle
    <2>2. QED
      BY <1>2, <2>1 DEF SyncType
  <1>5. sync'[p] = r
    BY <1>1
  <1> HIDE DEF r
  <1>6. Sound(r, server, cache, now)
    BY <1>4 DEF Sound, Placed, Current, Accounted
  <1>7. ASSUME NEW q \in Syncs, q # p
        PROVE  /\ Sound(sync'[q], server, cache, now)
               /\ sync'[q].pc = sync[q].pc /\ sync'[q].id = sync[q].id
               /\ sync'[q].alone = (sync[q].alone /\ sync[q].id # id)
    <2> DEFINE x == sync[q]
               b == less(q)
    <2>1. sync'[q] = [x EXCEPT !.alone = b]
      BY <1>1, <1>7
    <2>2. Sound(x, server, cache, now)
      BY DEF IInv
    <2>3. b \in BOOLEAN /\ (b => x.alone)
      OBVIOUS
    <2> HIDE DEF x, b
    <2>4. /\ Sound([x EXCEPT !.alone = b], server, cache, now)
          /\ [x EXCEPT !.alone = b].pc = x.pc /\ [x EXCEPT !.alone = b].id = x.id
          /\ [x EXCEPT !.alone = b].alone = b
      BY <2>2, <2>3, LessAlone
    <2>5. QED
      BY <2>1, <2>4 DEF x, b
  <1>8. ASSUME NEW q \in Syncs PROVE Sound(sync'[q], server, cache, now)
    <2>1. CASE q = p
      BY <1>5, <1>6, <2>1
    <2>2. CASE q # p
      BY <1>7, <2>2
    <2>3. QED
      BY <2>1, <2>2
  <1>9. Apart'
    <2> SUFFICES ASSUME NEW a \in Syncs, NEW b \in Syncs, a # b,
                        sync'[b].pc # "idle", sync'[b].alone
                 PROVE  sync'[a].id # sync'[b].id
      BY DEF Apart
    <2>1. CASE b = p
      BY <1>3, <1>4, <1>5, <1>7, <2>1
    <2>2. CASE a = p /\ b # p
      BY <1>4, <1>5, <1>7, <2>2
    <2>3. CASE a # p /\ b # p
      BY <1>7, <2>3 DEF IInv, Apart
    <2>4. QED
      BY <2>1, <2>2, <2>3
  <1>10. sync' \in [Syncs -> SyncType]
    BY <1>8 DEF Begin, Sound, Placed
  <1>11. UNCHANGED <<row, cache, enforced>>
    BY DEF database
  <1>12. CacheTypeOK'
    BY <1>10, <1>11 DEF IInv, CacheTypeOK
  <1>13. QED
    BY <1>8, <1>9, <1>11, <1>12 DEF IInv, Clocked

LEMMA AskKeeps == ASSUME IInv, Ask PROVE IInv'
  <1>1. PICK i \in Ids : row[i] # None /\ Begin(Manual, i, row[i], now)
    BY DEF Ask
  <1>2. row \in [Ids -> Sources \cup {None}] /\ now \in Nat
    BY DEF IInv, CacheTypeOK, Clocked
  <1>3. row[i] \in Sources /\ now <= now
    BY <1>1, <1>2
  <1>4. UNCHANGED <<server, database, now>> /\ todo' \subseteq todo
    BY DEF Ask, limits
  <1>5. Manual \in Syncs
    BY DEF Syncs
  <1>6. QED
    BY <1>1, <1>2, <1>3, <1>4, <1>5, BeginKeeps

LEMMA NextCalendarKeeps == ASSUME IInv, NextCalendar PROVE IInv'
  <1>1. PICK c \in todo : Begin(Loop, c[1], c[2], c[3]) /\ todo' = todo \ {c}
    BY DEF NextCalendar
  <1>2. c[1] \in Ids /\ c[2] \in Sources /\ c[3] \in Nat /\ c[3] <= now
    BY DEF IInv, CacheTypeOK, Clocked
  <1>3. UNCHANGED <<server, database, now>> /\ todo' \subseteq todo
    BY <1>1 DEF NextCalendar, limits
  <1>4. Loop \in Syncs
    BY DEF Syncs
  <1>5. QED
    BY <1>1, <1>2, <1>3, <1>4, BeginKeeps

LEMMA ListKeeps == ASSUME IInv, List PROVE IInv'
  <1>1. todo' = {<<i, row[i], now>> : i \in {j \in Ids : row[j] # None}}
        /\ UNCHANGED <<server, row, cache, enforced, sync, now>>
    BY DEF List, database, limits
  <1>2. row \in [Ids -> Sources \cup {None}] /\ now \in Nat
    BY DEF IInv, CacheTypeOK, Clocked
  <1>3. ASSUME NEW c \in todo' PROVE c \in Ids \X Sources \X Nat /\ c[3] <= now
    <2>1. PICK i \in Ids : row[i] # None /\ c = <<i, row[i], now>>
      BY <1>1
    <2>2. row[i] \in Sources /\ now <= now
      BY <1>2, <2>1
    <2>3. QED
      BY <1>2, <2>1, <2>2
  <1>4. CacheTypeOK' /\ Clocked'
    BY <1>1, <1>3 DEF IInv, CacheTypeOK, Clocked
  <1>5. QED
    BY <1>1, <1>4 DEF IInv, Apart

LEMMA ChangeKeeps == ASSUME IInv, Change PROVE IInv'
  <1>1. PICK u \in Uids, os \in SUBSET (Times \X Times) :
          /\ Possible(u, os)
          /\ server' = [server EXCEPT ![u] = os]
          /\ sync' = [p \in Syncs |->
                        IF sync[p].src = Source[u]
                        THEN [sync[p] EXCEPT !.changed = @ \cup {u}]
                        ELSE sync[p]]
    BY DEF Change
  <1>2. UNCHANGED <<row, cache, enforced, todo, now>>
    BY DEF Change, Trouble, database
  <1>3. /\ server' \in [Uids -> SUBSET (Times \X Times)]
        /\ \A v \in Uids : server'[v] = IF v = u THEN os ELSE server[v]
    BY <1>1 DEF IInv, CacheTypeOK
  <1>4. ASSUME NEW p \in Syncs
        PROVE  /\ Sound(sync'[p], server', cache, now)
               /\ sync'[p].pc = sync[p].pc /\ sync'[p].id = sync[p].id
               /\ sync'[p].alone = sync[p].alone
    <2> DEFINE r == sync[p]
               more == r.changed \cup {u}
               s == [r EXCEPT !.changed = more]
    <2>1. Sound(r, server, cache, now)
      BY DEF IInv
    <2>2. CASE r.src # Source[u]
      <3>1. sync'[p] = r
        BY <1>1, <2>2
      <3> HIDE DEF r
      <3>2. Current(r, server')
        <4>1. \A c \in r.objs : c.uid \in Uids
          BY <2>1 DEF Sound, Placed, SyncType
        <4>2. QED
          BY <1>3, <2>1, <2>2, <4>1 DEF Sound, Current
      <3>3. Accounted(r, server', cache)
        BY <1>3, <2>1, <2>2 DEF Sound, Accounted
      <3>4. Sound(r, server', cache, now)
        BY <2>1, <3>2, <3>3 DEF Sound
      <3>5. QED
        BY <3>1, <3>4 DEF r
    <2>3. CASE r.src = Source[u]
      <3>1. sync'[p] = s
        BY <1>1, <2>3
      <3>2. r \in SyncType
        BY <2>1 DEF Sound, Placed
      <3>3. more \in SUBSET Uids /\ u \in more /\ r.changed \subseteq more
        BY <3>2 DEF SyncType
      <3> HIDE DEF r, more
      <3>4. /\ s \in SyncType
            /\ s.pc = r.pc /\ s.id = r.id /\ s.src = r.src /\ s.at = r.at
            /\ s.paths = r.paths /\ s.found = r.found /\ s.objs = r.objs
            /\ s.changed = more /\ s.alone = r.alone
        BY <3>2, <3>3 DEF SyncType
      <3> HIDE DEF s
      <3>5. Current(s, server')
        <4>1. \A c \in r.objs : c.uid \in Uids
          BY <3>2 DEF SyncType
        <4>2. QED
          BY <1>3, <2>1, <3>3, <3>4, <4>1 DEF Sound, Current
      <3>6. Accounted(s, server', cache)
        BY <1>3, <2>1, <3>3, <3>4 DEF Sound, Accounted
      <3>7. Sound(s, server', cache, now)
        BY <2>1, <3>4, <3>5, <3>6 DEF Sound, Placed
      <3>8. QED
        BY <3>1, <3>4, <3>7 DEF r
    <2>4. QED
      BY <2>2, <2>3
  <1>5. Apart'
    BY <1>4 DEF IInv, Apart
  <1>6. sync' \in [Syncs -> SyncType]
    BY <1>1, <1>4 DEF Sound, Placed
  <1>7. CacheTypeOK'
    BY <1>2, <1>3, <1>6 DEF IInv, CacheTypeOK
  <1>8. \A v \in Uids : Possible(v, server'[v])
    BY <1>1, <1>3 DEF IInv
  <1>9. QED
    BY <1>2, <1>4, <1>5, <1>7, <1>8 DEF IInv, Clocked

LEMMA TickKeeps == ASSUME IInv, Tick PROVE IInv'
  <1>1. PICK t \in Clock : t > now /\ now' = t
    BY DEF Tick
  <1>2. UNCHANGED <<server, row, cache, enforced, sync, todo>>
    BY DEF Tick, database, process
  <1>3. now \in Nat /\ now' \in Nat /\ now < now'
    BY <1>1, Constants DEF IInv, Clocked
  <1>4. \A p \in Syncs : sync[p].at \in Nat
    BY DEF IInv, CacheTypeOK, SyncType
  <1>5. ASSUME NEW p \in Syncs PROVE Sound(sync[p], server, cache, now')
    <2>1. Sound(sync[p], server, cache, now)
      BY DEF IInv
    <2>2. sync[p].at <= now'
      BY <1>3, <1>4, <2>1 DEF Sound
    <2>3. QED
      BY <2>1, <2>2 DEF Sound
  <1>6. Clocked'
    <2>1. ASSUME NEW c \in todo PROVE c[3] \in Nat /\ c[3] <= now
      BY DEF IInv, CacheTypeOK, Clocked
    <2>2. \A c \in todo : c[3] <= now'
      BY <1>3, <2>1
    <2>3. QED
      BY <1>2, <1>3, <2>2 DEF Clocked
  <1>7. QED
    BY <1>2, <1>5, <1>6 DEF IInv, CacheTypeOK, Apart

LEMMA CrashKeeps == ASSUME IInv, Crash PROVE IInv'
  <1>1. /\ sync' = [p \in Syncs |-> Idle]
        /\ todo' = {}
        /\ UNCHANGED <<server, row, cache, enforced, now>>
    BY DEF Crash, Trouble, database
  <1>2. \A p \in Syncs : sync'[p] = Idle
    BY <1>1
  <1>3. CacheTypeOK' /\ Clocked'
    BY <1>1, IdleIsPlaced DEF IInv, CacheTypeOK, Clocked
  <1>4. Apart'
    BY <1>2, IdleIsPlaced DEF Apart
  <1>5. \A p \in Syncs : Sound(sync'[p], server, cache, now)
    BY <1>2, IdleIsSound DEF IInv, Clocked
  <1>6. QED
    BY <1>1, <1>3, <1>4, <1>5 DEF IInv

-----------------------------------------------------------------------------
(***************************************************************************)
(* Steps of a run.                                                         *)
(***************************************************************************)

\* A run goes on, or ends, and touches no rows but those of its calendar.
LEMMA RunStep ==
    ASSUME IInv, NEW p \in Syncs, NEW s, Goes(p, s), Sound(s, server, cache', now),
           \/ s.pc = "idle" /\ s.id = 0
           \/ sync[p].pc # "idle" /\ s.id = sync[p].id /\ s.alone = sync[p].alone,
           UNCHANGED <<server, row, enforced, todo, now>>,
           cache' \subseteq RowType,
           enforced => \A e \in cache' : row[e.cal] # None,
           \A e \in cache : e.cal # sync[p].id => e \in cache'
    PROVE  IInv'
  <1>1. \A q \in Syncs : sync'[q] = IF q = p THEN s ELSE sync[q]
    BY DEF Goes, IInv, CacheTypeOK
  <1>2. sync' \in [Syncs -> SyncType]
    BY DEF Goes, IInv, CacheTypeOK, Sound, Placed
  <1>3. CacheTypeOK'
    BY <1>2 DEF IInv, CacheTypeOK, RowType
  <1>4. ASSUME NEW q \in Syncs PROVE Sound(sync'[q], server, cache', now)
    <2>1. CASE q = p
      BY <1>1, <2>1
    <2>2. CASE q # p /\ sync[q].pc = "idle"
      <3>1. sync'[q] = sync[q] /\ Sound(sync[q], server, cache, now)
        BY <1>1, <2>2 DEF IInv
      <3>2. QED
        BY <2>2, <3>1 DEF Sound, Accounted
    <2>3. CASE q # p /\ sync[q].pc # "idle"
      <3>1. sync'[q] = sync[q] /\ Sound(sync[q], server, cache, now)
        BY <1>1, <2>3 DEF IInv
      <3>2. sync[q].alone => sync[p].id # sync[q].id
        BY <2>3 DEF IInv, Apart
      <3>3. sync[q].alone => \A e \in cache : e.cal = sync[q].id => e \in cache'
        BY <3>2
      <3>4. QED
        BY <3>1, <3>3, RowsOfOthers
    <2>4. QED
      BY <2>1, <2>2, <2>3
  <1>5. Apart'
    <2> SUFFICES ASSUME NEW a \in Syncs, NEW b \in Syncs, a # b,
                        sync'[b].pc # "idle", sync'[b].alone
                 PROVE  sync'[a].id # sync'[b].id
      BY DEF Apart
    <2>1. sync'[b].id \in Ids
      BY <1>4 DEF Sound, Placed
    <2>2. CASE b = p
      BY <1>1, <2>2 DEF IInv, Apart
    <2>3. CASE a = p /\ b # p
      BY <1>1, <2>1, <2>3, Constants DEF IInv, Apart
    <2>4. CASE a # p /\ b # p
      BY <1>1, <2>4 DEF IInv, Apart
    <2>5. QED
      BY <2>2, <2>3, <2>4
  <1>6. QED
    BY <1>3, <1>4, <1>5 DEF IInv, Clocked

LEMMA CacheIsTyped == ASSUME IInv
                      PROVE  /\ cache \subseteq RowType
                             /\ enforced => \A e \in cache : row[e.cal] # None
                             /\ now \in Nat
  BY DEF IInv, CacheTypeOK, RowType, Clocked

\* A run that gives up, or is done, with the rows as they are.
LEMMA EndStep ==
    ASSUME IInv, NEW p \in Syncs, Goes(p, Idle),
           UNCHANGED <<server, row, cache, enforced, todo, now>>
    PROVE  IInv'
  <1>1. Sound(Idle, server, cache', now)
    BY CacheIsTyped, IdleIsSound
  <1>2. QED
    BY <1>1, IdleIsPlaced, CacheIsTyped, RunStep

LEMMA DiscoverKeeps == ASSUME IInv, NEW p \in Syncs, Discover(p) PROVE IInv'
  <1> DEFINE s == sync[p]
             all == Collections(s.src)
  <1>1. /\ s.pc = "discover"
        /\ Sound(s, server, cache, now)
        /\ UNCHANGED <<server, row, cache, enforced, todo, now>>
    BY DEF Discover, IInv, database, limits, Trouble
  <1>2. s \in SyncType /\ s.id \in Ids /\ s.src \in Sources /\ ~s.found /\ s.objs = {}
          /\ s.at <= now
    BY <1>1 DEF Sound, Placed
  <1>3. /\ \A u \in Uids : Source[u] = s.src => Collection[u] \in all
        /\ all \subseteq {Collection[u] : u \in Uids}
    BY DEF Collections
  <1>4. CASE Goes(p, [s EXCEPT !.pc = "query", !.found = TRUE, !.paths = {{c} : c \in all}])
    <2> DEFINE paths == {{c} : c \in all}
               r == [s EXCEPT !.pc = "query", !.found = TRUE, !.paths = paths]
    <2>1. Goes(p, r)
      BY <1>4
    <2>2. /\ paths \in SUBSET SUBSET {Collection[u] : u \in Uids}
          /\ \A u \in Uids : Source[u] = s.src => \E path \in paths : Collection[u] \in path
      BY <1>3
    <2> HIDE DEF s, paths
    <2>3. /\ r \in SyncType /\ r.pc = "query" /\ r.id = s.id /\ r.src = s.src
          /\ r.at = s.at /\ r.paths = paths /\ r.objs = {} /\ r.alone = s.alone
      BY <1>2, <2>2 DEF SyncType
    <2> HIDE DEF r
    <2>4. Sound(r, server, cache, now)
      BY <1>2, <2>2, <2>3 DEF Sound, Placed, Current, Accounted
    <2>5. QED
      BY <1>1, <2>1, <2>3, <2>4, CacheIsTyped, RunStep DEF s
  <1>5. CASE Goes(p, [s EXCEPT !.pc = "query", !.paths = {all}])
    <2> DEFINE paths == {all}
               r == [s EXCEPT !.pc = "query", !.paths = paths]
    <2>1. Goes(p, r)
      BY <1>5
    <2>2. /\ paths \in SUBSET SUBSET {Collection[u] : u \in Uids}
          /\ \A u \in Uids : Source[u] = s.src => \E path \in paths : Collection[u] \in path
      BY <1>3
    <2> HIDE DEF s, paths
    <2>3. /\ r \in SyncType /\ r.pc = "query" /\ r.id = s.id /\ r.src = s.src
          /\ r.at = s.at /\ r.paths = paths /\ r.objs = {} /\ r.alone = s.alone
      BY <1>2, <2>2 DEF SyncType
    <2> HIDE DEF r
    <2>4. Sound(r, server, cache, now)
      BY <1>2, <2>2, <2>3 DEF Sound, Placed, Current, Accounted
    <2>5. QED
      BY <1>1, <2>1, <2>3, <2>4, CacheIsTyped, RunStep DEF s
  <1>6. QED
    BY <1>4, <1>5 DEF Discover

LEMMA AnswerIs ==
    ASSUME IInv, NEW src, NEW path, NEW t, NEW f \in BOOLEAN
    PROVE  /\ Answer(src, path, t, f) \subseteq Component
           /\ \A c \in Answer(src, path, t, f) :
                Source[c.uid] = src /\ c \in Components(c.uid, server[c.uid])
           /\ \A u \in Uids, o \in Times \X Times :
                Source[u] = src /\ Collection[u] \in path /\ o \in server[u]
                  /\ Touches(u, o[2], t)
                => Components(u, server[u]) \subseteq Answer(src, path, t, f)
  <1>1. \A u \in Uids : server[u] \in SUBSET (Times \X Times)
    BY DEF IInv, CacheTypeOK
  <1>2. ASSUME NEW c \in Answer(src, path, t, f)
        PROVE  /\ c \in Component
               /\ Source[c.uid] = src /\ c \in Components(c.uid, server[c.uid])
    <2>1. PICK u \in Uids : Source[u] = src /\ c \in Components(u, server[u])
      BY <1>2 DEF Answer
    <2>2. QED
      BY <1>1, <2>1, ComponentTypes
  <1>3. ASSUME NEW u \in Uids, NEW o \in server[u],
               Source[u] = src, Collection[u] \in path, Touches(u, o[2], t)
        PROVE  Components(u, server[u]) \subseteq Answer(src, path, t, f)
    BY <1>3 DEF Answer
  <1>4. QED
    BY <1>2, <1>3

LEMMA QueryKeeps == ASSUME IInv, NEW p \in Syncs, Query(p) PROVE IInv'
  <1> DEFINE s == sync[p]
  <1>1. /\ s.pc = "query"
        /\ Sound(s, server, cache, now)
        /\ UNCHANGED <<server, row, cache, enforced, todo, now>>
    BY DEF Query, IInv, database, limits, Trouble
  <1>2. s \in SyncType /\ s.id \in Ids /\ s.src \in Sources /\ s.objs = {} /\ s.at <= now
          /\ s.at \in Nat
    BY <1>1 DEF Sound, Placed, SyncType
  <1>3. CASE Goes(p, Idle)
    BY <1>1, <1>3, EndStep
  <1>4. ASSUME NEW path \in s.paths, NEW f \in BOOLEAN, NEW heard \in SUBSET path,
               s.found \/ s.src \notin Homes => heard = path,
               Goes(p, Onward([s EXCEPT !.paths = s.paths \ {path},
                                        !.objs = Answer(s.src, heard, s.at, f)]))
        PROVE  IInv'
    <2> DEFINE paths == s.paths \ {path}
               objs == Answer(s.src, heard, s.at, f)
               m == [s EXCEPT !.paths = paths, !.objs = objs]
               r == Onward(m)
    <2>1. Goes(p, r)
      BY <1>4
    <2>2. /\ objs \subseteq Component
          /\ \A c \in objs : Source[c.uid] = s.src /\ c \in Components(c.uid, server[c.uid])
          /\ \A u \in Uids, o \in Times \X Times :
               Source[u] = s.src /\ Collection[u] \in heard /\ o \in server[u]
                 /\ Touches(u, o[2], s.at)
               => Components(u, server[u]) \subseteq objs
      BY AnswerIs
    <2>3. paths \subseteq s.paths /\ \A q \in s.paths : q = path \/ q \in paths
      OBVIOUS
    <2> HIDE DEF s, paths, objs
    <2>4. /\ m \in SyncType /\ m.pc = s.pc /\ m.id = s.id /\ m.src = s.src
          /\ m.at = s.at /\ m.paths = paths /\ m.objs = objs /\ m.alone = s.alone
          /\ m.found = s.found /\ m.changed = s.changed
      BY <1>2, <2>2, <2>3 DEF SyncType, Component
    <2> HIDE DEF m
    <2>5. /\ r \in SyncType /\ r.pc \in {"store", "query", "purge", "stamp"}
          /\ r.id = s.id /\ r.src = s.src /\ r.at = s.at /\ r.paths = paths
          /\ r.objs = objs /\ r.alone = s.alone /\ r.found = s.found
          /\ r.changed = s.changed
          /\ r.pc = "query" => r.objs = {}
          /\ r.pc \in {"purge", "stamp"} => r.objs = {} /\ r.paths = {}
      BY <2>4, OnwardIs
    <2> HIDE DEF r
    <2>6. Placed(r) /\ Current(r, server)
      BY <1>2, <2>2, <2>5 DEF Placed, Current
    <2>7. Accounted(r, server, cache)
      <3> SUFFICES ASSUME s.alone, s.found \/ s.src \notin Homes,
                          NEW u \in Uids \ s.changed, Source[u] = s.src,
                          NEW o \in server[u], Promised(u, o, s.at),
                          Wanted(s.id, u, o) \notin cache
                   PROVE  \/ \E q \in paths : Collection[u] \in q
                          \/ \E c \in objs : Wanted(s.id, u, o) \in Rows(s.id, c, s.at)
        BY <2>5 DEF Accounted
      <3>1. PICK q \in s.paths : Collection[u] \in q
        BY <1>1, <1>2 DEF Sound, Accounted
      <3>2. CASE q \in paths
        BY <3>1, <3>2
      <3>3. CASE q = path
        <4>1. server[u] \in SUBSET (Times \X Times) /\ Possible(u, server[u])
          BY DEF IInv, CacheTypeOK
        <4>2. Components(u, server[u]) \subseteq objs
          BY <1>4, <2>2, <3>1, <3>3, <4>1 DEF Promised, s
        <4>3. \E c \in Components(u, server[u]) : Wanted(s.id, u, o) \in Rows(s.id, c, s.at)
          BY <1>2, <4>1, PromisedHasRow
        <4>4. QED
          BY <4>2, <4>3
      <3>4. QED
        BY <2>3, <3>2, <3>3
    <2>8. Sound(r, server, cache, now)
      BY <1>2, <2>5, <2>6, <2>7 DEF Sound
    <2>9. sync[p].pc # "idle" /\ r.id = sync[p].id /\ r.alone = sync[p].alone
      BY <1>1, <2>5 DEF s
    <2>10. QED
      BY <1>1, <2>1, <2>8, <2>9, CacheIsTyped, RunStep
  <1>5. QED
    BY <1>3, <1>4 DEF Query

\* A run that has dealt with one of its components goes on.
LEMMA StoredStep ==
    ASSUME IInv, NEW p \in Syncs, sync[p].pc = "store", NEW o \in sync[p].objs,
           Goes(p, Onward([sync[p] EXCEPT !.objs = sync[p].objs \ {o}])),
           cache' = Upsert(Rows(sync[p].id, o, sync[p].at)),
           ~enforced \/ row[sync[p].id] # None \/ Rows(sync[p].id, o, sync[p].at) = {},
           UNCHANGED <<server, row, enforced, todo, now>>
    PROVE  IInv'
  <1> DEFINE s == sync[p]
             new == Rows(s.id, o, s.at)
             objs == s.objs \ {o}
             m == [s EXCEPT !.objs = objs]
             r == Onward(m)
  <1>1. Sound(s, server, cache, now)
    BY DEF IInv
  <1>2. s \in SyncType /\ s.id \in Ids /\ s.src \in Sources /\ s.at <= now /\ s.at \in Nat
          /\ o \in Component
    BY <1>1 DEF Sound, Placed, SyncType, Component
  <1>3. /\ new \subseteq RowType
        /\ \A x \in new : x.cal = s.id /\ x.key[1] = o.uid
    BY <1>2, RowTypes
  <1>4. objs \subseteq s.objs /\ \A c \in s.objs : c = o \/ c \in objs
    OBVIOUS
  <1>5. Goes(p, r) /\ o \in s.objs /\ s.pc = "store"
    OBVIOUS
  <1>6. cache' = {e \in cache : \A x \in new : ~(e.cal = x.cal /\ e.key = x.key)} \cup new
    BY DEF Upsert
  <1>7. ~enforced \/ row[s.id] # None \/ new = {}
    OBVIOUS
  <1> HIDE DEF s, new, objs
  <1>8. /\ m \in SyncType /\ m.id = s.id /\ m.src = s.src
        /\ m.at = s.at /\ m.paths = s.paths /\ m.objs = objs /\ m.alone = s.alone
        /\ m.found = s.found /\ m.changed = s.changed
    BY <1>2, <1>4 DEF SyncType
  <1> HIDE DEF m
  <1>9. /\ r \in SyncType /\ r.pc \in {"store", "query", "purge", "stamp"}
        /\ r.id = s.id /\ r.src = s.src /\ r.at = s.at /\ r.paths = s.paths
        /\ r.objs = objs /\ r.alone = s.alone /\ r.found = s.found
        /\ r.changed = s.changed
        /\ r.pc = "query" => r.objs = {}
        /\ r.pc \in {"purge", "stamp"} => r.objs = {} /\ r.paths = {}
    BY <1>8, OnwardIs
  <1> HIDE DEF r
  <1>10. Placed(r) /\ Current(r, server)
    BY <1>1, <1>2, <1>4, <1>9 DEF Sound, Placed, Current
  <1>11. Accounted(r, server, cache')
    <2> SUFFICES ASSUME s.alone, s.found \/ s.src \notin Homes,
                        NEW u \in Uids \ s.changed, Source[u] = s.src,
                        NEW x \in server[u], Promised(u, x, s.at),
                        Wanted(s.id, u, x) \notin cache'
                 PROVE  \/ \E q \in s.paths : Collection[u] \in q
                        \/ \E c \in objs : Wanted(s.id, u, x) \in Rows(s.id, c, s.at)
      BY <1>9 DEF Accounted
    <2>1. server[u] \in SUBSET (Times \X Times) /\ Possible(u, server[u])
      BY DEF IInv, CacheTypeOK
    <2>2. Wanted(s.id, u, x) \notin cache
      <3> SUFFICES ASSUME Wanted(s.id, u, x) \in cache PROVE FALSE
        OBVIOUS
      <3> DEFINE w == Wanted(s.id, u, x)
      <3>1. w.cal = s.id /\ w.key = Key(u, x[1], x[2])
        BY DEF Wanted
      <3>2. w \in cache /\ w \notin cache'
        OBVIOUS
      <3> HIDE DEF w
      <3>3. \E y \in new : w.cal = y.cal /\ w.key = y.key
        BY <1>6, <3>2
      <3>4. PICK y \in new : y.cal = s.id /\ y.key = Key(u, x[1], x[2])
        BY <3>1, <3>3
      <3>5. Key(u, x[1], x[2])[1] = u
        BY DEF Key
      <3>6. o.uid = u
        BY <1>3, <3>4, <3>5
      <3>7. o \in Components(u, server[u])
        BY <1>1, <1>5, <3>6 DEF Sound, Current
      <3>8. y = Wanted(s.id, u, x)
        BY <1>2, <2>1, <3>4, <3>7, OneRowPerKey DEF new
      <3>9. QED
        BY <1>6, <3>4, <3>8
    <2>3. \/ \E q \in s.paths : Collection[u] \in q
          \/ \E c \in s.objs : Wanted(s.id, u, x) \in Rows(s.id, c, s.at)
      BY <1>1, <1>5, <2>2 DEF Sound, Accounted
    <2>4. Wanted(s.id, u, x) \notin Rows(s.id, o, s.at)
      BY <1>6 DEF new
    <2>5. QED
      BY <1>4, <2>3, <2>4
  <1>12. Sound(r, server, cache', now)
    BY <1>2, <1>9, <1>10, <1>11 DEF Sound
  <1>13. cache' \subseteq RowType
    BY <1>3, <1>6, CacheIsTyped
  <1>14. enforced => \A e \in cache' : row[e.cal] # None
    BY <1>3, <1>6, <1>7, CacheIsTyped
  <1>15. \A e \in cache : e.cal # s.id => e \in cache'
    BY <1>3, <1>6
  <1>16. QED
    BY <1>5, <1>9, <1>12, <1>13, <1>14, <1>15, RunStep DEF s

LEMMA StoreKeeps == ASSUME IInv, NEW p \in Syncs, Store(p) PROVE IInv'
  <1>1. sync[p].pc = "store" /\ UNCHANGED <<server, row, enforced, todo, now>>
    BY DEF Store, limits, Trouble
  <1>2. ASSUME NEW o \in sync[p].objs,
               ~enforced \/ row[sync[p].id] # None,
               cache' = Upsert(Rows(sync[p].id, o, sync[p].at)),
               Goes(p, Onward([sync[p] EXCEPT !.objs = sync[p].objs \ {o}]))
        PROVE  IInv'
    BY <1>1, <1>2, StoredStep
  <1>3. ASSUME NEW o \in sync[p].objs, UNCHANGED cache,
               Rows(sync[p].id, o, sync[p].at) = {},
               Goes(p, Onward([sync[p] EXCEPT !.objs = sync[p].objs \ {o}]))
        PROVE  IInv'
    <2>1. cache' = Upsert(Rows(sync[p].id, o, sync[p].at))
      BY <1>3 DEF Upsert
    <2>2. QED
      BY <1>1, <1>3, <2>1, StoredStep
  <1>4. CASE Goes(p, Idle) /\ UNCHANGED cache
    BY <1>1, <1>4, EndStep
  <1>5. QED
    BY <1>2, <1>3, <1>4 DEF Store

LEMMA PurgeKeeps == ASSUME IInv, NEW p \in Syncs, Purge(p) PROVE IInv'
  <1> DEFINE s == sync[p]
             r == [s EXCEPT !.pc = "stamp"]
  <1>1. /\ s.pc = "purge" /\ Goes(p, r)
        /\ UNCHANGED <<server, row, enforced, todo, now>>
    BY DEF Purge, limits, Trouble
  <1>2. \/ cache' = {e \in cache : ~(e.cal = s.id /\ e.at + Length[e.key[1]] < From(s.at))}
        \/ cache' = cache
    BY DEF Purge
  <1>3. Sound(s, server, cache, now)
    BY DEF IInv
  <1>4. s \in SyncType /\ s.id \in Ids /\ s.src \in Sources /\ s.at <= now /\ s.at \in Nat
          /\ s.objs = {} /\ s.paths = {}
    BY <1>1, <1>3 DEF Sound, Placed, SyncType
  <1>5. sync[p].pc # "idle"
    BY <1>1
  <1> HIDE DEF s
  <1>6. /\ r \in SyncType /\ r.pc = "stamp" /\ r.id = s.id /\ r.src = s.src /\ r.at = s.at
        /\ r.paths = {} /\ r.objs = {} /\ r.alone = s.alone /\ r.found = s.found
        /\ r.changed = s.changed
    BY <1>4 DEF SyncType
  <1> HIDE DEF r
  <1>7. Accounted(r, server, cache')
    <2> SUFFICES ASSUME s.alone, s.found \/ s.src \notin Homes,
                        NEW u \in Uids \ s.changed, Source[u] = s.src,
                        NEW x \in server[u], Promised(u, x, s.at)
                 PROVE  Wanted(s.id, u, x) \in cache'
      BY <1>6 DEF Accounted
    <2>1. x[1] \in Times /\ x[2] \in Times
      <3>1. server[u] \in SUBSET (Times \X Times)
        BY DEF IInv, CacheTypeOK
      <3>2. QED
        BY <3>1
    <2>2. Wanted(s.id, u, x) \in cache
      BY <1>1, <1>3, <1>4 DEF Sound, Accounted
    <2>3. /\ Wanted(s.id, u, x).at = x[2]
          /\ Wanted(s.id, u, x).key[1] = u
      <3>1. Key(u, x[1], x[2])[1] = u
        BY DEF Key
      <3>2. QED
        BY <3>1 DEF Wanted
    <2>4. ~(x[2] + Length[u] < From(s.at))
      <3>1. x[2] + Length[u] > From(s.at)
        BY DEF Promised, Touches
      <3>2. x[2] \in Nat /\ Length[u] \in Nat
        <4>1. Times \subseteq Nat /\ Length \in [Uids -> Nat]
          BY Constants
        <4>2. QED
          BY <2>1, <4>1
      <3>3. QED
        BY <1>4, <3>1, <3>2 DEF From
    <2>5. QED
      BY <1>2, <2>2, <2>3, <2>4
  <1>8. Sound(r, server, cache', now)
    BY <1>4, <1>6, <1>7 DEF Sound, Placed, Current
  <1>9. cache' \subseteq cache /\ \A e \in cache : e.cal # s.id => e \in cache'
    BY <1>2
  <1>10. QED
    BY <1>1, <1>5, <1>6, <1>8, <1>9, CacheIsTyped, RunStep DEF s

LEMMA StampKeeps == ASSUME IInv, NEW p \in Syncs, Stamp(p) PROVE IInv'
  BY EndStep DEF Stamp, database, limits

-----------------------------------------------------------------------------
(***************************************************************************)
(* The invariant, and what it means.                                       *)
(***************************************************************************)

LEMMA Stutter == ASSUME IInv, UNCHANGED vars PROVE IInv'
  BY DEF vars, database, process, limits, IInv, CacheTypeOK, Clocked, Apart

LEMMA Invariance == Spec => []IInv
  <1>1. IInv /\ [Next]_vars => IInv'
    <2> SUFFICES ASSUME IInv, [Next]_vars PROVE IInv'
      OBVIOUS
    <2>1. CASE Connect \/ Remove \/ Ask \/ List \/ NextCalendar
      BY <2>1, ConnectKeeps, RemoveKeeps, AskKeeps, ListKeeps, NextCalendarKeeps
    <2>2. CASE Change \/ Tick \/ Crash
      BY <2>2, ChangeKeeps, TickKeeps, CrashKeeps
    <2>3. ASSUME NEW p \in Syncs, Works(p) PROVE IInv'
      BY <2>3, DiscoverKeeps, QueryKeeps, StoreKeeps, PurgeKeeps, StampKeeps DEF Works
    <2>4. CASE UNCHANGED vars
      BY <2>4, Stutter
    <2>5. QED
      BY <2>1, <2>2, <2>3, <2>4 DEF Next
  <1>2. QED
    BY Initial, <1>1, PTL DEF Spec

\* The tables of schema.sql:18-39, and their foreign key where it is enforced: a late
\* statement of a run leaves no events under a calendar that is gone.
THEOREM CacheIsWhole == Spec => []CacheTypeOK
  <1>1. IInv => CacheTypeOK
    BY DEF IInv
  <1>2. QED
    BY <1>1, Invariance, PTL

\* SyncCalendar (caldav.go:37) has written all it promises when it reports success,
\* unless another run or a removal was at work on its calendar.
THEOREM SuccessIsEarned == Spec => []SuccessMeansCached
  <1>1. IInv => SuccessMeansCached
    <2> SUFFICES ASSUME IInv, NEW p \in Syncs,
                        sync[p].pc = "stamp", sync[p].alone,
                        sync[p].found \/ sync[p].src \notin Homes,
                        NEW u \in Uids \ sync[p].changed, Source[u] = sync[p].src,
                        NEW o \in server[u], Promised(u, o, sync[p].at)
                 PROVE  Wanted(sync[p].id, u, o) \in cache
      BY DEF SuccessMeansCached, Wanted
    <2>1. Sound(sync[p], server, cache, now)
      BY DEF IInv
    <2>2. sync[p].paths = {} /\ sync[p].objs = {}
      BY <2>1 DEF Sound, Placed
    <2>3. QED
      BY <2>1, <2>2 DEF Sound, Accounted
  <1>2. QED
    BY <1>1, Invariance, PTL

\* PurgeOldCalendarEvents (calendars.go:207) and the upsert free no busy hour, in
\* whatever order runs begin, fail and end.
THEOREM BusyHoursStay == Spec => BusyStaysBusy
  <1> DEFINE Kept ==
        \A e \in cache : e.at + Length[e.key[1]] >= From(now) =>
          \/ \E f \in cache' : f.cal = e.cal /\ f.key = e.key
          \/ row'[e.cal] = None
  <1>1. IInv /\ [Next]_vars => [Kept]_vars
    <2> SUFFICES ASSUME IInv, [Next]_vars, NEW e \in cache,
                        e.at + Length[e.key[1]] >= From(now), e \notin cache'
                 PROVE  \/ \E f \in cache' : f.cal = e.cal /\ f.key = e.key
                        \/ row'[e.cal] = None
      OBVIOUS
    <2>1. Remove \/ \E p \in Syncs : Store(p) \/ Purge(p)
      BY DEF Next, Works, vars, database, process, limits, Connect, Ask, List, NextCalendar,
             Discover, Query, Stamp, Change, Tick, Crash
    <2>2. CASE Remove
      BY <2>2 DEF Remove, IInv, CacheTypeOK
    <2>3. ASSUME NEW p \in Syncs, Store(p)
          PROVE  \E f \in cache' : f.cal = e.cal /\ f.key = e.key
      <3>1. PICK o \in sync[p].objs : cache' = Upsert(Rows(sync[p].id, o, sync[p].at))
        BY <2>3 DEF Store
      <3>2. QED
        BY <3>1 DEF Upsert
    <2>4. ASSUME NEW p \in Syncs, Purge(p) PROVE FALSE
      <3>1. e.at + Length[e.key[1]] < From(sync[p].at)
        BY <2>4 DEF Purge
      <3>2. sync[p].at \in Nat /\ sync[p].at <= now /\ now \in Nat
        BY DEF IInv, CacheTypeOK, SyncType, Sound, Clocked
      <3>3. e.at + Length[e.key[1]] \in Nat
        <4>1. e.at \in Times /\ e.key[1] \in Uids
          BY DEF IInv, CacheTypeOK
        <4>2. Times \subseteq Nat /\ Length \in [Uids -> Nat]
          BY Constants
        <4>3. QED
          BY <4>1, <4>2
      <3>4. QED
        BY <3>1, <3>2, <3>3 DEF From
    <2>5. QED
      BY <2>1, <2>2, <2>3, <2>4
  <1>2. QED
    BY <1>1, Invariance, PTL DEF Spec, BusyStaysBusy
===============================================================================
