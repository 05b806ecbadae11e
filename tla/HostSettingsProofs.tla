------------------------- MODULE HostSettingsProofs -------------------------
(***************************************************************************)
(* Safety of HostSettings for any number of hosts, tabs, guests, event     *)
(* types, days and failures.                                               *)
(***************************************************************************)
EXTENDS HostSettings, TLAPS

\* What hosts have settled on are weeks; an event type nobody has created was not
\* switched.
Logged ==
    /\ clicks \in [Ids -> Nat]
    /\ settled \in [Hosts -> WeekType]
    /\ \A i \in Ids : type[i] = None => clicks[i] = 0

\* A transaction has the connection.
Holder == \A t \in Tabs : tab[t].pc \in {"delete", "insert"} => conn = t

\* A tab is a host's; what its transaction has yet to insert is what the draft lacks
\* of the form.
Drafts ==
    \A t \in Tabs :
        /\ tab[t].pc # "idle" => tab[t].host \in Hosts
        /\ tab[t].pc = "update" => type[tab[t].id] # None
        /\ tab[t].pc = "insert" =>
             \A d \in Days :
                 tab[t].draft[d] = IF d \in tab[t].rest THEN None ELSE tab[t].form[d]

\* A page that is fresh shows the week that is stored.
Pages ==
    \A t \in Tabs :
        /\ tab[t].pc = "shown" => tab[t].asShown
        /\ tab[t].pc \in {"shown", "delete", "insert"} /\ tab[t].fresh /\ tab[t].asShown
             => tab[t].form = Filled(week[tab[t].host])

\* Guests are at event types that exist.
Served ==
    \A g \in Guests : guest[g].pc \notin {"idle", "notfound"} =>
        type[guest[g].id] # None /\ guest[g].day \in Days

\* The candidates of the loop lie in an active rule.
Cut ==
    \A g \in Guests :
        /\ guest[g].pc = "rules" => guest[g].slots = {}
        /\ guest[g].pc \in {"loop", "filter"} =>
             \A s \in guest[g].slots :
                 LET rule == guest[g].rules[guest[g].day]
                 IN  rule # None /\ rule.active /\ s + guest[g].duration <= rule.to

\* A form is judged by a duration its event type has had since it was sent.
Judged ==
    \A g \in Guests :
        guest[g].pc \in {"rules", "loop", "filter"} /\ guest[g].pick # {}
          => guest[g].duration \in guest[g].had

\* Who is about to read the rules has been told of the week that is in force.
Told ==
    \A g \in Guests : guest[g].pc = "rules" =>
        settled[type[guest[g].id].owner] \in guest[g].weeks

IInv == /\ SettingsTypeOK /\ Logged /\ Holder /\ Drafts /\ Pages /\ Served
        /\ Cut /\ Judged /\ Told
        /\ WholeWeeks /\ SwitchFollowsClicks /\ BookedByTheForm

-----------------------------------------------------------------------------
(***************************************************************************)
(* Facts.                                                                  *)
(***************************************************************************)

LEMMA Constants ==
    /\ Durations \subseteq Int /\ Starts \subseteq Int /\ Days \subseteq Nat
    /\ Weeks \subseteq WeekType
    /\ 1 \in Ids /\ Ids \subseteq Nat
    /\ None \notin Hosts /\ None \notin Tabs /\ None \notin EventType
  BY SettingsAssumption DEF Ids

LEMMA WeekTypes ==
    /\ NoWeek \in WeekType
    /\ \A w \in WeekType : Filled(w) \in WeekType
  BY DEF NoWeek, NewRule, Filled, WeekType, Rule

LEMMA IdleTypes == IdleTab \in TabType /\ IdleGuest \in GuestType
  BY Constants, WeekTypes DEF IdleTab, IdleGuest, TabType, GuestType

\* The page shows as open what is open.
LEMMA FilledHours ==
    ASSUME NEW w \in WeekType
    PROVE  Hours(Filled(w)) = Hours(w)
  BY DEF Hours, Filled, WeekType, NewRule, Rule

\* One tab, or one guest, moves and the others stay.
LEMMA TabMoves ==
    ASSUME SettingsTypeOK, NEW t \in Tabs, NEW r \in TabType, TabGoes(t, r)
    PROVE  /\ tab' \in [Tabs -> TabType] /\ tab'[t] = r
           /\ \A s \in Tabs : s # t => tab'[s] = tab[s]
  BY DEF TabGoes, SettingsTypeOK

LEMMA GuestMoves ==
    ASSUME SettingsTypeOK, NEW g \in Guests, NEW r \in GuestType, GuestGoes(g, r)
    PROVE  /\ guest' \in [Guests -> GuestType] /\ guest'[g] = r
           /\ \A s \in Guests : s # g => guest'[s] = guest[s]
  BY DEF GuestGoes, SettingsTypeOK

LEMMA Initial == Init => IInv
  <1> SUFFICES ASSUME Init PROVE IInv
    OBVIOUS
  <1> USE DEF Init
  <1>1. SettingsTypeOK
    BY IdleTypes, WeekTypes DEF SettingsTypeOK
  <1>2. Logged
    BY WeekTypes DEF Logged
  <1>3. Holder /\ Drafts /\ Pages
    BY DEF Holder, Drafts, Pages, IdleTab
  <1>4. Served /\ Cut /\ Judged /\ Told
    BY DEF Served, Cut, Judged, Told, IdleGuest
  <1>5. WholeWeeks /\ SwitchFollowsClicks /\ BookedByTheForm
    BY DEF WholeWeeks, SwitchFollowsClicks, BookedByTheForm, IdleGuest
  <1>6. QED
    BY <1>1, <1>2, <1>3, <1>4, <1>5 DEF IInv

-----------------------------------------------------------------------------
(***************************************************************************)
(* Event types.                                                            *)
(***************************************************************************)

LEMMA CreateKeeps == ASSUME IInv, Create PROVE IInv'
  <1> USE DEF IInv
  <1>1. PICK h \in Hosts, s \in Slugs, d \in Durations, i \in Ids :
          /\ \A j \in Ids : ~IsLinked(j, h, s)
          /\ type[i] = None
          /\ type' = [type EXCEPT ![i] =
                        [owner |-> h, slug |-> s, duration |-> d, active |-> TRUE]]
    BY DEF Create
  <1>2. week' = week /\ conn' = conn /\ tab' = tab /\ guest' = guest
        /\ clicks' = clicks /\ settled' = settled
    BY DEF Create, history
  <1> DEFINE new == [owner |-> h, slug |-> s, duration |-> d, active |-> TRUE]
  <1>3. new \in EventType /\ new # None
    <2>1. new \in EventType
      BY Constants DEF EventType
    <2>2. QED
      BY <2>1, Constants
  <1>4. /\ type \in [Ids -> EventType \cup {None}]
        /\ type'[i] = new
        /\ \A j \in Ids : j # i => type'[j] = type[j]
    BY <1>1 DEF SettingsTypeOK
  <1>5. type' \in [Ids -> EventType \cup {None}]
    BY <1>1, <1>3, <1>4
  <1>6. \A j \in Ids : type[j] # None => type'[j] = type[j]
    BY <1>1, <1>4
  <1>7. SettingsTypeOK'
    <2>1. ASSUME NEW j \in Ids, NEW k \in Ids, type'[j] # None, type'[k] # None,
                 type'[k].owner = type'[j].owner, type'[k].slug = type'[j].slug
          PROVE  j = k
      <3>1. CASE j = i /\ k # i
        BY <1>1, <1>4, <2>1, <3>1 DEF IsLinked, Owned
      <3>2. CASE j # i /\ k = i
        BY <1>1, <1>4, <2>1, <3>2 DEF IsLinked, Owned
      <3>3. CASE j # i /\ k # i
        BY <1>4, <2>1, <3>3 DEF SettingsTypeOK, IsLinked, Owned
      <3>4. QED
        BY <3>1, <3>2, <3>3
    <2>2. QED
      BY <1>2, <1>5, <2>1 DEF SettingsTypeOK, IsLinked, Owned
  <1>8. Logged'
    BY <1>2, <1>1, <1>4 DEF Logged
  <1>9. Holder' /\ Pages' /\ Cut' /\ Judged' /\ BookedByTheForm'
    BY <1>2 DEF Holder, Pages, Cut, Judged, BookedByTheForm
  <1>10. Drafts'
    <2>1. \A t \in Tabs : tab[t].id \in Ids
      BY DEF SettingsTypeOK, TabType
    <2>2. QED
      BY <1>2, <1>6, <2>1 DEF Drafts
  <1>11. \A g \in Guests : guest[g].id \in Ids
    BY DEF SettingsTypeOK, GuestType
  <1>12. Served' /\ Told'
    BY <1>2, <1>6, <1>11 DEF Served, Told
  <1>13. WholeWeeks'
    BY <1>2 DEF WholeWeeks
  <1>14. SwitchFollowsClicks'
    <2>1. ASSUME NEW j \in Ids, type'[j] # None
          PROVE  type'[j].active <=> clicks'[j] % 2 = 0
      <3>1. CASE j = i
        BY <1>1, <1>2, <1>4, <3>1 DEF Logged
      <3>2. CASE j # i
        BY <1>2, <1>4, <2>1, <3>2 DEF SwitchFollowsClicks
      <3>3. QED
        BY <3>1, <3>2
    <2>2. QED
      BY <2>1 DEF SwitchFollowsClicks
  <1>15. QED
    BY <1>7, <1>8, <1>9, <1>10, <1>12, <1>13, <1>14

LEMMA Parity == ASSUME NEW n \in Nat PROVE (n + 1) % 2 = 0 <=> n % 2 # 0
  OBVIOUS

LEMMA ToggleKeeps == ASSUME IInv, Toggle PROVE IInv'
  <1> USE DEF IInv
  <1>1. PICK h \in Hosts, i \in Ids :
          /\ Owned(i, h)
          /\ type' = [type EXCEPT ![i].active = ~type[i].active]
          /\ clicks' = [clicks EXCEPT ![i] = clicks[i] + 1]
    BY DEF Toggle
  <1>2. week' = week /\ conn' = conn /\ tab' = tab /\ guest' = guest /\ settled' = settled
    BY DEF Toggle
  <1>3. type[i] \in EventType
    BY <1>1 DEF SettingsTypeOK, Owned
  <1> DEFINE new == [type[i] EXCEPT !.active = ~type[i].active]
  <1>4. /\ new \in EventType /\ new # None
        /\ new.owner = type[i].owner /\ new.slug = type[i].slug
        /\ new.active = ~type[i].active
    <2>1. /\ new \in EventType
          /\ new.owner = type[i].owner /\ new.slug = type[i].slug
          /\ new.active = ~type[i].active
      BY <1>3 DEF EventType
    <2>2. QED
      BY <2>1, Constants
  <1>5. /\ type' \in [Ids -> EventType \cup {None}] /\ type'[i] = new
        /\ \A j \in Ids : j # i => type'[j] = type[j]
    BY <1>1, <1>4 DEF SettingsTypeOK
  <1> HIDE DEF new
  <1>6. \A j \in Ids : /\ type'[j] = None <=> type[j] = None
                       /\ type'[j].owner = type[j].owner /\ type'[j].slug = type[j].slug
    BY <1>1, <1>4, <1>5 DEF Owned
  <1>7. SettingsTypeOK'
    BY <1>2, <1>5, <1>6 DEF SettingsTypeOK, IsLinked, Owned
  <1>8. clicks' \in [Ids -> Nat] /\ clicks'[i] = clicks[i] + 1 /\ clicks[i] \in Nat
        /\ \A j \in Ids : j # i => clicks'[j] = clicks[j]
    BY <1>1 DEF Logged
  <1>9. Logged'
    BY <1>1, <1>2, <1>6, <1>8 DEF Logged, Owned
  <1>10. Holder' /\ Pages' /\ Cut' /\ Judged' /\ BookedByTheForm'
    BY <1>2 DEF Holder, Pages, Cut, Judged, BookedByTheForm
  <1>11. (\A g \in Guests : guest[g].id \in Ids) /\ (\A t \in Tabs : tab[t].id \in Ids)
    BY DEF SettingsTypeOK, GuestType, TabType
  <1>12. Drafts'
    BY <1>2, <1>6, <1>11 DEF Drafts
  <1>13. Served' /\ Told' /\ WholeWeeks'
    BY <1>2, <1>6, <1>11 DEF Served, Told, WholeWeeks
  <1>14. SwitchFollowsClicks'
    <2>1. type'[i].active <=> clicks'[i] % 2 = 0
      <3>1. type[i].active <=> clicks[i] % 2 = 0
        BY <1>1 DEF SwitchFollowsClicks, Owned
      <3>2. clicks'[i] % 2 = 0 <=> clicks[i] % 2 # 0
        BY <1>8, Parity
      <3>3. QED
        BY <1>4, <1>5, <3>1, <3>2
    <2>2. QED
      BY <1>5, <1>8, <2>1 DEF SwitchFollowsClicks
  <1>15. QED
    BY <1>7, <1>9, <1>10, <1>12, <1>13, <1>14

LEMMA EditKeeps == ASSUME IInv, NEW t \in Tabs, Edit(t) PROVE IInv'
  <1> USE DEF IInv
  <1>1. PICK h \in Hosts, i \in Ids, d \in Durations :
          /\ Owned(i, h)
          /\ TabGoes(t, [IdleTab EXCEPT !.pc = "update", !.host = h, !.id = i,
                                        !.duration = d, !.switch = type[i].active])
    BY DEF Edit
  <1>2. UNCHANGED <<type, week, conn, guest, clicks, settled>>
    BY DEF Edit, history
  <1> DEFINE r == [IdleTab EXCEPT !.pc = "update", !.host = h, !.id = i,
                                  !.duration = d, !.switch = type[i].active]
  <1>3. r \in TabType
    <2>1. type[i].active \in BOOLEAN
      BY <1>1 DEF SettingsTypeOK, Owned, EventType
    <2>2. QED
      BY <2>1, IdleTypes, Constants DEF TabType
  <1>4. r.pc = "update" /\ r.host = h /\ r.id = i
    BY DEF IdleTab
  <1> HIDE DEF r
  <1>5. /\ tab' \in [Tabs -> TabType] /\ tab'[t] = r
        /\ \A s \in Tabs : s # t => tab'[s] = tab[s]
    BY <1>1, <1>3, TabMoves DEF r
  <1>6. SettingsTypeOK'
    BY <1>2, <1>5 DEF SettingsTypeOK, IsLinked, Owned
  <1>7. Logged' /\ Served' /\ Cut' /\ Judged' /\ Told' /\ WholeWeeks'
        /\ SwitchFollowsClicks' /\ BookedByTheForm'
    BY <1>2 DEF Logged, Served, Cut, Judged, Told, WholeWeeks, SwitchFollowsClicks,
                BookedByTheForm
  <1>8. Holder' /\ Pages'
    BY <1>2, <1>4, <1>5 DEF Holder, Pages
  <1>9. Drafts'
    BY <1>1, <1>2, <1>4, <1>5 DEF Drafts, Owned
  <1>10. QED
    BY <1>6, <1>7, <1>8, <1>9

\* What a form learns of its event type, apart from which nothing in it changes.
LEMMA Learnt ==
    ASSUME SettingsTypeOK, NEW i \in Ids, NEW d \in Int, Learns(i, d)
    PROVE  /\ guest' \in [Guests -> GuestType]
           /\ \A g \in Guests :
                /\ guest'[g].pc = guest[g].pc /\ guest'[g].id = guest[g].id
                /\ guest'[g].duration = guest[g].duration /\ guest'[g].day = guest[g].day
                /\ guest'[g].rules = guest[g].rules /\ guest'[g].slots = guest[g].slots
                /\ guest'[g].pick = guest[g].pick /\ guest[g].had \subseteq guest'[g].had
                /\ guest'[g].weeks = guest[g].weeks /\ guest'[g].blind = guest[g].blind
  <1>1. \A g \in Guests : guest[g] \in GuestType
    BY DEF SettingsTypeOK
  <1>2. \A g \in Guests : [guest[g] EXCEPT !.had = guest[g].had \cup {d}] \in GuestType
    BY <1>1 DEF GuestType
  <1>3. \A g \in Guests : guest'[g] = guest[g]
                          \/ guest'[g] = [guest[g] EXCEPT !.had = guest[g].had \cup {d}]
    BY DEF Learns
  <1>4. guest' \in [Guests -> GuestType]
    BY <1>1, <1>2 DEF Learns
  <1>5. QED
    BY <1>1, <1>3, <1>4 DEF GuestType

LEMMA UpdateKeeps == ASSUME IInv, NEW t \in Tabs, Update(t) PROVE IInv'
  <1> USE DEF IInv
  <1> DEFINE i == tab[t].id
             d == tab[t].duration
  <1>1. i \in Ids /\ d \in Int /\ tab[t].pc = "update" /\ type[i] # None
    BY DEF SettingsTypeOK, TabType, Update, Drafts
  <1>2. TabGoes(t, IdleTab) /\ UNCHANGED <<week, conn, clicks, settled>>
    BY DEF Update, history
  <1>3. /\ tab' \in [Tabs -> TabType] /\ tab'[t] = IdleTab
        /\ \A s \in Tabs : s # t => tab'[s] = tab[s]
    BY <1>2, IdleTypes, TabMoves
  <1>4. /\ type' \in [Ids -> EventType \cup {None}]
        /\ \A j \in Ids : /\ type'[j] = None <=> type[j] = None
                          /\ type[j] # None =>
                               /\ type'[j].owner = type[j].owner
                               /\ type'[j].slug = type[j].slug
                               /\ type'[j].active = type[j].active
    <2>1. CASE type' = type
      BY <2>1 DEF SettingsTypeOK
    <2>2. CASE type' = [type EXCEPT ![i].duration = d]
      <3> DEFINE new == [type[i] EXCEPT !.duration = d]
      <3>1. type[i] \in EventType
        BY <1>1 DEF SettingsTypeOK
      <3>2. /\ new \in EventType
            /\ new.owner = type[i].owner /\ new.slug = type[i].slug
            /\ new.active = type[i].active
        BY <1>1, <3>1 DEF EventType
      <3>3. new # None
        BY <3>2, Constants
      <3>4. type'[i] = new /\ \A j \in Ids : j # i => type'[j] = type[j]
        BY <1>1, <2>2 DEF SettingsTypeOK
      <3>5. type' \in [Ids -> EventType \cup {None}]
        BY <1>1, <2>2, <3>2 DEF SettingsTypeOK
      <3> HIDE DEF new
      <3>6. QED
        BY <1>1, <3>2, <3>3, <3>4, <3>5
    <2>3. QED
      BY <2>1, <2>2 DEF Update
  <1>5. /\ guest' \in [Guests -> GuestType]
        /\ \A g \in Guests :
             /\ guest'[g].pc = guest[g].pc /\ guest'[g].id = guest[g].id
             /\ guest'[g].duration = guest[g].duration /\ guest'[g].day = guest[g].day
             /\ guest'[g].rules = guest[g].rules /\ guest'[g].slots = guest[g].slots
             /\ guest'[g].pick = guest[g].pick /\ guest[g].had \subseteq guest'[g].had
             /\ guest'[g].weeks = guest[g].weeks /\ guest'[g].blind = guest[g].blind
    <2>1. CASE guest' = guest
      BY <2>1 DEF SettingsTypeOK
    <2>2. CASE Learns(i, d)
      BY <1>1, <2>2, Learnt
    <2>3. QED
      BY <2>1, <2>2 DEF Update
  <1> HIDE DEF i, d
  <1>6. \A g \in Guests : guest[g].id \in Ids
    BY DEF SettingsTypeOK, GuestType
  <1>7. \A s \in Tabs : tab[s].id \in Ids
    BY DEF SettingsTypeOK, TabType
  <1>8. SettingsTypeOK'
    BY <1>2, <1>3, <1>4, <1>5 DEF SettingsTypeOK, IsLinked, Owned
  <1>9. Logged' /\ SwitchFollowsClicks'
    BY <1>2, <1>4 DEF Logged, SwitchFollowsClicks
  <1>10. Holder' /\ Pages'
    BY <1>2, <1>3 DEF Holder, Pages, IdleTab
  <1>11. Drafts'
    BY <1>2, <1>3, <1>4, <1>7 DEF Drafts, IdleTab
  <1>12. Served' /\ Told' /\ WholeWeeks'
    BY <1>2, <1>4, <1>5, <1>6 DEF Served, Told, WholeWeeks
  <1>13. Cut'
    BY <1>5 DEF Cut
  <1>14. Judged' /\ BookedByTheForm'
    BY <1>5 DEF Judged, BookedByTheForm
  <1>15. QED
    BY <1>8, <1>9, <1>10, <1>11, <1>12, <1>13, <1>14

-----------------------------------------------------------------------------
(***************************************************************************)
(* Availability.                                                           *)
(***************************************************************************)

\* A step of a tab that touches no table and no guest.
LEMMA TabStep ==
    ASSUME IInv, NEW t \in Tabs, NEW r \in TabType, TabGoes(t, r),
           UNCHANGED <<type, week, guest, history>>,
           conn' \in Tabs \cup {None},
           \A s \in Tabs : s # t /\ tab[s].pc \in {"delete", "insert"} => conn' = s,
           r.pc # "idle" => r.host \in Hosts,
           r.pc # "update",
           r.pc \in {"delete", "insert"} => conn' = t,
           r.pc = "insert" =>
               \A d \in Days : r.draft[d] = IF d \in r.rest THEN None ELSE r.form[d],
           r.pc \in {"shown", "delete", "insert"} /\ r.fresh /\ r.asShown
               => r.form = Filled(week[r.host]),
           r.pc = "shown" => r.asShown
    PROVE  IInv'
  <1> USE DEF IInv
  <1>1. /\ tab' \in [Tabs -> TabType] /\ tab'[t] = r
        /\ \A s \in Tabs : s # t => tab'[s] = tab[s]
    BY TabMoves
  <1>2. SettingsTypeOK'
    BY <1>1 DEF SettingsTypeOK, IsLinked, Owned
  <1>3. Logged'
    BY DEF Logged, history
  <1>4. Holder'
    BY <1>1 DEF Holder
  <1>5. Drafts'
    BY <1>1 DEF Drafts
  <1>6. Pages'
    BY <1>1 DEF Pages
  <1>7. Served' /\ Cut' /\ Judged' /\ SwitchFollowsClicks' /\ BookedByTheForm'
    BY DEF Served, Cut, Judged, SwitchFollowsClicks, BookedByTheForm, history
  <1>8. Told' /\ WholeWeeks'
    BY DEF Told, WholeWeeks, history
  <1>9. QED
    BY <1>2, <1>3, <1>4, <1>5, <1>6, <1>7, <1>8

LEMMA ShowWeekKeeps == ASSUME IInv, NEW t \in Tabs, ShowWeek(t) PROVE IInv'
  <1> USE DEF IInv
  <1>1. PICK h \in Hosts :
          \/ TabGoes(t, Shown(h, week[h]))
          \/ TabGoes(t, [Shown(h, NoWeek) EXCEPT !.fresh = FALSE])
    BY DEF ShowWeek
  <1>2. UNCHANGED <<type, week, conn, guest, history>>
    BY DEF ShowWeek
  <1>3. \A w \in WeekType :
          /\ Shown(h, w) \in TabType
          /\ Shown(h, w).pc = "shown" /\ Shown(h, w).asShown
          /\ Shown(h, w).host = h /\ Shown(h, w).form = Filled(w)
    BY IdleTypes, WeekTypes DEF Shown, IdleTab, TabType
  <1>4. week[h] \in WeekType /\ NoWeek \in WeekType
    BY WeekTypes DEF SettingsTypeOK
  <1>5. conn \in Tabs \cup {None}
        /\ \A s \in Tabs : s # t /\ tab[s].pc \in {"delete", "insert"} => conn = s
    BY DEF SettingsTypeOK, Holder
  <1>6. CASE TabGoes(t, Shown(h, week[h]))
    <2> DEFINE r == Shown(h, week[h])
    <2>1. /\ r \in TabType
          /\ r.pc = "shown" /\ r.asShown /\ r.host = h /\ r.form = Filled(week[h])
      BY <1>3, <1>4
    <2> HIDE DEF r
    <2>2. TabGoes(t, r)
      BY <1>6 DEF r
    <2>3. QED
      BY <1>2, <1>5, <2>1, <2>2, TabStep
  <1>7. CASE TabGoes(t, [Shown(h, NoWeek) EXCEPT !.fresh = FALSE])
    <2> DEFINE r == [Shown(h, NoWeek) EXCEPT !.fresh = FALSE]
    <2>1. r \in TabType /\ r.pc = "shown" /\ r.asShown /\ r.host = h /\ ~r.fresh
      BY <1>3, <1>4 DEF TabType
    <2> HIDE DEF r
    <2>2. TabGoes(t, r)
      BY <1>7 DEF r
    <2>3. QED
      BY <1>2, <1>5, <2>1, <2>2, TabStep
  <1>8. QED
    BY <1>1, <1>6, <1>7

LEMMA SaveKeeps == ASSUME IInv, NEW t \in Tabs, Save(t) PROVE IInv'
  <1> USE DEF IInv
  <1>1. PICK w \in Weeks \cup {tab[t].form} :
          TabGoes(t, [tab[t] EXCEPT !.pc = "delete", !.form = w,
                                    !.draft = week[tab[t].host],
                                    !.asShown = w = tab[t].form])
    BY DEF Save
  <1>2. /\ UNCHANGED <<type, week, guest, history>>
        /\ tab[t].pc = "shown" /\ conn = None /\ conn' = t
    BY DEF Save, Connected
  <1>3. tab[t] \in TabType /\ tab[t].host \in Hosts
    BY <1>2 DEF SettingsTypeOK, Drafts
  <1>4. w \in WeekType /\ week[tab[t].host] \in WeekType
    BY <1>3, Constants DEF TabType, SettingsTypeOK
  <1> DEFINE r == [tab[t] EXCEPT !.pc = "delete", !.form = w, !.draft = week[tab[t].host],
                                 !.asShown = w = tab[t].form]
  <1>5. /\ r \in TabType
        /\ r.pc = "delete" /\ r.host = tab[t].host /\ r.form = w /\ r.fresh = tab[t].fresh
        /\ r.asShown <=> w = tab[t].form
    BY <1>3, <1>4 DEF TabType
  <1> HIDE DEF r
  <1>6. TabGoes(t, r)
    BY <1>1 DEF r
  <1>7. \A s \in Tabs : tab[s].pc \notin {"delete", "insert"}
    BY <1>2, Constants DEF Holder
  <1>8. r.fresh /\ r.asShown => r.form = Filled(week[r.host])
    BY <1>2, <1>5 DEF Pages
  <1>9. QED
    BY <1>2, <1>3, <1>5, <1>6, <1>7, <1>8, TabStep

LEMMA GiveUpKeeps ==
    ASSUME IInv, NEW t \in Tabs, tab[t].pc \in {"delete", "insert"}, GiveUp(t),
           UNCHANGED <<type, guest, history>>
    PROVE  IInv'
  <1> USE DEF IInv
  <1>1. conn = t /\ conn' = None /\ UNCHANGED week /\ TabGoes(t, IdleTab)
    BY DEF GiveUp, Holder
  <1>2. \A s \in Tabs : s # t => tab[s].pc \notin {"delete", "insert"}
    BY <1>1 DEF Holder
  <1>3. IdleTab \in TabType /\ IdleTab.pc = "idle"
    BY IdleTypes DEF IdleTab
  <1>4. QED
    BY <1>1, <1>2, <1>3, TabStep

\* A step of the transaction that keeps the connection.
LEMMA DraftStep ==
    ASSUME IInv, NEW t \in Tabs, tab[t].pc \in {"delete", "insert"},
           NEW r \in TabType, TabGoes(t, r),
           UNCHANGED <<type, week, conn, guest, history>>,
           r.pc = "insert", r.host = tab[t].host, r.form = tab[t].form,
           r.fresh = tab[t].fresh, r.asShown = tab[t].asShown,
           \A d \in Days : r.draft[d] = IF d \in r.rest THEN None ELSE r.form[d]
    PROVE  IInv'
  <1> USE DEF IInv
  <1>1. conn = t /\ conn \in Tabs \cup {None}
    BY DEF Holder
  <1>2. \A s \in Tabs : s # t => tab[s].pc \notin {"delete", "insert"}
    BY <1>1 DEF Holder
  <1>3. r.host \in Hosts
    BY DEF Drafts
  <1>4. r.fresh /\ r.asShown => r.form = Filled(week[r.host])
    BY DEF Pages
  <1>5. QED
    BY <1>1, <1>2, <1>3, <1>4, TabStep

LEMMA DeleteKeeps == ASSUME IInv, NEW t \in Tabs, Delete(t) PROVE IInv'
  <1> USE DEF IInv
  <1> DEFINE r == [tab[t] EXCEPT !.pc = "insert", !.draft = NoWeek,
                                 !.rest = {d \in Days : tab[t].form[d] # None}]
  <1>1. tab[t].pc = "delete" /\ UNCHANGED <<type, guest, history>>
    BY DEF Delete
  <1>2. CASE GiveUp(t)
    BY <1>1, <1>2, GiveUpKeeps
  <1>3. CASE TabGoes(t, r) /\ UNCHANGED <<conn, week>>
    <2>1. tab[t] \in TabType /\ NoWeek \in WeekType
      BY WeekTypes DEF SettingsTypeOK
    <2>2. /\ r \in TabType
          /\ r.pc = "insert" /\ r.host = tab[t].host /\ r.form = tab[t].form
          /\ r.fresh = tab[t].fresh /\ r.asShown = tab[t].asShown
          /\ r.draft = NoWeek /\ r.rest = {d \in Days : tab[t].form[d] # None}
      BY <2>1 DEF TabType
    <2> HIDE DEF r
    <2>3. \A d \in Days : r.draft[d] = IF d \in r.rest THEN None ELSE r.form[d]
      BY <2>2 DEF NoWeek
    <2>4. QED
      BY <1>1, <1>3, <2>2, <2>3, DraftStep
  <1>4. QED
    BY <1>2, <1>3 DEF Delete

LEMMA InsertKeeps == ASSUME IInv, NEW t \in Tabs, Insert(t) PROVE IInv'
  <1> USE DEF IInv
  <1>1. tab[t].pc = "insert" /\ UNCHANGED <<type, guest, history>>
    BY DEF Insert
  <1>2. PICK d \in tab[t].rest :
          \/ /\ TabGoes(t, [tab[t] EXCEPT !.rest = tab[t].rest \ {d},
                                          !.draft = [tab[t].draft EXCEPT ![d] = tab[t].form[d]]])
             /\ UNCHANGED <<conn, week>>
          \/ GiveUp(t)
    BY DEF Insert
  <1> DEFINE draft == [tab[t].draft EXCEPT ![d] = tab[t].form[d]]
             r == [tab[t] EXCEPT !.rest = tab[t].rest \ {d}, !.draft = draft]
  <1>3. CASE GiveUp(t)
    BY <1>1, <1>3, GiveUpKeeps
  <1>4. CASE TabGoes(t, r) /\ UNCHANGED <<conn, week>>
    <2>1. tab[t] \in TabType
      BY DEF SettingsTypeOK
    <2>2. /\ d \in Days /\ tab[t].draft \in WeekType /\ tab[t].form \in WeekType
          /\ tab[t].rest \subseteq Days
      BY <2>1 DEF TabType
    <2>3. draft \in WeekType
      BY <2>2 DEF WeekType
    <2>4. \A e \in Days : draft[e] = IF e = d THEN tab[t].form[d] ELSE tab[t].draft[e]
      BY <2>2 DEF WeekType
    <2> HIDE DEF draft
    <2>5. /\ r \in TabType
          /\ r.pc = "insert" /\ r.host = tab[t].host /\ r.form = tab[t].form
          /\ r.fresh = tab[t].fresh /\ r.asShown = tab[t].asShown
          /\ r.draft = draft /\ r.rest = tab[t].rest \ {d}
      BY <1>1, <2>1, <2>2, <2>3 DEF TabType
    <2> HIDE DEF r
    <2>6. \A e \in Days : r.draft[e] = IF e \in r.rest THEN None ELSE r.form[e]
      <3>1. \A e \in Days :
              tab[t].draft[e] = IF e \in tab[t].rest THEN None ELSE tab[t].form[e]
        BY <1>1 DEF Drafts
      <3>2. QED
        BY <2>4, <2>5, <3>1
    <2>7. QED
      BY <1>1, <1>4, <2>5, <2>6, DraftStep
  <1>5. QED
    BY <1>2, <1>3, <1>4

\* Who is being served learns of the week that is settled on, and of nothing else.
LEMMA SettledTold ==
    ASSUME SettingsTypeOK, NEW t \in Tabs, tab[t].form \in WeekType, Settles(t)
    PROVE  /\ guest' \in [Guests -> GuestType]
           /\ \A g \in Guests :
                /\ guest'[g].pc = guest[g].pc /\ guest'[g].id = guest[g].id
                /\ guest'[g].duration = guest[g].duration /\ guest'[g].day = guest[g].day
                /\ guest'[g].rules = guest[g].rules /\ guest'[g].slots = guest[g].slots
                /\ guest'[g].pick = guest[g].pick /\ guest'[g].had = guest[g].had
                /\ guest'[g].blind = guest[g].blind
                /\ guest[g].weeks \subseteq guest'[g].weeks
                /\ Owned(guest[g].id, tab[t].host) => tab[t].form \in guest'[g].weeks
  <1> DEFINE form == tab[t].form
  <1>1. \A g \in Guests : guest[g] \in GuestType
    BY DEF SettingsTypeOK
  <1>2. \A g \in Guests : [guest[g] EXCEPT !.weeks = guest[g].weeks \cup {form}] \in GuestType
    BY <1>1 DEF GuestType
  <1>3. \A g \in Guests :
          guest'[g] = IF Owned(guest[g].id, tab[t].host)
                      THEN [guest[g] EXCEPT !.weeks = guest[g].weeks \cup {form}]
                      ELSE guest[g]
    BY DEF Settles
  <1>4. guest' \in [Guests -> GuestType]
    BY <1>1, <1>2 DEF Settles
  <1> HIDE DEF form
  <1>5. \A g \in Guests :
          LET new == [guest[g] EXCEPT !.weeks = guest[g].weeks \cup {form}]
          IN  /\ new.pc = guest[g].pc /\ new.id = guest[g].id
              /\ new.duration = guest[g].duration /\ new.day = guest[g].day
              /\ new.rules = guest[g].rules /\ new.slots = guest[g].slots
              /\ new.pick = guest[g].pick /\ new.had = guest[g].had
              /\ new.blind = guest[g].blind
              /\ guest[g].weeks \subseteq new.weeks /\ form \in new.weeks
    BY <1>1 DEF GuestType
  <1>6. QED
    BY <1>3, <1>4, <1>5 DEF form

LEMMA CommitKeeps == ASSUME IInv, NEW t \in Tabs, Commit(t) PROVE IInv'
  <1> USE DEF IInv
  <1>1. tab[t].pc = "insert" /\ tab[t].rest = {} /\ UNCHANGED <<type, clicks>>
    BY DEF Commit
  <1>2. CASE GiveUp(t) /\ UNCHANGED <<guest, settled>>
    BY <1>1, <1>2, GiveUpKeeps DEF history
  <1>3. CASE /\ week' = [week EXCEPT ![tab[t].host] = tab[t].draft]
             /\ conn' = None
             /\ Settles(t)
    <2>1. /\ tab[t].draft \in WeekType /\ tab[t].form \in WeekType
          /\ tab[t].host \in Hosts
      BY <1>1 DEF SettingsTypeOK, TabType, Drafts
    <2>2. tab[t].draft = tab[t].form
      <3>1. \A d \in Days : tab[t].draft[d] = tab[t].form[d]
        BY <1>1 DEF Drafts
      <3>2. QED
        BY <2>1, <3>1 DEF WeekType
    <2>3. \A s \in Tabs : s # t => tab[s].pc \notin {"delete", "insert"}
      BY <1>1 DEF Holder
    <2>4. /\ week' \in [Hosts -> WeekType] /\ week'[tab[t].host] = tab[t].form
          /\ \A h \in Hosts : h # tab[t].host => week'[h] = week[h]
      BY <1>3, <2>1, <2>2 DEF SettingsTypeOK
    <2>5. \A s \in Tabs : tab[s] \in TabType
      BY DEF SettingsTypeOK
    <2>6. \A s \in Tabs :
            [tab[s] EXCEPT !.fresh = tab[s].fresh /\ tab[s].host # tab[t].host] \in TabType
      <3>1. \A x \in TabType, b \in BOOLEAN : [x EXCEPT !.fresh = b] \in TabType
        BY DEF TabType
      <3>2. \A s \in Tabs : (tab[s].fresh /\ tab[s].host # tab[t].host) \in BOOLEAN
        OBVIOUS
      <3>3. QED
        BY <2>5, <3>1, <3>2
    <2>7. tab' \in [Tabs -> TabType]
      BY <1>3, <2>6, IdleTypes DEF Settles
    <2>8. /\ tab'[t].pc = "idle"
          /\ \A s \in Tabs : s # t =>
               /\ tab'[s].pc = tab[s].pc /\ tab'[s].host = tab[s].host
               /\ tab'[s].id = tab[s].id /\ tab'[s].form = tab[s].form
               /\ tab'[s].asShown = tab[s].asShown
               /\ tab'[s].fresh => tab[s].fresh /\ tab[s].host # tab[t].host
      <3>1. /\ tab'[t] = IdleTab
            /\ \A s \in Tabs : s # t =>
                 tab'[s] = [tab[s] EXCEPT !.fresh = tab[s].fresh /\ tab[s].host # tab[t].host]
        BY <1>3 DEF Settles
      <3>2. tab'[t].pc = "idle"
        BY <3>1 DEF IdleTab
      <3>3. ASSUME NEW s \in Tabs, s # t
            PROVE  /\ tab'[s].pc = tab[s].pc /\ tab'[s].host = tab[s].host
                   /\ tab'[s].id = tab[s].id /\ tab'[s].form = tab[s].form
                   /\ tab'[s].asShown = tab[s].asShown
                   /\ tab'[s].fresh => tab[s].fresh /\ tab[s].host # tab[t].host
        <4> DEFINE b == tab[s].fresh /\ tab[s].host # tab[t].host
        <4>1. tab'[s] = [tab[s] EXCEPT !.fresh = b]
          BY <3>1, <3>3
        <4> HIDE DEF b
        <4>2. /\ tab'[s].pc = tab[s].pc /\ tab'[s].host = tab[s].host
              /\ tab'[s].id = tab[s].id /\ tab'[s].form = tab[s].form
              /\ tab'[s].asShown = tab[s].asShown /\ tab'[s].fresh = b
          BY <2>5, <4>1 DEF TabType
        <4>3. QED
          BY <4>2 DEF b
      <3>4. QED
        BY <3>2, <3>3
    <2> DEFINE Steady(g) ==
                 /\ guest'[g].pc = guest[g].pc /\ guest'[g].id = guest[g].id
                 /\ guest'[g].duration = guest[g].duration /\ guest'[g].day = guest[g].day
                 /\ guest'[g].rules = guest[g].rules /\ guest'[g].slots = guest[g].slots
                 /\ guest'[g].pick = guest[g].pick /\ guest'[g].had = guest[g].had
                 /\ guest'[g].blind = guest[g].blind
                 /\ guest[g].weeks \subseteq guest'[g].weeks
                 /\ Owned(guest[g].id, tab[t].host) => tab[t].form \in guest'[g].weeks
    <2>9. guest' \in [Guests -> GuestType] /\ \A g \in Guests : Steady(g)
      BY <1>3, <2>1, SettledTold
    <2>10. /\ settled' \in [Hosts -> WeekType] /\ settled'[tab[t].host] = tab[t].form
           /\ \A h \in Hosts : h # tab[t].host => settled'[h] = settled[h]
      BY <1>3, <2>1 DEF Settles, Logged
    <2>11. SettingsTypeOK'
      <3>1. week' \in [Hosts -> WeekType] /\ conn' \in Tabs \cup {None}
        BY <1>3, <2>4
      <3>2. type' = type
        BY <1>1
      <3>3. /\ type' \in [Ids -> EventType \cup {None}]
            /\ \A i, j \in Ids :
                 type'[i] # None /\ IsLinked(j, type[i].owner, type[i].slug)' => i = j
        BY <3>2 DEF SettingsTypeOK, IsLinked, Owned
      <3>4. guest' \in [Guests -> GuestType]
        BY <2>9
      <3>5. QED
        BY <2>7, <3>1, <3>2, <3>3, <3>4 DEF SettingsTypeOK, IsLinked, Owned
    <2>12. /\ Logged' /\ Served' /\ SwitchFollowsClicks'
           /\ Cut' /\ Judged' /\ BookedByTheForm'
      <3>1. Logged' /\ SwitchFollowsClicks'
        BY <1>1, <2>10 DEF Logged, SwitchFollowsClicks
      <3>2. Served' /\ Judged' /\ BookedByTheForm'
        BY <1>1, <2>9 DEF Served, Judged, BookedByTheForm
      <3>3. Cut'
        BY <2>9 DEF Cut
      <3>4. QED
        BY <3>1, <3>2, <3>3
    <2>13. Holder'
      BY <2>3, <2>8 DEF Holder
    <2>14. Drafts'
      BY <1>1, <2>3, <2>8 DEF Drafts
    <2>15. Pages'
      <3>1. ASSUME NEW s \in Tabs, tab'[s].pc \in {"shown", "delete", "insert"},
                   tab'[s].fresh, tab'[s].asShown
            PROVE  tab'[s].form = Filled(week'[tab'[s].host])
        <4>1. s # t /\ tab[s].host # tab[t].host /\ tab[s].host \in Hosts
          BY <2>8, <3>1 DEF Drafts
        <4>2. tab[s].form = Filled(week[tab[s].host])
          BY <2>8, <3>1, <4>1 DEF Pages
        <4>3. QED
          BY <2>4, <2>8, <4>1, <4>2
      <3>2. \A s \in Tabs : tab'[s].pc = "shown" => tab'[s].asShown
        BY <2>8 DEF Pages
      <3>3. QED
        BY <3>1, <3>2 DEF Pages, Filled
    <2>16. WholeWeeks'
      <3>1. \A h \in Hosts : week'[h] = settled'[h]
        BY <2>4, <2>10 DEF WholeWeeks
      <3>2. QED
        BY <2>9, <3>1 DEF WholeWeeks
    <2>17. Told'
      <3> SUFFICES ASSUME NEW g \in Guests, guest'[g].pc = "rules"
                   PROVE  settled'[type[guest[g].id].owner] \in guest'[g].weeks
        BY <1>1, <2>9 DEF Told
      <3>1. /\ guest[g].pc = "rules" /\ type[guest[g].id] # None
            /\ settled[type[guest[g].id].owner] \in guest'[g].weeks
        BY <2>9 DEF Told, Served
      <3>2. type[guest[g].id].owner \in Hosts
        BY <3>1 DEF SettingsTypeOK, GuestType, EventType
      <3>3. QED
        BY <2>9, <2>10, <3>1, <3>2 DEF Owned
    <2>18. QED
      BY <2>11, <2>12, <2>13, <2>14, <2>15, <2>16, <2>17
  <1>4. QED
    BY <1>2, <1>3 DEF Commit

-----------------------------------------------------------------------------
(***************************************************************************)
(* Guests.                                                                 *)
(***************************************************************************)

\* A step of a guest that touches no table and no tab.
LEMMA GuestStep ==
    ASSUME IInv, NEW g \in Guests, NEW r \in GuestType, GuestGoes(g, r),
           UNCHANGED <<type, week, conn, tab, clicks, settled>>,
           r.pc \notin {"idle", "notfound"} => type[r.id] # None /\ r.day \in Days,
           r.pc = "rules" => r.slots = {},
           r.pc \in {"loop", "filter"} =>
               \A s \in r.slots : /\ r.rules[r.day] # None /\ r.rules[r.day].active
                                  /\ s + r.duration <= r.rules[r.day].to,
           r.pc \in {"rules", "loop", "filter"} /\ r.pick # {} => r.duration \in r.had,
           r.pc = "rules" => settled[type[r.id].owner] \in r.weeks,
           r.pc \in {"loop", "filter", "shown", "booked", "refused"} /\ ~r.blind
               => r.rules \in r.weeks,
           r.pc = "booked" =>
               /\ r.duration \in r.had /\ r.rules[r.day].active
               /\ \A s \in r.pick : s + r.duration <= r.rules[r.day].to
    PROVE  IInv'
  <1> USE DEF IInv
  <1>1. /\ guest' \in [Guests -> GuestType] /\ guest'[g] = r
        /\ \A s \in Guests : s # g => guest'[s] = guest[s]
    BY GuestMoves
  <1>2. SettingsTypeOK'
    BY <1>1 DEF SettingsTypeOK, IsLinked, Owned
  <1>3. Logged' /\ Holder' /\ Drafts' /\ Pages' /\ SwitchFollowsClicks'
    BY DEF Logged, Holder, Drafts, Pages, SwitchFollowsClicks, Filled
  <1>4. Served'
    BY <1>1 DEF Served
  <1>5. Cut'
    BY <1>1 DEF Cut
  <1>6. Judged'
    BY <1>1 DEF Judged
  <1>7. Told' /\ WholeWeeks'
    BY <1>1 DEF Told, WholeWeeks
  <1>8. BookedByTheForm'
    BY <1>1 DEF BookedByTheForm
  <1>9. QED
    BY <1>2, <1>3, <1>4, <1>5, <1>6, <1>7, <1>8

\* Who has looked a link up.
LEMMA LookedTypes ==
    ASSUME IInv, NEW i \in Ids, type[i] # None, NEW d \in Days
    PROVE  LET r == Looked(i, d)
           IN  /\ r \in GuestType
               /\ r.pc = "rules" /\ r.id = i /\ r.day = d /\ r.slots = {} /\ r.pick = {}
               /\ r.duration = type[i].duration /\ type[i].duration \in Int
               /\ r.weeks = {settled[type[i].owner]}
  <1> USE DEF IInv
  <1>1. type[i].duration \in Int /\ type[i].owner \in Hosts
    BY DEF SettingsTypeOK, EventType
  <1>2. settled[type[i].owner] \in WeekType
    BY <1>1 DEF Logged
  <1>3. QED
    BY <1>1, <1>2, IdleTypes DEF Looked, GuestType, IdleGuest

LEMMA OpenKeeps == ASSUME IInv, NEW g \in Guests, Open(g) PROVE IInv'
  <1>1. PICK i \in Ids, d \in Days : type[i] # None /\ GuestGoes(g, Looked(i, d))
    BY DEF Open
  <1>2. UNCHANGED <<type, week, conn, tab, clicks, settled>>
    BY DEF Open, history
  <1> DEFINE r == Looked(i, d)
  <1>3. /\ r \in GuestType
        /\ r.pc = "rules" /\ r.id = i /\ r.day = d /\ r.slots = {} /\ r.pick = {}
        /\ r.weeks = {settled[type[i].owner]}
    BY <1>1, LookedTypes
  <1> HIDE DEF r
  <1>4. GuestGoes(g, r)
    BY <1>1 DEF r
  <1>5. QED
    BY <1>1, <1>2, <1>3, <1>4, GuestStep

LEMMA LeaveKeeps == ASSUME IInv, NEW g \in Guests, Leave(g) PROVE IInv'
  <1>1. GuestGoes(g, IdleGuest) /\ UNCHANGED <<type, week, conn, tab, clicks, settled>>
    BY DEF Leave, history
  <1>2. IdleGuest \in GuestType /\ IdleGuest.pc = "idle"
    BY IdleTypes DEF IdleGuest
  <1>3. QED
    BY <1>1, <1>2, GuestStep

LEMMA SubmitKeeps == ASSUME IInv, NEW g \in Guests, Submit(g) PROVE IInv'
  <1> USE DEF IInv
  <1>1. PICK f \in FormsOf(guest[g]) :
          GuestGoes(g, IF type[f.id].active
                       THEN [Looked(f.id, f.day) EXCEPT !.pick = {f.start},
                                                        !.had = {type[f.id].duration}]
                       ELSE [IdleGuest EXCEPT !.pc = "notfound"])
    BY DEF Submit
  <1>2. guest[g].pc \in {"idle", "shown"} /\ UNCHANGED <<type, week, conn, tab, clicks, settled>>
    BY DEF Submit, history
  <1> DEFINE i == f.id
             d == f.day
             x == f.start
  <1>3. i \in Ids /\ type[i] # None /\ d \in Days /\ x \in Int
    <2>1. CASE guest[g].pc = "shown"
      <3>1. PICK s \in guest[g].slots : f = [id |-> guest[g].id, day |-> guest[g].day, start |-> s]
        BY <2>1 DEF FormsOf
      <3>2. guest[g].slots \subseteq Int /\ guest[g].id \in Ids
        BY DEF SettingsTypeOK, GuestType
      <3>3. QED
        BY <2>1, <3>1, <3>2 DEF Served
    <2>2. CASE guest[g].pc # "shown"
      <3>1. f \in [id : {j \in Ids : type[j] # None}, day : Days, start : Starts]
        BY <2>2 DEF FormsOf
      <3>2. QED
        BY <3>1, Constants
    <2>3. QED
      BY <2>1, <2>2
  <1> HIDE DEF i, d, x
  <1> DEFINE y == Looked(i, d)
             long == type[i].duration
  <1>4. /\ y \in GuestType
        /\ y.pc = "rules" /\ y.id = i /\ y.day = d /\ y.slots = {}
        /\ y.duration = long /\ long \in Int
        /\ y.weeks = {settled[type[i].owner]}
    BY <1>3, LookedTypes
  <1>5. CASE type[i].active
    <2> DEFINE r == [y EXCEPT !.pick = {x}, !.had = {long}]
    <2>1. GuestGoes(g, r)
      BY <1>1, <1>5 DEF i, d, x
    <2> HIDE DEF y, long
    <2>2. /\ r \in GuestType
          /\ r.pc = "rules" /\ r.id = i /\ r.day = d /\ r.slots = {}
          /\ r.duration = long /\ r.had = {long} /\ r.weeks = {settled[type[i].owner]}
      BY <1>3, <1>4 DEF GuestType
    <2> HIDE DEF r
    <2>3. QED
      BY <1>2, <1>3, <2>1, <2>2, GuestStep
  <1>6. CASE ~type[i].active
    <2> DEFINE r == [IdleGuest EXCEPT !.pc = "notfound"]
    <2>1. r \in GuestType /\ r.pc = "notfound"
      BY IdleTypes DEF GuestType, IdleGuest
    <2>2. GuestGoes(g, r)
      BY <1>1, <1>6 DEF i
    <2> HIDE DEF r
    <2>3. QED
      BY <1>2, <2>1, <2>2, GuestStep
  <1>7. QED
    BY <1>5, <1>6

LEMMA LoadRulesKeeps == ASSUME IInv, NEW g \in Guests, LoadRules(g) PROVE IInv'
  <1> USE DEF IInv
  <1> DEFINE h == type[guest[g].id].owner
  <1>1. guest[g].pc = "rules" /\ UNCHANGED <<type, week, conn, tab, clicks, settled>>
    BY DEF LoadRules, history
  <1>2. guest[g] \in GuestType /\ type[guest[g].id] # None /\ guest[g].day \in Days
    BY <1>1 DEF SettingsTypeOK, Served
  <1>3. h \in Hosts
    BY <1>2 DEF SettingsTypeOK, GuestType, EventType
  <1>4. week[h] \in WeekType /\ week[h] \in guest[g].weeks
    BY <1>1, <1>3 DEF SettingsTypeOK, Told, WholeWeeks
  <1>5. guest[g].slots = {} /\ (guest[g].pick # {} => guest[g].duration \in guest[g].had)
    BY <1>1 DEF Cut, Judged
  <1> HIDE DEF h
  <1>6. CASE GuestGoes(g, [guest[g] EXCEPT !.pc = "loop", !.rules = week[h]])
    <2> DEFINE w == week[h]
               r == [guest[g] EXCEPT !.pc = "loop", !.rules = w]
    <2>1. GuestGoes(g, r)
      BY <1>6
    <2>2. w \in WeekType /\ w \in guest[g].weeks
      BY <1>4
    <2> HIDE DEF w
    <2>3. /\ r \in GuestType
          /\ r.pc = "loop" /\ r.id = guest[g].id /\ r.day = guest[g].day /\ r.rules = w
          /\ r.slots = guest[g].slots /\ r.pick = guest[g].pick
          /\ r.duration = guest[g].duration /\ r.had = guest[g].had
          /\ r.weeks = guest[g].weeks
      BY <1>2, <2>2 DEF GuestType
    <2> HIDE DEF r
    <2>4. QED
      BY <1>1, <1>2, <1>5, <2>1, <2>2, <2>3, GuestStep
  <1>7. CASE GuestGoes(g, [guest[g] EXCEPT !.pc = "loop", !.blind = TRUE])
    <2> DEFINE r == [guest[g] EXCEPT !.pc = "loop", !.blind = TRUE]
    <2>1. GuestGoes(g, r)
      BY <1>7
    <2>2. /\ r \in GuestType
          /\ r.pc = "loop" /\ r.id = guest[g].id /\ r.day = guest[g].day /\ r.blind
          /\ r.slots = guest[g].slots /\ r.pick = guest[g].pick
          /\ r.duration = guest[g].duration /\ r.had = guest[g].had
      BY <1>2 DEF GuestType
    <2> HIDE DEF r
    <2>3. QED
      BY <1>1, <1>2, <1>5, <2>1, <2>2, GuestStep
  <1>8. QED
    BY <1>6, <1>7 DEF LoadRules, h

LEMMA TurnKeeps == ASSUME IInv, NEW g \in Guests, Turn(g) PROVE IInv'
  <1> USE DEF IInv
  <1> DEFINE x == guest[g]
             rule == x.rules[x.day]
             over == IF rule = None THEN TRUE ELSE ~rule.active \/ x.at + x.duration > rule.to
  <1>1. x.pc = "loop" /\ UNCHANGED <<type, week, conn, tab, clicks, settled>>
    BY DEF Turn, history
  <1>2. GuestGoes(g, IF over THEN [x EXCEPT !.pc = "filter"]
                     ELSE [x EXCEPT !.slots = x.slots \cup {x.at}, !.at = x.at + x.duration])
    BY DEF Turn
  <1>3. x \in GuestType /\ type[x.id] # None /\ x.day \in Days
    BY <1>1 DEF SettingsTypeOK, Served
  <1>4. x.blind \/ x.rules \in x.weeks
    BY <1>1 DEF WholeWeeks
  <1>5. x.at \in Int /\ x.duration \in Int /\ rule \in Rule \cup {None}
    BY <1>3 DEF GuestType, WeekType
  <1>6. \A s \in x.slots : rule # None /\ rule.active /\ s + x.duration <= rule.to
    BY <1>1 DEF Cut
  <1>7. x.pick # {} => x.duration \in x.had
    BY <1>1 DEF Judged
  <1>8. CASE over
    <2> DEFINE r == [x EXCEPT !.pc = "filter"]
    <2>1. GuestGoes(g, r)
      BY <1>2, <1>8
    <2> HIDE DEF x, over
    <2>2. /\ r \in GuestType
          /\ r.pc = "filter" /\ r.id = x.id /\ r.day = x.day /\ r.rules = x.rules
          /\ r.slots = x.slots /\ r.pick = x.pick
          /\ r.duration = x.duration /\ r.had = x.had
          /\ r.weeks = x.weeks /\ r.blind = x.blind
      BY <1>3 DEF GuestType
    <2> HIDE DEF r
    <2>3. QED
      BY <1>1, <1>3, <1>4, <1>6, <1>7, <2>1, <2>2, GuestStep
  <1>9. CASE ~over
    <2> DEFINE r == [x EXCEPT !.slots = x.slots \cup {x.at}, !.at = x.at + x.duration]
    <2>1. GuestGoes(g, r)
      BY <1>2, <1>9
    <2>2. rule # None /\ rule.active /\ ~(x.at + x.duration > rule.to)
      BY <1>9
    <2>3. x.at + x.duration <= rule.to
      BY <1>5, <2>2 DEF Rule
    <2> HIDE DEF x, over
    <2> DEFINE more == x.slots \cup {x.at}
               next == x.at + x.duration
    <2>4. more \in SUBSET Int /\ next \in Int
      BY <1>3, <1>5 DEF GuestType
    <2>5. r = [x EXCEPT !.slots = more, !.at = next]
      OBVIOUS
    <2>6. more = x.slots \cup {x.at}
      OBVIOUS
    <2> HIDE DEF r, more, next
    <2>7. /\ r \in GuestType
          /\ r.pc = x.pc /\ r.id = x.id /\ r.day = x.day /\ r.rules = x.rules
          /\ r.slots = x.slots \cup {x.at} /\ r.pick = x.pick
          /\ r.duration = x.duration /\ r.had = x.had
          /\ r.weeks = x.weeks /\ r.blind = x.blind
      BY <1>3, <2>4, <2>5, <2>6 DEF GuestType
    <2> HIDE DEF r
    <2>8. \A s \in r.slots : /\ r.rules[r.day] # None /\ r.rules[r.day].active
                             /\ s + r.duration <= r.rules[r.day].to
      BY <1>6, <2>2, <2>3, <2>7
    <2>9. QED
      BY <1>1, <1>3, <1>4, <1>7, <2>1, <2>7, <2>8, GuestStep
  <1>10. QED
    BY <1>8, <1>9

LEMMA AnswerKeeps == ASSUME IInv, NEW g \in Guests, Answer(g) PROVE IInv'
  <1> USE DEF IInv
  <1> DEFINE x == guest[g]
             pc == IF x.pick = {} THEN "shown"
                   ELSE IF x.pick \subseteq x.slots THEN "booked" ELSE "refused"
             r == [x EXCEPT !.pc = pc]
  <1>1. x.pc = "filter" /\ UNCHANGED <<type, week, conn, tab, clicks, settled>>
    BY DEF Answer, history
  <1>2. GuestGoes(g, r)
    BY DEF Answer
  <1>3. x \in GuestType /\ type[x.id] # None /\ x.day \in Days
    BY <1>1 DEF SettingsTypeOK, Served
  <1>4. x.blind \/ x.rules \in x.weeks
    BY <1>1 DEF WholeWeeks
  <1>5. \A s \in x.slots : x.rules[x.day].active /\ s + x.duration <= x.rules[x.day].to
    BY <1>1 DEF Cut
  <1>6. x.pick # {} => x.duration \in x.had
    BY <1>1 DEF Judged
  <1>7. pc \in {"shown", "booked", "refused"}
        /\ (pc = "booked" => x.pick # {} /\ x.pick \subseteq x.slots)
    OBVIOUS
  <1> HIDE DEF x, pc
  <1>8. /\ r \in GuestType
        /\ r.pc = pc /\ r.id = x.id /\ r.day = x.day /\ r.rules = x.rules
        /\ r.pick = x.pick /\ r.duration = x.duration /\ r.had = x.had
        /\ r.weeks = x.weeks /\ r.blind = x.blind
    BY <1>3, <1>7 DEF GuestType
  <1> HIDE DEF r
  <1>9. r.pc = "booked" =>
          /\ r.duration \in r.had /\ r.rules[r.day].active
          /\ \A s \in r.pick : s + r.duration <= r.rules[r.day].to
    BY <1>5, <1>6, <1>7, <1>8
  <1>10. QED
    BY <1>1, <1>2, <1>3, <1>4, <1>7, <1>8, <1>9, GuestStep

LEMMA CrashKeeps == ASSUME IInv, Crash PROVE IInv'
  <1> USE DEF IInv
  <1>1. /\ conn' = None
        /\ tab' = [t \in Tabs |-> IdleTab]
        /\ guest' = [g \in Guests |-> IdleGuest]
        /\ UNCHANGED <<type, week, clicks, settled>>
    BY DEF Crash, history
  <1>2. /\ \A t \in Tabs : tab'[t] = IdleTab
        /\ \A g \in Guests : guest'[g] = IdleGuest
    BY <1>1
  <1>3. SettingsTypeOK'
    BY <1>1, IdleTypes DEF SettingsTypeOK, IsLinked, Owned
  <1>4. Logged' /\ SwitchFollowsClicks'
    BY <1>1 DEF Logged, SwitchFollowsClicks
  <1>5. Holder' /\ Drafts' /\ Pages'
    BY <1>2 DEF Holder, Drafts, Pages, IdleTab
  <1>6. Served' /\ Cut' /\ Judged' /\ BookedByTheForm'
    BY <1>2 DEF Served, Cut, Judged, BookedByTheForm, IdleGuest
  <1>7. Told' /\ WholeWeeks'
    BY <1>1, <1>2 DEF Told, WholeWeeks, IdleGuest
  <1>8. QED
    BY <1>3, <1>4, <1>5, <1>6, <1>7

-----------------------------------------------------------------------------
(***************************************************************************)
(* The invariant, and what it means.                                       *)
(***************************************************************************)

LEMMA Stutter == ASSUME IInv, UNCHANGED vars PROVE IInv'
  BY DEF vars, limits, history, IInv, SettingsTypeOK, IsLinked, Owned, Logged, Holder,
         Drafts, Pages, Filled, Served, Cut, Judged, Told, WholeWeeks,
         SwitchFollowsClicks, BookedByTheForm

LEMMA Invariance == Spec => []IInv
  <1>1. IInv /\ [Next]_vars => IInv'
    <2> SUFFICES ASSUME IInv, [Next]_vars PROVE IInv'
      OBVIOUS
    <2>1. CASE Create \/ Toggle \/ Crash
      BY <2>1, CreateKeeps, ToggleKeeps, CrashKeeps
    <2>2. ASSUME NEW t \in Tabs, Edit(t) \/ ShowWeek(t) \/ Save(t) \/ TabWorks(t)
          PROVE  IInv'
      BY <2>2, EditKeeps, ShowWeekKeeps, SaveKeeps, UpdateKeeps, DeleteKeeps, InsertKeeps,
         CommitKeeps DEF TabWorks
    <2>3. ASSUME NEW g \in Guests, Open(g) \/ Submit(g) \/ GuestWorks(g) \/ Leave(g)
          PROVE  IInv'
      BY <2>3, OpenKeeps, SubmitKeeps, LoadRulesKeeps, TurnKeeps, AnswerKeeps, LeaveKeeps
         DEF GuestWorks
    <2>4. CASE UNCHANGED vars
      BY <2>4, Stutter
    <2>5. QED
      BY <2>1, <2>2, <2>3, <2>4 DEF Next
  <1>2. QED
    BY Initial, <1>1, PTL DEF Spec

\* The tables, and UNIQUE(user_id, slug): a link leads to one event type (schema.sql:55).
THEOREM LinksAreUnique == Spec => []SettingsTypeOK
  <1>1. IInv => SettingsTypeOK
    BY DEF IInv
  <1>2. QED
    BY <1>1, Invariance, PTL

\* ReplaceAvailabilityRules (availability.go:35) is all or nothing: whoever could read
\* the rules has read the form that was committed last, at the request or since, and
\* the table holds nothing else, however tabs, guests, failures and restarts interleave.
THEOREM WeeksAreWhole == Spec => []WholeWeeks
  <1>1. IInv => WholeWeeks
    BY DEF IInv
  <1>2. QED
    BY <1>1, Invariance, PTL

\* ToggleEventType (event_types.go:98) loses no click, neither to another one nor to
\* an edit that had read the row.
THEOREM SwitchesCount == Spec => []SwitchFollowsClicks
  <1>1. IInv => SwitchFollowsClicks
    BY DEF IInv
  <1>2. QED
    BY <1>1, Invariance, PTL

\* handleBookingSubmit (public.go:169) books by the event type as it was after the form
\* was sent, and inside a rule that was in force.
THEOREM FormsAreJudged == Spec => []BookedByTheForm
  <1>1. IInv => BookedByTheForm
    BY DEF IInv
  <1>2. QED
    BY <1>1, Invariance, PTL

\* Saving the availability page as it came changes no opening hours
\* (dashboard.go:220-267).
THEOREM PagesRoundTrip == Spec => PageRoundTrip
  <1> DEFINE Same(t) ==
        tab[t].pc = "insert" /\ tab[t].asShown /\ tab[t].fresh /\ week' # week
          => Hours(week'[tab[t].host]) = Hours(week[tab[t].host])
  <1>1. IInv /\ [Next]_vars => [\A t \in Tabs : Same(t)]_vars
    <2> SUFFICES ASSUME IInv, [Next]_vars, NEW t \in Tabs,
                        tab[t].pc = "insert", tab[t].asShown, tab[t].fresh, week' # week
                 PROVE  Hours(week'[tab[t].host]) = Hours(week[tab[t].host])
      OBVIOUS
    <2> USE DEF IInv
    <2>1. PICK s \in Tabs : Commit(s)
      <3>1. \E s \in Tabs : Delete(s) \/ Insert(s) \/ Commit(s)
        BY DEF Next, vars, TabWorks, GuestWorks, Create, Toggle, Crash, Edit, ShowWeek, Save,
               Update, Open, Submit, LoadRules, Turn, Answer, Leave
      <3>2. \A s \in Tabs : ~Delete(s) /\ ~Insert(s)
        BY DEF Delete, Insert, GiveUp
      <3>3. QED
        BY <3>1, <3>2
    <2>2. tab[s].pc = "insert" /\ tab[s].rest = {}
      BY <2>1 DEF Commit
    <2>3. s = t
      BY <2>2 DEF Holder
    <2>4. week' = [week EXCEPT ![tab[t].host] = tab[t].draft]
      BY <2>1, <2>3 DEF Commit, GiveUp
    <2>5. /\ tab[t].draft \in WeekType /\ tab[t].form \in WeekType
          /\ tab[t].host \in Hosts /\ week \in [Hosts -> WeekType]
      BY DEF SettingsTypeOK, TabType, Drafts
    <2>6. tab[t].draft = tab[t].form
      <3>1. \A d \in Days : tab[t].draft[d] = tab[t].form[d]
        BY <2>2, <2>3 DEF Drafts
      <3>2. QED
        BY <2>5, <3>1 DEF WeekType
    <2>7. tab[t].form = Filled(week[tab[t].host])
      BY DEF Pages
    <2>8. week'[tab[t].host] = Filled(week[tab[t].host])
      BY <2>4, <2>5, <2>6, <2>7
    <2>9. QED
      BY <2>5, <2>8, FilledHours
  <1>2. QED
    BY <1>1, Invariance, PTL DEF Spec, PageRoundTrip
===============================================================================
