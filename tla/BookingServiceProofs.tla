------------------------ MODULE BookingServiceProofs ------------------------
(***************************************************************************)
(* Safety of BookingService for any number of guests, hosts' clicks,       *)
(* offers and events, any TTL and window, and any bounds.                  *)
(***************************************************************************)
EXTENDS BookingService, TLAPS

-----------------------------------------------------------------------------
(***************************************************************************)
(* Type correctness, one lemma per action that changes more than one part  *)
(* of the state.                                                           *)
(***************************************************************************)

LEMMA TypeInit == Init => TypeOK
  <1> SUFFICES ASSUME Init PROVE TypeOK
    OBVIOUS
  <1>1. TableType
    BY DEF Init, TableType
  <1>2. GuestType
    BY DEF Init, GuestType, GuestPcs
  <1>3. ClickType
    BY DEF Init, ClickType, ClickPcs, IdleClick
  <1>4. GCType
    BY DEF Init, GCType, IdleGC
  <1>5. WorldType /\ EnvType
    BY DEF Init, WorldType, EnvType
  <1>6. QED
    BY <1>1, <1>2, <1>3, <1>4, <1>5 DEF TypeOK

\* A step that changes no status, slot or reservation, and so on for the other
\* parts of the state.
LEMMA TypeFrame ==
  ASSUME TypeOK
  PROVE  /\ UNCHANGED table => TableType'
         /\ UNCHANGED guest => GuestType'
         /\ UNCHANGED click => ClickType'
         /\ UNCHANGED gc => GCType'
         /\ UNCHANGED <<writers, cached, conn, world>> => WorldType'
         /\ UNCHANGED env => EnvType'
  BY DEF TypeOK, TableType, GuestType, ClickType, GCType, WorldType, EnvType,
         table, world, env

\* A failing statement only counts the failure.
LEMMA TypeFault == ASSUME EnvType, Fault PROVE EnvType'
  BY DEF Fault, EnvType

\* The control moves stay within the control points.
LEMMA TypeMoves ==
  ASSUME TypeOK
  PROVE  /\ \A g \in Guests, pc \in GuestPcs :
              GuestGoes(g, pc) \/ GuestKeeps(g, pc) => GuestType'
         /\ \A h \in Handlers, pc \in ClickPcs :
              click[h].pc # "idle" /\ ClickGoes(h, pc) => ClickType'
         /\ \A pc \in {"update", "mail"}, rows \in SUBSET Guests :
              GCGoes(pc, rows) => GCType'
  <1>1. ASSUME NEW g \in Guests, NEW pc \in GuestPcs,
               GuestGoes(g, pc) \/ GuestKeeps(g, pc)
        PROVE  GuestType'
    BY <1>1 DEF TypeOK, GuestType, GuestGoes, GuestKeeps
  <1>2. ASSUME NEW h \in Handlers, NEW pc \in ClickPcs,
               click[h].pc # "idle", ClickGoes(h, pc)
        PROVE  ClickType'
    BY <1>2 DEF TypeOK, ClickType, ClickGoes
  <1>3. ASSUME NEW pc \in {"update", "mail"}, NEW rows \in SUBSET Guests,
               GCGoes(pc, rows)
        PROVE  GCType'
    BY <1>3 DEF GCType, GCGoes
  <1>4. QED
    BY <1>1, <1>2, <1>3

\* Writing a status keeps the table well typed.
LEMMA TypeSetStatus ==
  ASSUME TypeOK, NEW rows \in SUBSET Guests, NEW st \in Statuses,
         SetStatus(rows, st)
  PROVE  TableType'
  BY DEF SetStatus, TypeOK, TableType

\* Taking or freeing the connection, sending a mail and writing an event are
\* changes of WorldType alone.
LEMMA TypeGuest ==
  ASSUME TypeOK, NEW g \in Guests, Submit(g) \/ GuestWorks(g)
  PROVE  TypeOK'
  <1> USE TypeFrame, TypeFault, TypeMoves DEF GuestPcs
  <1>1. CASE Submit(g)
    <2>1. TableType'
      BY <1>1 DEF Submit, TypeOK, TableType
    <2>2. GuestType'
      BY <1>1 DEF Submit, TypeOK, GuestType, EnvType, GuestGoes, GuestStamps
    <2>3. QED
      BY <1>1, <2>1, <2>2 DEF Submit, TypeOK
  <1>2. CASE LoadEvents(g)
    BY <1>2 DEF LoadEvents, TypeOK
  <1>3. CASE LoadBookings(g)
    <2>1. TableType'
      BY <1>3, BoundsAssumption DEF LoadBookings, TypeOK, TableType, EnvType
    <2>2. GuestType' /\ EnvType'
      BY <1>3 DEF LoadBookings, TypeOK
    <2>3. QED
      BY <1>3, <2>1, <2>2 DEF LoadBookings, TypeOK
  <1>4. CASE TxBegin(g)
    <2>1. WorldType'
      BY <1>4 DEF TxBegin, TypeOK, WorldType, world
    <2>2. QED
      BY <1>4, <2>1 DEF TxBegin, TypeOK
  <1>5. CASE TxEvents(g) \/ TxBookings(g)
    <2>1. WorldType'
      BY <1>5 DEF TxEvents, TxBookings, Rollback, TypeOK, WorldType, world
    <2>2. QED
      BY <1>5, <2>1 DEF TxEvents, TxBookings, Rollback, TypeOK
  <1>6. CASE TxInsert(g)
    <2>1. WorldType'
      BY <1>6 DEF TxInsert, Rollback, TypeOK, WorldType, world
    <2>2. TableType'
      BY <1>6, TypeSetStatus DEF TxInsert, Statuses
    <2>3. QED
      BY <1>6, <2>1, <2>2 DEF TxInsert, Rollback, TypeOK
  <1>7. CASE Accept(g)
    BY <1>7 DEF Accept, TypeOK
  <1>8. QED
    BY <1>1, <1>2, <1>3, <1>4, <1>5, <1>6, <1>7 DEF GuestWorks

LEMMA TypeClick ==
  ASSUME TypeOK, NEW h \in Handlers, Look(h) \/ ClickWorks(h)
  PROVE  TypeOK'
  <1> USE TypeFrame, TypeFault, TypeMoves DEF ClickPcs, Said
  <1>a. ASSUME click' = [click EXCEPT ![h] = IdleClick]
        PROVE  ClickType'
    BY <1>a DEF TypeOK, ClickType, IdleClick
  <1>b. ASSUME click[h].pc # "idle"
        PROVE  click[h].op \in {"CONFIRMED", "REJECTED"} /\ click[h].tok \in Guests
    BY <1>b DEF TypeOK, ClickType
  <1>1. CASE Look(h)
    <2>1. ClickType'
      BY <1>1 DEF Look, TypeOK, ClickType
    <2>2. QED
      BY <1>1, <2>1 DEF Look, TypeOK
  <1>2. CASE Update(h)
    <2>1. TableType'
      BY <1>2, <1>b, TypeSetStatus DEF Update, Statuses
    <2>2. QED
      BY <1>2, <1>a, <2>1 DEF Update, TypeOK, world
  <1>3. CASE Fetch(h)
    <2>1. WorldType'
      BY <1>3, <1>b DEF Fetch, TypeOK, WorldType, world
    <2>2. QED
      BY <1>3, <2>1 DEF Fetch, Reply, TypeOK
  <1>4. CASE Mail(h)
    <2>1. WorldType'
      BY <1>4, <1>b DEF Mail, TypeOK, WorldType, Terminal
    <2>2. QED
      BY <1>4, <2>1 DEF Mail, Reply, TypeOK
  <1>5. CASE Return(h)
    BY <1>5, <1>a DEF Return, TypeOK
  <1>6. QED
    BY <1>1, <1>2, <1>3, <1>4, <1>5 DEF ClickWorks

LEMMA TypeGC ==
  ASSUME TypeOK, GCSelect \/ GCSelectFails \/ GCUpdate \/ GCMail
  PROVE  TypeOK'
  <1> USE TypeFrame, TypeFault, TypeMoves
  <1>a. ASSUME gc' = IdleGC PROVE GCType'
    BY <1>a DEF IdleGC, GCType
  <1>b. gc.rows \in SUBSET Guests
    BY DEF TypeOK, GCType
  <1>1. CASE GCSelect
    BY <1>1, <1>a DEF GCSelect, TypeOK, ExpiredRows
  <1>2. CASE GCSelectFails
    BY <1>2 DEF GCSelectFails, TypeOK, tasks
  <1>3. CASE GCUpdate
    <2>1. TableType'
      BY <1>3, <1>b, TypeSetStatus DEF GCUpdate, Statuses
    <2>2. QED
      BY <1>3, <1>a, <1>b, <2>1 DEF GCUpdate, TypeOK
  <1>4. CASE GCMail
    <2>1. WorldType'
      BY <1>4, <1>b DEF GCMail, TypeOK, WorldType, Terminal
    <2>2. GCType'
      BY <1>4, <1>a, <1>b DEF GCMail
    <2>3. QED
      BY <1>4, <2>1, <2>2 DEF GCMail, TypeOK
  <1>5. QED
    BY <1>1, <1>2, <1>3, <1>4

LEMMA TypeSurroundings ==
  ASSUME TypeOK,
         \/ \E g \in Guests : WriteBack(g)
         \/ SyncUpsert \/ SyncDrop \/ Tick \/ Crash
  PROVE  TypeOK'
  <1> USE TypeFrame
  <1>1. ASSUME NEW g \in Guests, WriteBack(g) PROVE TypeOK'
    <2>1. WorldType'
      BY <1>1 DEF WriteBack, TypeOK, WorldType
    <2>2. QED
      BY <1>1, <2>1 DEF WriteBack, TypeOK
  <1>2. CASE SyncUpsert \/ SyncDrop
    <2>1. WorldType'
      BY <1>2 DEF SyncUpsert, SyncDrop, TypeOK, WorldType, tasks, world
    <2>2. QED
      BY <1>2, <2>1 DEF SyncUpsert, SyncDrop, TypeOK, tasks
  <1>3. CASE Tick
    <2>1. EnvType'
      BY <1>3 DEF Tick, TypeOK, EnvType
    <2>2. QED
      BY <1>3, <2>1 DEF Tick, TypeOK, tasks
  <1>4. CASE Crash
    <2>1. GuestType'
      BY <1>4 DEF Crash, TypeOK, GuestType, GuestPcs
    <2>2. ClickType' /\ GCType'
      BY <1>4 DEF Crash, ClickType, GCType, IdleClick, IdleGC, ClickPcs
    <2>3. WorldType' /\ EnvType'
      BY <1>4 DEF Crash, TypeOK, WorldType, EnvType, world
    <2>4. QED
      BY <1>4, <2>1, <2>2, <2>3 DEF Crash, TypeOK
  <1>5. QED
    BY <1>1, <1>2, <1>3, <1>4

\* Every variable keeps its type, and a click that has looked its verdict.
THEOREM TypeCorrect == Spec => []TypeOK
  <1>1. TypeOK /\ [Next]_vars => TypeOK'
    <2> SUFFICES ASSUME TypeOK, [Next]_vars PROVE TypeOK'
      OBVIOUS
    <2>1. CASE UNCHANGED vars
      BY <2>1, TypeFrame DEF vars, tasks, TypeOK
    <2>2. CASE Next
      BY <2>2, TypeGuest, TypeClick, TypeGC, TypeSurroundings DEF Next
    <2>3. QED BY <2>1, <2>2
  <1>2. QED
    BY TypeInit, <1>1, PTL DEF Spec

-----------------------------------------------------------------------------
(***************************************************************************)
(* The inductive invariant.  None of the properties is inductive by        *)
(* itself: a booking lands on a free slot because its transaction keeps    *)
(* what it has checked true (Checked) by keeping the connection (Holder);  *)
(* an overlap betrays a revival because a row's history starts with its    *)
(* insertion (NoRowYet, History); and a late verdict never creates a row   *)
(* or cancels early because of what was true when it was reached, which    *)
(* nothing has undone (Targets).                                           *)
(***************************************************************************)

BeforeRow == {"form", "events", "bookings", "begin"} \cup TxPcs

\* A guest inside the transaction holds the connection.
Holder == \A g \in Guests : guest[g].pc \in TxPcs => conn = g

\* The row appears with the commit, and then it is there.
NoRowYet ==
    \A g \in Guests :
        /\ guest[g].pc \in BeforeRow => status[g] = Absent
        /\ guest[g].pc \in {"notify", "accepted"} => status[g] # Absent
        /\ guest[g].pc = "refused" => status[g] = Absent

\* What the transaction has checked stays true while it holds the connection.
Checked ==
    \A g \in Guests :
        /\ guest[g].pc \in {"txBookings", "txInsert"} => ~EventConflict(slot[g])
        /\ guest[g].pc = "txInsert" => ~BookingConflict(slot[g])

\* The history of a row starts with PENDING and has its current status.
History ==
    \A g \in Guests :
        /\ status[g] = Absent => was[g] = {}
        /\ status[g] # Absent => status[g] \in was[g]
        /\ status[g] = "PENDING" => was[g] = {"PENDING"}

\* A verdict on its way to the table concerns a row, and the collector's one a
\* reservation that has run out.
Targets ==
    /\ \A h \in Handlers : click[h].pc = "update" => status[click[h].tok] # Absent
    /\ gc.pc = "update" =>
         \A g \in gc.rows : status[g] # Absent /\ reserved[g] <= now

Safe == Holder /\ NoRowYet /\ Checked /\ History /\ OverlapOnlyByRevival

IInv == TypeOK /\ Safe /\ Targets /\ NeverCancelledEarly

LEMMA OverlapsSymmetric ==
  ASSUME NEW x \in Offers \cup {NoOffer}, NEW y \in Offers \cup {NoOffer},
         Overlaps(x, y)
  PROVE  Overlaps(y, x)
  <1>1. x.from \in Nat /\ x.to \in Nat /\ y.from \in Nat /\ y.to \in Nat
    BY IntervalsAssumption DEF NoOffer
  <1>2. QED
    BY <1>1 DEF Overlaps

LEMMA InvInit == Init => IInv
  <1> SUFFICES ASSUME Init PROVE IInv
    OBVIOUS
  <1>1. Holder /\ Checked
    BY DEF Init, Holder, Checked, TxPcs
  <1>2. NoRowYet /\ History
    BY DEF Init, NoRowYet, History, Absent
  <1>3. OverlapOnlyByRevival
    BY DEF Init, OverlapOnlyByRevival, Active, Absent
  <1>4. Targets /\ NeverCancelledEarly
    BY DEF Init, Targets, NeverCancelledEarly, IdleClick, IdleGC
  <1>5. QED
    BY TypeInit, <1>1, <1>2, <1>3, <1>4 DEF IInv, Safe

-----------------------------------------------------------------------------
\* A step that leaves the table, the cache, the connection and the guests
\* alone leaves everything true that is said of them.
LEMMA SafeQuiet ==
  ASSUME Safe, UNCHANGED <<status, slot, was, cached, conn, guest>>
  PROVE  Safe'
  BY DEF Safe, Holder, NoRowYet, Checked, History, OverlapOnlyByRevival,
         Revived, EventConflict, BookingConflict

\* Nobody is inside the transaction while the connection is free, and only its
\* holder is while it is not.
LEMMA AloneInTx ==
  ASSUME Holder
  PROVE  /\ Connected => \A g \in Guests : guest[g].pc \notin TxPcs
         /\ \A g, k \in Guests :
              guest[g].pc \in TxPcs /\ k # g => guest[k].pc \notin TxPcs
  BY NamesAssumption DEF Holder, Connected

\* A verdict on rows of the table: an overlap it creates involves a row that
\* had given its slot back.
LEMMA SafeVerdict ==
  ASSUME TypeOK, Safe, Connected,
         NEW rows \in SUBSET Guests, NEW st \in Terminal,
         \A g \in rows : status[g] # Absent,
         SetStatus(rows, st),
         UNCHANGED <<cached, conn, guest>>
  PROVE  Safe'
  <1> USE DEF SetStatus
  <1>1. Holder'
    BY DEF Safe, Holder
  <1>2. st \in Statuses /\ st # "PENDING" /\ st # Absent
    BY DEF Terminal, Statuses, Absent
  <1>3. NoRowYet'
    BY <1>2 DEF Safe, NoRowYet, TypeOK, TableType
  <1>4. Checked'
    BY AloneInTx DEF Safe, Checked, TxPcs
  <1>5. History'
    BY <1>2 DEF Safe, History, TypeOK, TableType
  <1>6. OverlapOnlyByRevival'
    <2> SUFFICES ASSUME NEW a \in Guests, NEW b \in Guests, a # b,
                        status'[a] \in Active, status'[b] \in Active,
                        Overlaps(slot[a], slot[b])
                 PROVE  Revived(a)' \/ Revived(b)'
      BY DEF OverlapOnlyByRevival
    <2>1. ASSUME NEW g \in Guests, Revived(g), status'[g] \in Active
          PROVE  Revived(g)'
      BY <2>1 DEF Revived, Active, Terminal, TypeOK, TableType
    <2>2. ASSUME NEW g \in Guests, status[g] \notin Active, status'[g] \in Active
          PROVE  Revived(g)'
      <3>1. g \in rows /\ st = "CONFIRMED"
        BY <2>2 DEF Active, Terminal, TypeOK, TableType
      <3>2. status[g] \in Released /\ status[g] \in was[g]
        BY <2>2, <3>1 DEF Safe, History, Active, Released, Statuses, TypeOK, TableType
      <3>3. QED
        BY <3>1, <3>2 DEF Revived, TypeOK, TableType
    <2>3. CASE status[a] \in Active /\ status[b] \in Active
      <3>1. Revived(a) \/ Revived(b)
        BY <2>3 DEF Safe, OverlapOnlyByRevival
      <3>2. QED
        BY <3>1, <2>1
    <2>4. QED
      BY <2>2, <2>3
  <1>7. QED
    BY <1>1, <1>3, <1>4, <1>5, <1>6 DEF Safe

\* The insertion: the row lands on a slot the transaction has checked.
LEMMA SafeInsert ==
  ASSUME TypeOK, Safe, NEW g \in Guests, guest[g].pc = "txInsert",
         SetStatus({g}, "PENDING"), conn' = Free,
         NEW pc \in {"notify", "unsure"}, GuestGoes(g, pc), UNCHANGED cached
  PROVE  Safe'
  <1> USE DEF SetStatus, GuestGoes
  <1>1. status[g] = Absent /\ was[g] = {} /\ ~BookingConflict(slot[g])
    BY DEF Safe, NoRowYet, History, Checked, BeforeRow, TxPcs
  <1>2. guest'[g].pc = pc /\ \A k \in Guests : k # g => guest'[k] = guest[k]
    BY DEF TypeOK, GuestType
  <1>3. \A k \in Guests : guest'[k].pc \notin TxPcs
    BY <1>2, AloneInTx DEF TxPcs, Safe
  <1>4. Holder' /\ Checked'
    BY <1>3 DEF Holder, Checked, TxPcs
  <1>5. NoRowYet'
    BY <1>2 DEF Safe, NoRowYet, BeforeRow, TxPcs, Absent, TypeOK, TableType
  <1>6. History'
    BY <1>1 DEF Safe, History, Absent, TypeOK, TableType
  <1>7. OverlapOnlyByRevival'
    <2> SUFFICES ASSUME NEW a \in Guests, NEW b \in Guests, a # b,
                        status'[a] \in Active, status'[b] \in Active,
                        Overlaps(slot[a], slot[b])
                 PROVE  Revived(a)' \/ Revived(b)'
      BY DEF OverlapOnlyByRevival
    <2>1. Overlaps(slot[b], slot[a])
      BY OverlapsSymmetric DEF TypeOK, TableType
    <2>2. a # g /\ b # g
      BY <1>1, <2>1 DEF BookingConflict, TypeOK, TableType
    <2>3. Revived(a) \/ Revived(b)
      BY <2>2 DEF Safe, OverlapOnlyByRevival, TypeOK, TableType
    <2>4. QED
      BY <2>2, <2>3 DEF Revived, TypeOK, TableType
  <1>8. QED
    BY <1>4, <1>5, <1>6, <1>7 DEF Safe

\* Any other step of a guest moves its control and perhaps the connection.
LEMMA SafeGuestMove ==
  ASSUME TypeOK, Safe, NEW g \in Guests, NEW pc \in GuestPcs,
         GuestGoes(g, pc) \/ GuestKeeps(g, pc) \/ GuestStamps(g, pc),
         UNCHANGED <<status, was, cached>>,
         \A k \in Guests : k # g => slot'[k] = slot[k],
         guest[g].pc # "form" => slot' = slot,
         guest[g].pc \in {"form", "events", "bookings"} =>
             pc \in {"events", "bookings", "begin", "refused"} /\ UNCHANGED conn,
         guest[g].pc = "begin" =>
             \/ pc = "refused" /\ UNCHANGED conn
             \/ pc = "txEvents" /\ Connected /\ conn' = g,
         guest[g].pc \in TxPcs =>
             \/ pc \in {"refused", "unsure"} /\ conn' = Free
             \/ /\ guest[g].pc = "txEvents" /\ pc = "txBookings"
                /\ ~EventConflict(slot[g]) /\ UNCHANGED conn
             \/ /\ guest[g].pc = "txBookings" /\ pc = "txInsert"
                /\ ~BookingConflict(slot[g]) /\ UNCHANGED conn,
         guest[g].pc = "notify" => pc = "accepted" /\ UNCHANGED conn,
         guest[g].pc \notin {"accepted", "refused", "unsure"}
  PROVE  Safe'
  <1>1. guest'[g].pc = pc /\ \A k \in Guests : k # g => guest'[k] = guest[k]
    BY DEF TypeOK, GuestType, GuestGoes, GuestKeeps, GuestStamps
  <1>2. guest[g].pc \in GuestPcs
    BY DEF TypeOK, GuestType
  <1>3. Holder'
    BY <1>1, <1>2, AloneInTx DEF Safe, Holder, TxPcs, GuestPcs
  <1>4. NoRowYet'
    BY <1>1, <1>2 DEF Safe, NoRowYet, BeforeRow, TxPcs, GuestPcs
  <1>5. guest[g].pc = "form" => status[g] \notin Active
    BY DEF Safe, NoRowYet, BeforeRow, Active, Absent
  <1>6. /\ \A k \in Guests : status[k] \in Active => slot'[k] = slot[k]
        /\ \A k \in Guests :
             guest'[k].pc \in {"txBookings", "txInsert"} => slot'[k] = slot[k]
    BY <1>1, <1>5
  <1>7. Checked'
    <2> SUFFICES ASSUME NEW k \in Guests,
                        guest'[k].pc \in {"txBookings", "txInsert"}
                 PROVE  /\ ~EventConflict(slot[k])
                        /\ guest'[k].pc = "txInsert" => ~BookingConflict(slot[k])
      BY <1>6 DEF Checked, EventConflict, BookingConflict
    <2>1. CASE k = g
      BY <2>1, <1>1, <1>2 DEF Safe, Checked, TxPcs, GuestPcs
    <2>2. CASE k # g
      BY <2>2, <1>1 DEF Safe, Checked
    <2>3. QED
      BY <2>1, <2>2
  <1>8. History'
    BY DEF Safe, History
  <1>9. OverlapOnlyByRevival'
    BY <1>5 DEF Safe, OverlapOnlyByRevival, Revived
  <1>10. QED
    BY <1>3, <1>4, <1>7, <1>8, <1>9 DEF Safe

LEMMA SafeGuest ==
  ASSUME IInv, NEW g \in Guests, Submit(g) \/ GuestWorks(g)
  PROVE  Safe'
  <1> USE DEF IInv, GuestPcs, TxPcs, env, table
  <1>1. CASE Submit(g)
    <2>1. \A k \in Guests : k # g => slot'[k] = slot[k]
      BY <1>1 DEF Submit, TypeOK, TableType
    <2>2. QED
      BY <1>1, <2>1, SafeGuestMove DEF Submit
  <1>2. CASE LoadEvents(g)
    BY <1>2, SafeGuestMove DEF LoadEvents, Fault
  <1>3. CASE LoadBookings(g)
    BY <1>3, SafeGuestMove DEF LoadBookings, Fault
  <1>4. CASE TxBegin(g)
    BY <1>4, SafeGuestMove DEF TxBegin, Fault
  <1>5. CASE TxEvents(g)
    BY <1>5, SafeGuestMove DEF TxEvents, Rollback, Fault
  <1>6. CASE TxBookings(g)
    BY <1>6, SafeGuestMove DEF TxBookings, Rollback, Fault
  <1>7. CASE TxInsert(g)
    BY <1>7, SafeGuestMove, SafeInsert DEF TxInsert, Rollback, Fault
  <1>8. CASE Accept(g)
    BY <1>8, SafeGuestMove DEF Accept
  <1>9. QED
    BY <1>1, <1>2, <1>3, <1>4, <1>5, <1>6, <1>7, <1>8 DEF GuestWorks

LEMMA SafeClick ==
  ASSUME IInv, NEW h \in Handlers, Look(h) \/ ClickWorks(h)
  PROVE  Safe'
  <1> USE DEF IInv, env, table
  <1>1. CASE Look(h) \/ Fetch(h) \/ Mail(h) \/ Return(h)
    BY <1>1, SafeQuiet DEF Look, Fetch, Mail, Return, Fault
  <1>2. CASE Update(h)
    <2>1. /\ click[h].tok \in Guests /\ click[h].op \in Terminal
          /\ status[click[h].tok] # Absent
      BY <1>2 DEF Update, TypeOK, ClickType, Targets, Terminal
    <2>2. CASE SetStatus({click[h].tok}, click[h].op) /\ UNCHANGED env
      BY <1>2, <2>1, <2>2, SafeVerdict DEF Update
    <2>3. CASE Fault /\ UNCHANGED table
      BY <1>2, <2>3, SafeQuiet DEF Update, Fault
    <2>4. QED
      BY <1>2, <2>2, <2>3 DEF Update
  <1>3. QED
    BY <1>1, <1>2 DEF ClickWorks

LEMMA SafeGC ==
  ASSUME IInv, GCSelect \/ GCSelectFails \/ GCUpdate \/ GCMail
  PROVE  Safe'
  <1> USE DEF IInv, env, table, tasks
  <1>1. CASE GCSelect \/ GCSelectFails \/ GCMail
    BY <1>1, SafeQuiet DEF GCSelect, GCSelectFails, GCMail, Fault
  <1>2. CASE GCUpdate
    <2>1. /\ gc.rows \in SUBSET Guests /\ "CANCELLED" \in Terminal
          /\ \A g \in gc.rows : status[g] # Absent
      BY <1>2 DEF GCUpdate, TypeOK, GCType, Targets, Terminal
    <2>2. CASE SetStatus(gc.rows, "CANCELLED") /\ UNCHANGED env
      BY <1>2, <2>1, <2>2, SafeVerdict DEF GCUpdate
    <2>3. CASE Fault /\ UNCHANGED table
      BY <1>2, <2>3, SafeQuiet DEF GCUpdate, Fault
    <2>4. QED
      BY <1>2, <2>2, <2>3 DEF GCUpdate
  <1>3. QED
    BY <1>1, <1>2

LEMMA SafeSurroundings ==
  ASSUME IInv,
         \/ \E g \in Guests : WriteBack(g)
         \/ SyncUpsert \/ SyncDrop \/ Tick \/ Crash
  PROVE  Safe'
  <1> USE DEF IInv, env, table, tasks
  <1>1. ASSUME NEW g \in Guests, WriteBack(g) PROVE Safe'
    BY <1>1, SafeQuiet DEF WriteBack
  <1>2. CASE SyncUpsert \/ SyncDrop
    <2>1. \A g \in Guests : guest[g].pc \notin TxPcs
      BY <1>2, AloneInTx DEF SyncUpsert, SyncDrop, Safe
    <2>2. Checked'
      BY <1>2, <2>1 DEF Checked, TxPcs, SyncUpsert, SyncDrop
    <2>3. Holder' /\ NoRowYet' /\ History' /\ OverlapOnlyByRevival'
      BY <1>2 DEF SyncUpsert, SyncDrop, Safe, Holder, NoRowYet, History,
                  OverlapOnlyByRevival, Revived
    <2>4. QED
      BY <2>2, <2>3 DEF Safe
  <1>3. CASE Tick
    BY <1>3, SafeQuiet DEF Tick
  <1>4. CASE Crash
    <2>1. \A g \in Guests :
            /\ guest'[g].pc \notin TxPcs
            /\ guest'[g].pc \in {"form", "accepted", "refused", "unsure"}
            /\ guest'[g].pc # "unsure" => guest[g].pc = guest'[g].pc
      BY <1>4 DEF Crash, InFlight, TypeOK, GuestType, TxPcs
    <2>2. Holder' /\ Checked'
      BY <2>1 DEF Holder, Checked, TxPcs
    <2>3. NoRowYet'
      BY <1>4, <2>1 DEF Crash, Safe, NoRowYet, BeforeRow, TxPcs
    <2>4. History' /\ OverlapOnlyByRevival'
      BY <1>4 DEF Crash, Safe, History, OverlapOnlyByRevival, Revived
    <2>5. QED
      BY <2>2, <2>3, <2>4 DEF Safe
  <1>5. QED
    BY <1>1, <1>2, <1>3, <1>4

-----------------------------------------------------------------------------
\* A row stays a row: it keeps its slot and its reservation, its history
\* grows, and time does not run back.
LEMMA RowsLast ==
  ASSUME IInv, [Next]_vars
  PROVE  /\ now' >= now /\ now \in Nat /\ now' \in Nat
         /\ \A g \in Guests :
              /\ was[g] \subseteq was'[g]
              /\ status[g] # Absent =>
                   /\ status'[g] # Absent
                   /\ reserved'[g] = reserved[g]
                   /\ slot'[g] = slot[g]
  <1> DEFINE Lasts == /\ now' >= now /\ now \in Nat /\ now' \in Nat
                      /\ \A g \in Guests :
                           /\ was[g] \subseteq was'[g]
                           /\ status[g] # Absent =>
                                /\ status'[g] # Absent
                                /\ reserved'[g] = reserved[g]
                                /\ slot'[g] = slot[g]
  <1> SUFFICES Lasts
    OBVIOUS
  <1>a. TypeOK /\ now \in Nat
    BY DEF IInv, TypeOK, EnvType
  <1>b. ASSUME UNCHANGED table, UNCHANGED now PROVE Lasts
    BY <1>a, <1>b DEF table
  <1>c. ASSUME NEW rows \in SUBSET Guests, NEW st \in Statuses,
               SetStatus(rows, st), UNCHANGED now
        PROVE  Lasts
    BY <1>a, <1>c DEF SetStatus, TypeOK, TableType, Statuses, Absent
  <1> HIDE DEF Lasts
  <1>1. ASSUME NEW g \in Guests, Submit(g) \/ LoadBookings(g) PROVE Lasts
    <2>1. status[g] = Absent
      BY <1>1 DEF Submit, LoadBookings, IInv, Safe, NoRowYet, BeforeRow
    <2>2. UNCHANGED <<status, was, now>>
      BY <1>1 DEF Submit, LoadBookings, Fault, env
    <2>3. \A k \in Guests : k # g => slot'[k] = slot[k] /\ reserved'[k] = reserved[k]
      BY <1>1, <1>a DEF Submit, LoadBookings, TypeOK, TableType
    <2>4. QED
      BY <1>a, <2>1, <2>2, <2>3 DEF Lasts
  <1>2. ASSUME NEW g \in Guests,
               LoadEvents(g) \/ TxBegin(g) \/ TxEvents(g) \/ TxBookings(g) \/ Accept(g)
        PROVE  Lasts
    BY <1>2, <1>b DEF LoadEvents, TxBegin, TxEvents, TxBookings, Accept, Fault, env
  <1>3. ASSUME NEW g \in Guests, TxInsert(g) PROVE Lasts
    BY <1>3, <1>b, <1>c DEF TxInsert, Fault, env, Statuses
  <1>4. ASSUME NEW h \in Handlers, Look(h) \/ Fetch(h) \/ Mail(h) \/ Return(h)
        PROVE  Lasts
    BY <1>4, <1>b DEF Look, Fetch, Mail, Return, Fault, env
  <1>5. ASSUME NEW h \in Handlers, Update(h) PROVE Lasts
    <2>1. click[h].tok \in Guests /\ click[h].op \in Statuses
      BY <1>5, <1>a DEF Update, TypeOK, ClickType, Statuses
    <2>2. QED
      BY <1>5, <2>1, <1>b, <1>c DEF Update, Fault, env
  <1>6. CASE GCSelect \/ GCSelectFails \/ GCMail
    BY <1>6, <1>b DEF GCSelect, GCSelectFails, GCMail, Fault, env
  <1>7. CASE GCUpdate
    <2>1. gc.rows \in SUBSET Guests /\ "CANCELLED" \in Statuses
      BY <1>a DEF TypeOK, GCType, Statuses
    <2>2. QED
      BY <1>7, <2>1, <1>b, <1>c DEF GCUpdate, Fault, env
  <1>8. ASSUME NEW g \in Guests, WriteBack(g) PROVE Lasts
    BY <1>8, <1>b DEF WriteBack, env
  <1>9. CASE SyncUpsert \/ SyncDrop \/ Crash
    BY <1>9, <1>b DEF SyncUpsert, SyncDrop, Crash, env
  <1>10. CASE Tick
    BY <1>10, <1>a DEF Tick, table, Lasts
  <1>11. CASE UNCHANGED vars
    BY <1>11, <1>b DEF vars, env
  <1>12. QED
    BY <1>1, <1>2, <1>3, <1>4, <1>5, <1>6, <1>7, <1>8, <1>9, <1>10, <1>11
    DEF Next, GuestWorks, ClickWorks

\* A verdict is reached on a row (Look, GCSelect) and rows last.
LEMMA TargetsStep ==
  ASSUME IInv, [Next]_vars
  PROVE  Targets'
  <1>a. TypeOK /\ Targets
    BY DEF IInv
  <1>b. ASSUME NEW h \in Handlers, click[h].pc = "update", click'[h] = click[h]
        PROVE  status'[click'[h].tok] # Absent
    BY <1>a, <1>b, RowsLast DEF Targets, TypeOK, ClickType
  <1>c. ASSUME UNCHANGED gc
        PROVE  gc'.pc = "update" =>
                 \A g \in gc'.rows : status'[g] # Absent /\ reserved'[g] <= now'
    <2> SUFFICES ASSUME gc.pc = "update", NEW g \in gc.rows
                 PROVE  status'[g] # Absent /\ reserved'[g] <= now'
      BY <1>c
    <2>1. g \in Guests /\ status[g] # Absent /\ reserved[g] <= now /\ reserved[g] \in Nat
      BY <1>a DEF Targets, TypeOK, GCType, TableType
    <2>2. QED
      BY <2>1, RowsLast
  <1>d. ASSUME UNCHANGED click
        PROVE  \A h \in Handlers :
                 click'[h].pc = "update" => status'[click'[h].tok] # Absent
    BY <1>b, <1>d
  <1> USE DEF env, table, tasks, Said
  <1>1. CASE UNCHANGED <<click, gc>>
    BY <1>1, <1>c, <1>d DEF Targets
  <1>2. ASSUME NEW h \in Handlers, Look(h) \/ ClickWorks(h) PROVE Targets'
    <2>1. UNCHANGED gc
      BY <1>2 DEF ClickWorks, Look, Update, Fetch, Mail, Return
    <2>2. \A k \in Handlers : k # h => click'[k] = click[k]
      BY <1>2, <1>a DEF ClickWorks, Look, Update, Fetch, Mail, Return, ClickGoes,
                        TypeOK, ClickType
    <2>3. ASSUME click'[h].pc = "update"
          PROVE  status'[click'[h].tok] # Absent
      <3>1. CASE Look(h)
        BY <2>3, <3>1, <1>a, <1>b DEF Look, Absent, TypeOK, ClickType
      <3>2. CASE ClickWorks(h)
        BY <2>3, <3>2, <1>a
        DEF ClickWorks, Update, Fetch, Mail, Return, ClickGoes, Reply, IdleClick,
            TypeOK, ClickType
      <3>3. QED
        BY <1>2, <3>1, <3>2
    <2>4. QED
      BY <2>1, <2>2, <2>3, <1>b, <1>c DEF Targets
  <1>3. CASE GCSelect
    BY <1>3, <1>d DEF GCSelect, GCGoes, IdleGC, ExpiredRows, Expired, Targets, Absent
  <1>4. CASE GCUpdate \/ GCMail
    BY <1>4, <1>d DEF GCUpdate, GCMail, GCGoes, IdleGC, Targets
  <1>5. CASE Crash
    BY <1>5 DEF Crash, IdleClick, IdleGC, Targets
  <1>6. ASSUME NEW g \in Guests, Submit(g) \/ GuestWorks(g) \/ WriteBack(g)
        PROVE  UNCHANGED <<click, gc>>
    BY <1>6 DEF GuestWorks, Submit, LoadEvents, LoadBookings, TxBegin, TxEvents,
                TxBookings, TxInsert, Accept, WriteBack
  <1>7. GCSelectFails \/ SyncUpsert \/ SyncDrop \/ Tick => UNCHANGED <<click, gc>>
    BY DEF GCSelectFails, SyncUpsert, SyncDrop, Tick
  <1>8. QED
    BY <1>1, <1>2, <1>3, <1>4, <1>5, <1>6, <1>7 DEF Next, vars

\* Only the collector writes CANCELLED, over reservations that have run out.
LEMMA NeverCancelledEarlyStep ==
  ASSUME IInv, [Next]_vars
  PROVE  NeverCancelledEarly'
  <1> SUFFICES ASSUME NEW g \in Guests, "CANCELLED" \in was'[g]
               PROVE  reserved'[g] <= now'
    BY DEF NeverCancelledEarly
  <1>a. TypeOK /\ reserved[g] \in Nat
    BY DEF IInv, TypeOK, TableType
  <1>1. CASE "CANCELLED" \in was[g]
    <2>1. reserved[g] <= now /\ status[g] # Absent
      BY <1>1 DEF IInv, NeverCancelledEarly, Safe, History
    <2>2. QED
      BY <1>a, <2>1, RowsLast
  <1>2. CASE "CANCELLED" \notin was[g]
    <2>1. gc.pc = "update" /\ g \in gc.rows
      <3> USE <1>a, <1>2 DEF env, table, tasks
      <3>1. ASSUME NEW k \in Guests, TxInsert(k) PROVE FALSE
        BY <3>1 DEF TxInsert, SetStatus, TypeOK, TableType
      <3>2. ASSUME NEW h \in Handlers, Update(h) PROVE FALSE
        <4>1. click[h].op # "CANCELLED"
          BY DEF TypeOK, ClickType
        <4>2. QED
          BY <3>2, <4>1 DEF Update, SetStatus, TypeOK, TableType
      <3>3. CASE GCUpdate
        BY <3>3 DEF GCUpdate, SetStatus, TypeOK, TableType
      <3>4. CASE UNCHANGED was
        BY <3>4
      <3>5. ASSUME NEW k \in Guests,
                   \/ Submit(k) \/ LoadEvents(k) \/ LoadBookings(k) \/ TxBegin(k)
                   \/ TxEvents(k) \/ TxBookings(k) \/ Accept(k) \/ WriteBack(k)
            PROVE  UNCHANGED was
        BY <3>5 DEF Submit, LoadEvents, LoadBookings, TxBegin, TxEvents, TxBookings,
                    Accept, WriteBack
      <3>6. ASSUME NEW h \in Handlers, Look(h) \/ Fetch(h) \/ Mail(h) \/ Return(h)
            PROVE  UNCHANGED was
        BY <3>6 DEF Look, Fetch, Mail, Return
      <3>7. GCSelect \/ GCSelectFails \/ GCMail \/ SyncUpsert \/ SyncDrop \/ Tick
              \/ Crash \/ UNCHANGED vars => UNCHANGED was
        BY DEF GCSelect, GCSelectFails, GCMail, SyncUpsert, SyncDrop, Tick, Crash, vars
      <3>8. QED
        BY <3>1, <3>2, <3>3, <3>4, <3>5, <3>6, <3>7 DEF Next, GuestWorks, ClickWorks
    <2>2. status[g] # Absent /\ reserved[g] <= now
      BY <2>1 DEF IInv, Targets
    <2>3. QED
      BY <1>a, <2>2, RowsLast
  <1>3. QED
    BY <1>1, <1>2

LEMMA InvStep == IInv /\ [Next]_vars => IInv'
  <1> SUFFICES ASSUME IInv, [Next]_vars PROVE IInv'
    OBVIOUS
  <1>1. TypeOK'
    BY TypeFrame, TypeGuest, TypeClick, TypeGC, TypeSurroundings
    DEF IInv, Next, TypeOK, vars, tasks
  <1>2. Safe'
    <2>1. CASE UNCHANGED vars
      BY <2>1, SafeQuiet DEF IInv, vars, table, env, tasks
    <2>2. CASE Next
      BY <2>2, SafeGuest, SafeClick, SafeGC, SafeSurroundings DEF Next
    <2>3. QED
      BY <2>1, <2>2
  <1>3. QED
    BY <1>1, <1>2, TargetsStep, NeverCancelledEarlyStep DEF IInv

LEMMA Invariance == Spec => []IInv
  BY InvInit, InvStep, PTL DEF Spec

\* Two active bookings of a host overlap only when one of them was confirmed
\* after it had given its slot back: requests racing for a slot, however many,
\* never both get it.
THEOREM NoOverlapWithoutRevival == Spec => []OverlapOnlyByRevival
  <1>1. IInv => OverlapOnlyByRevival
    BY DEF IInv, Safe
  <1>2. QED
    BY Invariance, <1>1, PTL

\* The collector never cancels a reservation that is still running.
THEOREM CancelledAfterReservation == Spec => []NeverCancelledEarly
  <1>1. IInv => NeverCancelledEarly
    BY DEF IInv
  <1>2. QED
    BY Invariance, <1>1, PTL

\* Who was told that the request was sent has a row, who was refused has none.
THEOREM AnswersAgree == Spec => []AnswerMatchesTable
  <1>1. IInv => AnswerMatchesTable
    BY DEF IInv, Safe, NoRowYet, AnswerMatchesTable
  <1>2. QED
    BY Invariance, <1>1, PTL
=============================================================================
