---------------------- MODULE BookingRefinementProofs ----------------------
(***************************************************************************)
(* BookingService implements BookingLifecycle: every step of the goroutines*)
(* is a request, a verdict, the effect of a verdict, the loss of one, or   *)
(* nothing at all to the bookings.                                         *)
(***************************************************************************)
EXTENDS BookingServiceProofs

\* The two expressions the refinement mapping of BookingService substitutes.
MappedInterval == [g \in Guests |-> IF status[g] = Absent THEN NoOffer ELSE slot[g]]
ClickVerdicts  == {<<click[h].tok, click[h].op>> :
                     h \in {x \in Handlers : click[x].pc = "update"}}
SweepVerdicts  == IF gc.pc = "update" THEN gc.rows \X {"CANCELLED"} ELSE {}
MappedVerdicts == ClickVerdicts \cup SweepVerdicts

LStep == [Lifecycle!Next]_(Lifecycle!vars)

\* A submission under way names an offer.
Chosen == \A g \in Guests : InFlight(g) => slot[g] \in Offers

LEMMA ChosenInvariance == Spec => []Chosen
  <1>1. Init => Chosen
    BY DEF Init, Chosen, InFlight
  <1>2. IInv /\ Chosen /\ [Next]_vars => Chosen'
    <2> SUFFICES ASSUME IInv, Chosen, [Next]_vars PROVE Chosen'
      OBVIOUS
    <2>a. TypeOK
      BY DEF IInv
    <2>b. ASSUME UNCHANGED <<slot, guest>> PROVE Chosen'
      BY <2>b DEF Chosen, InFlight
    <2>1. ASSUME NEW g \in Guests, Submit(g) PROVE Chosen'
      <3>1. \/ \E s \in Offers : slot' = [slot EXCEPT ![g] = s]
            \/ UNCHANGED slot /\ GuestGoes(g, "refused")
        BY <2>1 DEF Submit
      <3>2. \A k \in Guests : k # g => guest'[k] = guest[k]
        BY <2>1, <2>a DEF Submit, GuestStamps, GuestGoes, TypeOK, GuestType
      <3>3. QED
        BY <2>a, <3>1, <3>2 DEF Chosen, InFlight, GuestGoes, TypeOK, GuestType, TableType
    <2>2. ASSUME NEW g \in Guests, GuestWorks(g) PROVE Chosen'
      <3>1. InFlight(g) /\ UNCHANGED slot
        BY <2>2 DEF GuestWorks, InFlight, LoadEvents, LoadBookings, TxBegin, TxEvents,
                    TxBookings, TxInsert, Accept, SetStatus, table
      <3>2. \A k \in Guests : k # g => guest'[k] = guest[k]
        BY <2>2, <2>a DEF GuestWorks, LoadEvents, LoadBookings, TxBegin, TxEvents,
                    TxBookings, TxInsert, Accept, Rollback, GuestGoes, GuestKeeps,
                    TypeOK, GuestType
      <3>3. QED
        BY <3>1, <3>2 DEF Chosen, InFlight
    <2>3. ASSUME NEW h \in Handlers, Look(h) \/ ClickWorks(h) PROVE Chosen'
      BY <2>3, <2>b DEF Look, ClickWorks, Update, Fetch, Mail, Return, SetStatus, table
    <2>4. CASE GCSelect \/ GCSelectFails \/ GCUpdate \/ GCMail
      BY <2>4, <2>b DEF GCSelect, GCSelectFails, GCUpdate, GCMail, SetStatus, table, tasks
    <2>5. ASSUME \/ \E g \in Guests : WriteBack(g)
                 \/ SyncUpsert \/ SyncDrop \/ Tick \/ UNCHANGED vars
          PROVE  Chosen'
      BY <2>5, <2>b DEF WriteBack, SyncUpsert, SyncDrop, Tick, vars, table, tasks
    <2>6. CASE Crash
      BY <2>6, <2>a DEF Crash, Chosen, InFlight, table, TypeOK, GuestType
    <2>7. QED
      BY <2>1, <2>2, <2>3, <2>4, <2>5, <2>6 DEF Next
  <1>3. QED
    BY Invariance, <1>1, <1>2, PTL DEF Spec

-----------------------------------------------------------------------------
LEMMA RefinesInit == Init => Lifecycle!Init
  BY DEF Init, Lifecycle!Init, IdleClick, IdleGC, Lifecycle!Absent, Absent

\* The interval of the lifecycle is that of the row: while rows stay what they
\* are it does not move.
LEMMA IntervalRests ==
  ASSUME TypeOK,
         \A g \in Guests : /\ (status'[g] = Absent) <=> (status[g] = Absent)
                           /\ status[g] # Absent => slot'[g] = slot[g]
  PROVE  MappedInterval' = MappedInterval
  BY DEF MappedInterval

\* A step that writes no status and reaches no verdict.
LEMMA QuietRefines ==
  ASSUME TypeOK, UNCHANGED status,
         \A g \in Guests : status[g] # Absent => slot'[g] = slot[g],
         MappedVerdicts' \subseteq MappedVerdicts
  PROVE  LStep
  <1>1. MappedInterval' = MappedInterval
    BY IntervalRests
  <1>2. Lifecycle!Forget
    BY <1>1 DEF Lifecycle!Forget, MappedInterval, MappedVerdicts, ClickVerdicts, SweepVerdicts
  <1>3. QED
    BY <1>2 DEF LStep, Lifecycle!Next

\* A submission inserts its row: a request of the lifecycle.
LEMMA InsertRefines ==
  ASSUME IInv, Chosen, NEW g \in Guests, TxInsert(g), SetStatus({g}, "PENDING"),
         UNCHANGED <<click, gc>>
  PROVE  LStep
  <1>a. TypeOK /\ Checked /\ status[g] = Absent /\ slot[g] \in Offers
    BY DEF IInv, Safe, NoRowYet, BeforeRow, TxPcs, TxInsert, Chosen, InFlight
  <1>1. ~\E b \in Guests : status[b] \in Active /\ Overlaps(MappedInterval[b], slot[g])
    <2>1. \A b \in Guests : status[b] \in Active => MappedInterval[b] = slot[b]
      BY DEF MappedInterval, Active, Absent
    <2>2. QED
      BY <1>a, <2>1 DEF Checked, BookingConflict, TxInsert
  <1>2. MappedInterval' = [MappedInterval EXCEPT ![g] = slot[g]]
    BY <1>a DEF MappedInterval, SetStatus, Absent
  <1>3. status' = [status EXCEPT ![g] = "PENDING"]
    BY <1>a DEF SetStatus, TypeOK, TableType
  <1>4. MappedVerdicts' = MappedVerdicts
    BY DEF MappedVerdicts, ClickVerdicts, SweepVerdicts
  <1>5. Lifecycle!Request(g)
    BY <1>a, <1>1, <1>2, <1>3, <1>4
    DEF Lifecycle!Request, Lifecycle!Taken, Lifecycle!Active, Lifecycle!Overlaps,
        Lifecycle!Absent, Active, Absent, Overlaps,
        MappedInterval, MappedVerdicts, ClickVerdicts, SweepVerdicts
  <1>6. QED
    BY <1>5 DEF LStep, Lifecycle!Next

\* Somebody reaches a verdict on bookings that are PENDING.
LEMMA JudgeRefines ==
  ASSUME TypeOK, NEW bs \in SUBSET Guests, NEW st \in Terminal,
         \A b \in bs : status[b] = "PENDING", UNCHANGED <<status, slot>>,
         MappedVerdicts' = MappedVerdicts \cup (bs \X {st})
  PROVE  LStep
  <1>1. MappedInterval' = MappedInterval
    BY DEF MappedInterval
  <1>2. Lifecycle!Judge(bs, st)
    BY <1>1 DEF Lifecycle!Judge, MappedInterval, MappedVerdicts, ClickVerdicts, SweepVerdicts
  <1>3. QED
    BY <1>2 DEF LStep, Lifecycle!Next, Lifecycle!Terminal, Terminal

\* A verdict reached earlier takes effect.
LEMMA EnforceRefines ==
  ASSUME TypeOK, NEW bs \in SUBSET Guests, NEW st \in Terminal,
         \A b \in bs : status[b] # Absent, SetStatus(bs, st),
         bs \X {st} \subseteq MappedVerdicts,
         MappedVerdicts' \subseteq MappedVerdicts
  PROVE  LStep
  <1>1. MappedInterval' = MappedInterval
    BY IntervalRests DEF SetStatus, Terminal, Absent
  <1>2. Lifecycle!Enforce(bs, st)
    BY <1>1 DEF Lifecycle!Enforce, SetStatus, MappedInterval, MappedVerdicts,
                ClickVerdicts, SweepVerdicts
  <1>3. QED
    BY <1>2 DEF LStep, Lifecycle!Next, Lifecycle!Terminal, Terminal

-----------------------------------------------------------------------------
LEMMA GuestRefines ==
  ASSUME IInv, Chosen, NEW g \in Guests, Submit(g) \/ GuestWorks(g)
  PROVE  LStep
  <1>a. TypeOK
    BY DEF IInv
  <1>1. UNCHANGED <<click, gc>>
    BY DEF Submit, GuestWorks, LoadEvents, LoadBookings, TxBegin, TxEvents, TxBookings,
           TxInsert, Accept
  <1>2. MappedVerdicts' = MappedVerdicts
    BY <1>1 DEF MappedVerdicts, ClickVerdicts, SweepVerdicts
  <1>3. CASE TxInsert(g) /\ SetStatus({g}, "PENDING")
    BY <1>1, <1>3, InsertRefines
  <1>4. CASE ~(TxInsert(g) /\ SetStatus({g}, "PENDING"))
    <2>1. UNCHANGED status
      BY <1>4 DEF Submit, GuestWorks, LoadEvents, LoadBookings, TxBegin, TxEvents,
                  TxBookings, TxInsert, Accept, table
    <2>2. \A k \in Guests : status[k] # Absent => slot'[k] = slot[k]
      <3>1. CASE Submit(g)
        <4>1. status[g] = Absent
          BY <3>1 DEF Submit, IInv, Safe, NoRowYet, BeforeRow
        <4>2. QED
          BY <3>1, <4>1, <1>a DEF Submit, TypeOK, TableType
      <3>2. CASE GuestWorks(g)
        BY <3>2, <1>4 DEF GuestWorks, LoadEvents, LoadBookings, TxBegin, TxEvents,
                          TxBookings, TxInsert, Accept, table
      <3>3. QED
        BY <3>1, <3>2
    <2>3. QED
      BY <1>a, <1>2, <2>1, <2>2, QuietRefines
  <1>5. QED
    BY <1>3, <1>4

LEMMA ClickRefines ==
  ASSUME IInv, NEW h \in Handlers, Look(h) \/ ClickWorks(h)
  PROVE  LStep
  <1>a. TypeOK /\ Targets /\ UNCHANGED gc
    BY DEF IInv, Look, ClickWorks, Update, Fetch, Mail, Return
  <1>b. SweepVerdicts' = SweepVerdicts
    BY <1>a DEF SweepVerdicts
  <1>c. ASSUME UNCHANGED <<status, slot>>, click'[h].pc # "update",
               \A k \in Handlers : k # h => click'[k] = click[k]
        PROVE  LStep
    <2>1. ClickVerdicts' \subseteq ClickVerdicts
      BY <1>c DEF ClickVerdicts
    <2>2. QED
      BY <1>a, <1>b, <1>c, <2>1, QuietRefines DEF MappedVerdicts
  <1>1. CASE Look(h)
    <2>1. PICK g \in Guests, op \in {"CONFIRMED", "REJECTED"} :
            \/ /\ status[g] = "PENDING"
               /\ click' = [click EXCEPT ![h] = [pc |-> "update", op |-> op, tok |-> g]]
            \/ \E pc \in Said :
                 click' = [click EXCEPT ![h] = [pc |-> pc, op |-> op, tok |-> g]]
            \/ UNCHANGED click
      BY <1>1 DEF Look, Said
    <2>2. click[h].pc = "idle" /\ UNCHANGED <<status, slot>>
      BY <1>1 DEF Look, table
    <2>3. CASE /\ status[g] = "PENDING"
               /\ click' = [click EXCEPT ![h] = [pc |-> "update", op |-> op, tok |-> g]]
      <3>1. ClickVerdicts' = ClickVerdicts \cup {<<g, op>>}
        <4>1. /\ click'[h].pc = "update" /\ click'[h].tok = g /\ click'[h].op = op
              /\ \A k \in Handlers : k # h => click'[k] = click[k]
          BY <2>3, <1>a DEF TypeOK, ClickType
        <4>2. QED
          BY <4>1, <2>2 DEF ClickVerdicts
      <3>2. {g} \X {op} = {<<g, op>>}
        OBVIOUS
      <3>3. MappedVerdicts' = MappedVerdicts \cup ({g} \X {op})
        BY <1>b, <3>1, <3>2 DEF MappedVerdicts
      <3>4. {g} \in SUBSET Guests /\ op \in Terminal /\ \A b \in {g} : status[b] = "PENDING"
        BY <2>3 DEF Terminal
      <3>5. QED
        BY <1>a, <2>2, <3>3, <3>4, JudgeRefines
    <2>4. CASE \/ \E pc \in Said :
                    click' = [click EXCEPT ![h] = [pc |-> pc, op |-> op, tok |-> g]]
               \/ UNCHANGED click
      BY <1>a, <1>c, <2>2, <2>4 DEF Said, TypeOK, ClickType
    <2>5. QED
      BY <2>1, <2>3, <2>4
  <1>2. CASE Update(h)
    <2>1. \/ /\ SetStatus({click[h].tok}, click[h].op)
             /\ click'[h].pc = "fetch"
          \/ UNCHANGED <<status, slot>> /\ click'[h].pc = "idle"
      BY <1>2, <1>a DEF Update, ClickGoes, IdleClick, TypeOK, ClickType, table
    <2>2. \A k \in Handlers : k # h => click'[k] = click[k]
      BY <1>2, <1>a DEF Update, ClickGoes, TypeOK, ClickType
    <2>3. /\ click[h].pc = "update"
          /\ click[h].tok \in Guests /\ click[h].op \in Terminal
          /\ status[click[h].tok] # Absent
      BY <1>2, <1>a DEF Update, Targets, TypeOK, ClickType, Terminal
    <2>4. CASE SetStatus({click[h].tok}, click[h].op) /\ click'[h].pc = "fetch"
      <3>1. ClickVerdicts' \subseteq ClickVerdicts
        BY <2>2, <2>4 DEF ClickVerdicts
      <3>2. {click[h].tok} \X {click[h].op} \subseteq ClickVerdicts
        BY <2>3 DEF ClickVerdicts
      <3>3. QED
        BY <1>a, <1>b, <2>3, <2>4, <3>1, <3>2, EnforceRefines DEF MappedVerdicts
    <2>5. QED
      BY <1>c, <2>1, <2>2, <2>4
  <1>3. CASE Fetch(h) \/ Mail(h) \/ Return(h)
    <2>1. UNCHANGED <<status, slot>>
      BY <1>3 DEF Fetch, Mail, Return, table
    <2>2. click'[h].pc # "update" /\ \A k \in Handlers : k # h => click'[k] = click[k]
      BY <1>3, <1>a DEF Fetch, Mail, Return, ClickGoes, Reply, IdleClick, TypeOK, ClickType
    <2>3. QED
      BY <1>c, <2>1, <2>2
  <1>4. QED
    BY <1>1, <1>2, <1>3 DEF ClickWorks

LEMMA GCRefines ==
  ASSUME IInv, GCSelect \/ GCSelectFails \/ GCUpdate \/ GCMail
  PROVE  LStep
  <1>a. TypeOK /\ Targets /\ gc.rows \in SUBSET Guests
    BY DEF IInv, TypeOK, GCType
  <1>b. ClickVerdicts' = ClickVerdicts
    BY DEF GCSelect, GCSelectFails, GCUpdate, GCMail, tasks, ClickVerdicts
  <1>c. ASSUME UNCHANGED <<status, slot>>, SweepVerdicts' \subseteq SweepVerdicts PROVE LStep
    BY <1>a, <1>b, <1>c, QuietRefines DEF MappedVerdicts
  <1>1. CASE GCSelect
    <2>1. UNCHANGED <<status, slot>> /\ SweepVerdicts = {}
      BY <1>1 DEF GCSelect, SweepVerdicts, table
    <2>2. \/ gc' = [pc |-> "update", rows |-> ExpiredRows]
          \/ gc' = IdleGC
      BY <1>1 DEF GCSelect, GCGoes
    <2>3. CASE gc' = IdleGC
      BY <1>c, <2>1, <2>3 DEF SweepVerdicts, IdleGC
    <2>4. CASE gc' = [pc |-> "update", rows |-> ExpiredRows]
      <3>1. SweepVerdicts' = ExpiredRows \X {"CANCELLED"}
        BY <2>4 DEF SweepVerdicts
      <3>2. MappedVerdicts' = MappedVerdicts \cup (ExpiredRows \X {"CANCELLED"})
        BY <1>b, <2>1, <3>1 DEF MappedVerdicts
      <3>3. /\ ExpiredRows \in SUBSET Guests /\ "CANCELLED" \in Terminal
            /\ \A b \in ExpiredRows : status[b] = "PENDING"
        BY DEF ExpiredRows, Expired, Terminal
      <3>4. QED
        BY <1>a, <2>1, <3>2, <3>3, JudgeRefines
    <2>5. QED
      BY <2>2, <2>3, <2>4
  <1>2. CASE GCUpdate
    <2>1. \/ SetStatus(gc.rows, "CANCELLED") \/ UNCHANGED <<status, slot>>
      BY <1>2 DEF GCUpdate, table
    <2>2. SweepVerdicts = gc.rows \X {"CANCELLED"} /\ SweepVerdicts' = {}
      BY <1>2 DEF GCUpdate, GCGoes, IdleGC, SweepVerdicts
    <2>3. CASE SetStatus(gc.rows, "CANCELLED")
      <3>1. "CANCELLED" \in Terminal /\ \A b \in gc.rows : status[b] # Absent
        BY <1>2, <1>a DEF GCUpdate, Targets, Terminal
      <3>2. /\ gc.rows \X {"CANCELLED"} \subseteq MappedVerdicts
            /\ MappedVerdicts' \subseteq MappedVerdicts
        BY <1>b, <2>2 DEF MappedVerdicts
      <3>3. QED
        BY <1>a, <2>3, <3>1, <3>2, EnforceRefines
    <2>4. QED
      BY <1>c, <2>1, <2>2, <2>3
  <1>3. CASE GCSelectFails \/ GCMail
    <2>1. UNCHANGED <<status, slot>>
      BY <1>3 DEF GCSelectFails, GCMail, table
    <2>2. SweepVerdicts' \subseteq SweepVerdicts
      BY <1>3 DEF GCSelectFails, GCMail, GCGoes, IdleGC, SweepVerdicts, tasks
    <2>3. QED
      BY <1>c, <2>1, <2>2
  <1>4. QED
    BY <1>1, <1>2, <1>3

LEMMA OthersRefine ==
  ASSUME IInv,
         \/ \E g \in Guests : WriteBack(g)
         \/ SyncUpsert \/ SyncDrop \/ Tick \/ Crash
         \/ UNCHANGED vars
  PROVE  LStep
  <1>1. TypeOK /\ UNCHANGED <<status, slot>>
    BY DEF IInv, WriteBack, SyncUpsert, SyncDrop, Tick, Crash, vars, table
  <1>2. \/ UNCHANGED <<click, gc>>
        \/ gc' = IdleGC /\ \A h \in Handlers : click'[h] = IdleClick
    BY DEF WriteBack, SyncUpsert, SyncDrop, Tick, Crash, vars, tasks
  <1>3. MappedVerdicts' \subseteq MappedVerdicts
    BY <1>2 DEF MappedVerdicts, ClickVerdicts, SweepVerdicts, IdleGC, IdleClick
  <1>4. QED
    BY <1>1, <1>3, QuietRefines

\* The service implements the lifecycle: requests are entered on intervals no
\* active booking overlaps, and a status is only overwritten with a verdict
\* reached while the booking was PENDING.
THEOREM ServiceRefinesLifecycle == Spec => ImplementsLifecycle
  <1>1. IInv /\ Chosen /\ [Next]_vars => [Lifecycle!Next]_(Lifecycle!vars)
    <2> SUFFICES ASSUME IInv, Chosen, [Next]_vars PROVE LStep
      BY DEF LStep
    <2>1. QED
      BY GuestRefines, ClickRefines, GCRefines, OthersRefine DEF Next
  <1>2. QED
    BY Invariance, ChosenInvariance, RefinesInit, <1>1, PTL
    DEF Spec, ImplementsLifecycle, Lifecycle!Spec
=============================================================================
