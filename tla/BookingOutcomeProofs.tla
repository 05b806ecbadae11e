------------------------ MODULE BookingOutcomeProofs ------------------------
(***************************************************************************)
(* What BookingService tells the world: where a row appears, and what      *)
(* pages, mails and the host's calendar say of it.  Both rest on the       *)
(* inductive invariant of BookingServiceProofs.                            *)
(***************************************************************************)
EXTENDS BookingServiceProofs

\* A row only appears through the INSERT of its own submission.
LEMMA OnlyInsert ==
  ASSUME IInv, [Next]_vars, NEW g \in Guests, status[g] = Absent, status'[g] # Absent
  PROVE  TxInsert(g)
  <1>a. TypeOK /\ Targets
    BY DEF IInv
  <1>b. ~UNCHANGED status
    OBVIOUS
  <1>c. ASSUME NEW rows \in SUBSET Guests, NEW st, SetStatus(rows, st) PROVE g \in rows
    BY <1>c DEF SetStatus
  <1>1. ASSUME NEW k \in Guests, TxInsert(k) PROVE TxInsert(g)
    <2>1. SetStatus({k}, "PENDING")
      BY <1>1, <1>b DEF TxInsert, table
    <2>2. QED
      BY <1>1, <1>c, <2>1
  <1>2. ASSUME NEW h \in Handlers, Update(h) PROVE FALSE
    <2>1. SetStatus({click[h].tok}, click[h].op)
      BY <1>2, <1>b DEF Update, table
    <2>2. click[h].tok \in Guests /\ status[click[h].tok] # Absent
      BY <1>2, <1>a DEF Update, Targets, TypeOK, ClickType
    <2>3. g = click[h].tok
      BY <1>c, <2>1, <2>2
    <2>4. QED
      BY <2>2, <2>3
  <1>3. ASSUME GCUpdate PROVE FALSE
    <2>1. SetStatus(gc.rows, "CANCELLED") /\ gc.rows \in SUBSET Guests
      BY <1>3, <1>a, <1>b DEF GCUpdate, table, TypeOK, GCType
    <2>2. g \in gc.rows
      BY <1>c, <2>1
    <2>3. QED
      BY <1>3, <1>a, <2>2 DEF GCUpdate, Targets
  <1>4. ASSUME NEW k \in Guests,
               \/ Submit(k) \/ LoadEvents(k) \/ LoadBookings(k) \/ TxBegin(k)
               \/ TxEvents(k) \/ TxBookings(k) \/ Accept(k) \/ WriteBack(k)
        PROVE  FALSE
    BY <1>4, <1>b
    DEF Submit, LoadEvents, LoadBookings, TxBegin, TxEvents, TxBookings, Accept,
        WriteBack, table
  <1>5. ASSUME NEW h \in Handlers, Look(h) \/ Fetch(h) \/ Mail(h) \/ Return(h) PROVE FALSE
    BY <1>5, <1>b DEF Look, Fetch, Mail, Return, table
  <1>6. ~(GCSelect \/ GCSelectFails \/ GCMail \/ SyncUpsert \/ SyncDrop \/ Tick \/ Crash)
    BY <1>b DEF GCSelect, GCSelectFails, GCMail, SyncUpsert, SyncDrop, Tick, Crash, table
  <1>7. ~UNCHANGED vars
    BY <1>b DEF vars, table
  <1>8. QED
    BY <1>1, <1>2, <1>3, <1>4, <1>5, <1>6, <1>7 DEF Next, GuestWorks, ClickWorks

\* A row appears only where no cached event and no active booking is at that
\* moment, whatever the submission saw before its transaction.
THEOREM BookedWhereFree == Spec => BookedOnFreeSlot
  <1> DEFINE A == \A g \in Guests :
                    status[g] = Absent /\ status'[g] # Absent
                      => ~EventConflict(slot[g]) /\ ~BookingConflict(slot[g])
  <1>1. IInv /\ [Next]_vars => [A]_vars
    <2> SUFFICES ASSUME IInv, [Next]_vars, NEW g \in Guests,
                        status[g] = Absent, status'[g] # Absent
                 PROVE  ~EventConflict(slot[g]) /\ ~BookingConflict(slot[g])
      BY Zenon
    <2>1. guest[g].pc = "txInsert"
      BY OnlyInsert DEF TxInsert
    <2>2. QED
      BY <2>1 DEF IInv, Safe, Checked
  <1>2. QED
    BY Invariance, <1>1, PTL DEF Spec, BookedOnFreeSlot

-----------------------------------------------------------------------------
(***************************************************************************)
(* What is said of a booking was true of it once.  The step that writes a  *)
(* status comes before everything that tells of it, and what comes in      *)
(* between only carries the verdict along.                                 *)
(***************************************************************************)

\* A verdict carried on after the UPDATE is one the row has had.
ClicksCarryTruth ==
    \A h \in Handlers :
        /\ click[h].pc \in {"fetch", "mail"} => click[h].op \in was[click[h].tok]
        /\ click[h].pc = "saidConfirmed" => "CONFIRMED" \in was[click[h].tok]

\* So is every row the collector is sending mails about.
SweepCarriesTruth == gc.pc = "mail" => \A g \in gc.rows : "CANCELLED" \in was[g]

Outcome == /\ ClicksCarryTruth /\ SweepCarriesTruth
           /\ MailsAreTrue /\ CalendarHoldsConfirmed

OInv == IInv /\ Outcome

LEMMA OutcomeInit == Init => Outcome
  BY DEF Init, Outcome, ClicksCarryTruth, SweepCarriesTruth, MailsAreTrue,
         CalendarHoldsConfirmed, IdleClick, IdleGC

\* Histories only grow (RowsLast), so each part lasts while its subject does.
LEMMA TruthLasts ==
  ASSUME OInv, [Next]_vars
  PROVE  /\ TypeOK /\ TypeOK'
         /\ UNCHANGED click => ClicksCarryTruth'
         /\ UNCHANGED gc => SweepCarriesTruth'
         /\ UNCHANGED mails => MailsAreTrue'
         /\ UNCHANGED <<remote, writers>> => CalendarHoldsConfirmed'
  <1>a. TypeOK /\ Outcome /\ \A g \in Guests : was[g] \subseteq was'[g]
    BY RowsLast DEF OInv, IInv
  <1>b. TypeOK'
    BY InvStep DEF OInv, IInv
  <1>1. ASSUME UNCHANGED click PROVE ClicksCarryTruth'
    BY <1>a, <1>1 DEF Outcome, ClicksCarryTruth, TypeOK, ClickType
  <1>2. ASSUME UNCHANGED gc PROVE SweepCarriesTruth'
    BY <1>a, <1>2 DEF Outcome, SweepCarriesTruth, TypeOK, GCType
  <1>3. ASSUME UNCHANGED mails PROVE MailsAreTrue'
    BY <1>a, <1>3 DEF Outcome, MailsAreTrue, TypeOK, WorldType
  <1>4. ASSUME UNCHANGED <<remote, writers>> PROVE CalendarHoldsConfirmed'
    BY <1>a, <1>4 DEF Outcome, CalendarHoldsConfirmed
  <1>5. QED
    BY <1>a, <1>b, <1>1, <1>2, <1>3, <1>4

LEMMA OutcomeClick ==
  ASSUME OInv, [Next]_vars, NEW h \in Handlers, Look(h) \/ ClickWorks(h)
  PROVE  Outcome'
  <1>a. /\ TypeOK /\ Outcome /\ History
        /\ \A g \in Guests : was[g] \subseteq was'[g]
    BY RowsLast DEF OInv, IInv, Safe
  <1>b. ASSUME NEW k \in Handlers, click'[k] = click[k]
        PROVE  /\ click'[k].pc \in {"fetch", "mail"} => click'[k].op \in was'[click'[k].tok]
               /\ click'[k].pc = "saidConfirmed" => "CONFIRMED" \in was'[click'[k].tok]
    BY <1>a, <1>b DEF Outcome, ClicksCarryTruth, TypeOK, ClickType
  <1>c. UNCHANGED gc
    BY DEF Look, ClickWorks, Update, Fetch, Mail, Return
  <1>1. CASE Look(h)
    <2>1. PICK g \in Guests, op \in {"CONFIRMED", "REJECTED"} :
            \/ \E pc : /\ click' = [click EXCEPT ![h] = [pc |-> pc, op |-> op, tok |-> g]]
                       /\ pc \in {"update", "saidProcessed", "saidRejected"}
            \/ /\ click' = [click EXCEPT ![h] =
                              [pc |-> "saidConfirmed", op |-> op, tok |-> g]]
               /\ status[g] = "CONFIRMED"
            \/ UNCHANGED click
      BY <1>1 DEF Look
    <2>2. UNCHANGED <<was, mails, remote, writers>>
      BY <1>1 DEF Look, table, world
    <2>3. status[g] = "CONFIRMED" => "CONFIRMED" \in was[g]
      BY <1>a DEF History, Absent
    <2>4. ClicksCarryTruth'
      BY <1>a, <1>b, <2>1, <2>2, <2>3 DEF ClicksCarryTruth, TypeOK, ClickType
    <2>5. QED
      BY <1>c, <2>2, <2>4, TruthLasts DEF Outcome
  <1>2. CASE Update(h)
    <2>1. \/ /\ click' = [click EXCEPT ![h] = [pc |-> "fetch", op |-> click[h].op, tok |-> click[h].tok]]
             /\ SetStatus({click[h].tok}, click[h].op)
          \/ click' = [click EXCEPT ![h] = IdleClick]
      BY <1>2, <1>a DEF Update, ClickGoes, TypeOK, ClickType
    <2>2. UNCHANGED <<mails, remote, writers>> /\ click[h].tok \in Guests
      BY <1>2, <1>a DEF Update, world, TypeOK, ClickType
    <2>3. SetStatus({click[h].tok}, click[h].op) => click[h].op \in was'[click[h].tok]
      BY <2>2 DEF SetStatus
    <2>4. ClicksCarryTruth'
      BY <1>a, <1>b, <2>1, <2>3 DEF ClicksCarryTruth, TypeOK, ClickType, IdleClick
    <2>5. QED
      BY <1>c, <2>2, <2>4, TruthLasts DEF Outcome
  <1>3. CASE Fetch(h)
    <2>1. \E pc \in {"mail", Reply(click[h].op)} :
            click' = [click EXCEPT ![h] = [pc |-> pc, op |-> click[h].op, tok |-> click[h].tok]]
      BY <1>3, <1>a DEF Fetch, ClickGoes, TypeOK, ClickType
    <2>2. click[h].op \in was[click[h].tok] /\ click[h].tok \in Guests
      BY <1>3, <1>a DEF Fetch, Outcome, ClicksCarryTruth, TypeOK, ClickType
    <2>3. UNCHANGED <<was, mails, remote>>
      BY <1>3 DEF Fetch, table, world
    <2>4. ClicksCarryTruth'
      BY <1>a, <1>b, <2>1, <2>2, <2>3 DEF ClicksCarryTruth, TypeOK, ClickType, Reply
    <2>5. \A g \in Guests : writers'[g] > 0 => writers[g] > 0 \/ "CONFIRMED" \in was[g]
      BY <1>3, <1>a, <2>2 DEF Fetch, TypeOK, WorldType
    <2>6. CalendarHoldsConfirmed'
      BY <1>a, <2>3, <2>5 DEF Outcome, CalendarHoldsConfirmed
    <2>7. QED
      BY <1>c, <2>3, <2>4, <2>6, TruthLasts DEF Outcome
  <1>4. CASE Mail(h)
    <2>1. click' = [click EXCEPT ![h] = [pc |-> Reply(click[h].op), op |-> click[h].op, tok |-> click[h].tok]]
      BY <1>4, <1>a DEF Mail, ClickGoes, TypeOK, ClickType
    <2>2. click[h].op \in was[click[h].tok] /\ click[h].tok \in Guests
      BY <1>4, <1>a DEF Mail, Outcome, ClicksCarryTruth, TypeOK, ClickType
    <2>3. UNCHANGED <<was, remote, writers>>
      BY <1>4 DEF Mail, table
    <2>4. ClicksCarryTruth'
      BY <1>a, <1>b, <2>1, <2>2, <2>3 DEF ClicksCarryTruth, TypeOK, ClickType, Reply
    <2>5. mails' \subseteq mails \cup {<<click[h].op, click[h].tok>>}
      BY <1>4 DEF Mail
    <2>6. MailsAreTrue'
      BY <1>a, <2>2, <2>3, <2>5 DEF Outcome, MailsAreTrue
    <2>7. QED
      BY <1>c, <2>3, <2>4, <2>6, TruthLasts DEF Outcome
  <1>5. CASE Return(h)
    <2>1. click' = [click EXCEPT ![h] = IdleClick] /\ UNCHANGED <<mails, remote, writers>>
      BY <1>5 DEF Return, world
    <2>2. ClicksCarryTruth'
      BY <1>a, <1>b, <2>1 DEF ClicksCarryTruth, TypeOK, ClickType, IdleClick
    <2>3. QED
      BY <1>c, <2>1, <2>2, TruthLasts DEF Outcome
  <1>6. QED
    BY <1>1, <1>2, <1>3, <1>4, <1>5 DEF ClickWorks

LEMMA OutcomeGC ==
  ASSUME OInv, [Next]_vars, GCSelect \/ GCSelectFails \/ GCUpdate \/ GCMail
  PROVE  Outcome'
  <1>a. /\ TypeOK /\ Outcome /\ gc.rows \in SUBSET Guests
        /\ \A g \in Guests : was[g] \subseteq was'[g]
    BY RowsLast DEF OInv, IInv, TypeOK, GCType
  <1>b. UNCHANGED <<click, remote, writers>>
    BY DEF GCSelect, GCSelectFails, GCUpdate, GCMail, world, tasks
  <1>1. CASE GCSelect \/ GCSelectFails
    <2>1. UNCHANGED mails /\ (gc' = gc \/ gc'.pc # "mail")
      BY <1>1 DEF GCSelect, GCSelectFails, GCGoes, IdleGC, world, tasks
    <2>2. SweepCarriesTruth'
      BY <2>1, TruthLasts DEF SweepCarriesTruth
    <2>3. QED
      BY <1>b, <2>1, <2>2, TruthLasts DEF Outcome
  <1>2. CASE GCUpdate
    <2>1. UNCHANGED mails
      BY <1>2 DEF GCUpdate, world
    <2>2. \/ SetStatus(gc.rows, "CANCELLED") /\ gc' = [pc |-> "mail", rows |-> gc.rows]
          \/ gc' = IdleGC
      BY <1>2 DEF GCUpdate, GCGoes
    <2>3. SweepCarriesTruth'
      BY <1>a, <2>2 DEF SweepCarriesTruth, SetStatus, IdleGC
    <2>4. QED
      BY <1>b, <2>1, <2>3, TruthLasts DEF Outcome
  <1>3. CASE GCMail
    <2>1. PICK g \in gc.rows :
            /\ gc' = IdleGC \/ gc' = [pc |-> "mail", rows |-> gc.rows \ {g}]
            /\ mails' \subseteq mails \cup {<<"CANCELLED", g>>}
      BY <1>3 DEF GCMail, GCGoes
    <2>2. \A k \in gc.rows : "CANCELLED" \in was'[k]
      BY <1>3, <1>a DEF GCMail, Outcome, SweepCarriesTruth
    <2>3. SweepCarriesTruth'
      BY <2>1, <2>2 DEF SweepCarriesTruth, IdleGC
    <2>4. MailsAreTrue'
      BY <1>a, <2>1, <2>2 DEF Outcome, MailsAreTrue, TypeOK, WorldType
    <2>5. QED
      BY <1>b, <2>3, <2>4, TruthLasts DEF Outcome
  <1>4. QED
    BY <1>1, <1>2, <1>3

LEMMA OutcomeOthers ==
  ASSUME OInv, [Next]_vars,
         \/ \E g \in Guests : Submit(g) \/ GuestWorks(g) \/ WriteBack(g)
         \/ SyncUpsert \/ SyncDrop \/ Tick \/ Crash
         \/ UNCHANGED vars
  PROVE  Outcome'
  <1>1. ASSUME NEW g \in Guests, Submit(g) \/ GuestWorks(g) PROVE Outcome'
    <2>1. UNCHANGED <<click, gc, mails, remote, writers>>
      BY <1>1 DEF Submit, GuestWorks, LoadEvents, LoadBookings, TxBegin, TxEvents,
                  TxBookings, TxInsert, Accept, world
    <2>2. QED
      BY <2>1, TruthLasts DEF Outcome
  <1>2. ASSUME NEW g \in Guests, WriteBack(g) PROVE Outcome'
    <2>1. /\ UNCHANGED <<click, gc, mails, was>>
          /\ writers[g] > 0
          /\ remote' \subseteq remote \cup {g}
          /\ \A k \in Guests : writers'[k] > 0 => writers[k] > 0
      BY <1>2, TruthLasts DEF WriteBack, table, TypeOK, WorldType
    <2>2. CalendarHoldsConfirmed'
      BY <2>1 DEF OInv, Outcome, CalendarHoldsConfirmed
    <2>3. QED
      BY <2>1, <2>2, TruthLasts DEF Outcome
  <1>3. CASE SyncUpsert \/ SyncDrop \/ Tick \/ UNCHANGED vars
    BY <1>3, TruthLasts DEF SyncUpsert, SyncDrop, Tick, vars, tasks, world, Outcome
  <1>4. CASE Crash
    <2>1. /\ UNCHANGED <<mails, remote, was>>
          /\ \A h \in Handlers : click'[h] = IdleClick
          /\ gc' = IdleGC
          /\ \A g \in Guests : writers'[g] = 0
      BY <1>4 DEF Crash, world, table
    <2>2. ClicksCarryTruth' /\ SweepCarriesTruth'
      BY <2>1 DEF ClicksCarryTruth, SweepCarriesTruth, IdleClick, IdleGC
    <2>3. CalendarHoldsConfirmed'
      BY <2>1 DEF OInv, Outcome, CalendarHoldsConfirmed
    <2>4. QED
      BY <2>1, <2>2, <2>3, TruthLasts DEF Outcome
  <1>5. QED
    BY <1>1, <1>2, <1>3, <1>4

LEMMA OutcomeInvariance == Spec => []OInv
  <1>1. Init => OInv
    BY InvInit, OutcomeInit DEF OInv
  <1>2. OInv /\ [Next]_vars => OInv'
    <2> SUFFICES ASSUME OInv, [Next]_vars PROVE OInv'
      OBVIOUS
    <2>1. IInv'
      BY InvStep DEF OInv
    <2>2. Outcome'
      BY OutcomeClick, OutcomeGC, OutcomeOthers DEF Next
    <2>3. QED
      BY <2>1, <2>2 DEF OInv
  <1>3. QED
    BY <1>1, <1>2, PTL DEF Spec

\* No guest is mailed an outcome the booking never had.
THEOREM MailsTellTruth == Spec => []MailsAreTrue
  <1>1. OInv => MailsAreTrue
    BY DEF OInv, Outcome
  <1>2. QED
    BY OutcomeInvariance, <1>1, PTL

\* Only bookings that were confirmed reach the host's calendar, or are on the
\* way there.
THEOREM CalendarTellsTruth == Spec => []CalendarHoldsConfirmed
  <1>1. OInv => CalendarHoldsConfirmed
    BY DEF OInv, Outcome
  <1>2. QED
    BY OutcomeInvariance, <1>1, PTL

\* "Booking confirmed." is only said of a booking that was confirmed.
THEOREM ConfirmTellsTruth == Spec => []ConfirmReplyIsTrue
  <1>1. OInv => ConfirmReplyIsTrue
    BY DEF OInv, Outcome, ClicksCarryTruth, ConfirmReplyIsTrue
  <1>2. QED
    BY OutcomeInvariance, <1>1, PTL

-----------------------------------------------------------------------------
(***************************************************************************)
(* Who keeps the connection, and for how long.                             *)
(***************************************************************************)

\* The connection is kept by nobody but a submission inside its transaction: with
\* Holder, the two say the same.
KeptInTx == \A g \in Guests : conn = g => guest[g].pc \in TxPcs

\* While g keeps the connection, others leave it alone, and a step of g gives it back
\* or is the next one of the transaction.
MovesOn(g) ==
    conn = g =>
        \/ conn' = Free
        \/ conn' = g /\ ~GuestWorks(g) /\ guest'[g] = guest[g]
        \/ /\ conn' = g
           /\ <<guest[g].pc, guest'[g].pc>> \in
                {<<"txEvents", "txBookings">>, <<"txBookings", "txInsert">>}

\* A step of a guest other than those of the transaction takes no connection.
LEMMA GuestsConnection ==
  ASSUME IInv, KeptInTx, NEW k \in Guests, Submit(k) \/ GuestWorks(k)
  PROVE  /\ \A g \in Guests \ {k} : guest'[g] = guest[g]
         /\ \/ conn' = Free
            \/ conn' = conn /\ conn # k
            \/ conn' = k /\ Connected /\ guest'[k].pc = "txEvents"
            \/ /\ conn = k /\ conn' = k
               /\ <<guest[k].pc, guest'[k].pc>> \in
                    {<<"txEvents", "txBookings">>, <<"txBookings", "txInsert">>}
  <1>a. guest \in [Guests -> [pc : GuestPcs, seen : Nat]] /\ Holder
    BY DEF IInv, TypeOK, GuestType, Safe
  <1>b. guest[k].pc \notin TxPcs => conn # k
    BY DEF KeptInTx
  <1> USE <1>a, <1>b DEF TxPcs
  <1>1. CASE Submit(k)
    BY <1>1 DEF Submit, GuestGoes, GuestStamps
  <1>2. CASE LoadEvents(k) \/ LoadBookings(k) \/ Accept(k)
    BY <1>2 DEF LoadEvents, LoadBookings, Accept, GuestGoes, GuestKeeps, GuestStamps
  <1>3. CASE TxBegin(k)
    BY <1>3 DEF TxBegin, GuestGoes
  <1>4. CASE TxEvents(k) \/ TxBookings(k) \/ TxInsert(k)
    BY <1>4 DEF TxEvents, TxBookings, TxInsert, Rollback, GuestGoes, Holder
  <1>5. QED
    BY <1>1, <1>2, <1>3, <1>4 DEF GuestWorks

\* No other step but the end of the process touches a guest or the connection.
LEMMA OthersConnection ==
  ASSUME [Next]_vars, \A k \in Guests : ~(Submit(k) \/ GuestWorks(k))
  PROVE  UNCHANGED <<conn, guest>> \/ Crash
  <1>1. ASSUME NEW g \in Guests, WriteBack(g) PROVE UNCHANGED <<conn, guest>>
    BY <1>1 DEF WriteBack
  <1>2. ASSUME NEW h \in Handlers, Look(h) \/ ClickWorks(h)
        PROVE  UNCHANGED <<conn, guest>>
    BY <1>2 DEF Look, ClickWorks, Update, Fetch, Mail, Return
  <1>3. CASE GCSelect \/ GCSelectFails \/ GCUpdate \/ GCMail
    BY <1>3 DEF GCSelect, GCSelectFails, GCUpdate, GCMail, tasks
  <1>4. CASE SyncUpsert \/ SyncDrop \/ Tick \/ UNCHANGED vars
    BY <1>4 DEF SyncUpsert, SyncDrop, Tick, tasks, vars
  <1>5. QED
    BY <1>1, <1>2, <1>3, <1>4 DEF Next

LEMMA KeptInTxStep == IInv /\ KeptInTx /\ [Next]_vars => KeptInTx'
  <1> SUFFICES ASSUME IInv, KeptInTx, [Next]_vars PROVE KeptInTx'
    OBVIOUS
  <1>1. ASSUME NEW k \in Guests, Submit(k) \/ GuestWorks(k) PROVE KeptInTx'
    BY <1>1, GuestsConnection, NamesAssumption DEF KeptInTx, TxPcs
  <1>2. CASE UNCHANGED <<conn, guest>>
    BY <1>2 DEF KeptInTx
  <1>3. CASE Crash
    BY <1>3, NamesAssumption DEF Crash, KeptInTx
  <1>4. QED
    BY <1>1, <1>2, <1>3, OthersConnection

\* The one connection comes back (SetMaxOpenConns(1), db.go:31; the deferred Rollback,
\* bookings.go:35): only a submission inside its transaction keeps it, no step but the
\* end of the process takes it away, and each of its own steps gives it back or goes
\* on to a later statement, of which there are three.  Those who wait wait for nobody
\* who waits.
THEOREM ConnectionComesBack ==
  Spec => []KeptInTx /\ [][\A g \in Guests : MovesOn(g)]_vars
  <1>1. Init => KeptInTx
    BY NamesAssumption DEF Init, KeptInTx
  <1>2. IInv /\ KeptInTx /\ [Next]_vars => [\A g \in Guests : MovesOn(g)]_vars
    <2> SUFFICES ASSUME IInv, KeptInTx, [Next]_vars, NEW g \in Guests, conn = g
                 PROVE  MovesOn(g)
      BY DEF MovesOn
    <2>1. CASE Submit(g) \/ GuestWorks(g)
      BY <2>1, GuestsConnection, NamesAssumption DEF MovesOn, Connected
    <2>2. ASSUME NEW k \in Guests \ {g}, Submit(k) \/ GuestWorks(k),
                 ~GuestWorks(g)
          PROVE  MovesOn(g)
      BY <2>2, GuestsConnection, NamesAssumption DEF MovesOn, Connected
    <2>3. CASE UNCHANGED <<conn, guest>> /\ ~GuestWorks(g)
      BY <2>3 DEF MovesOn
    <2>4. CASE Crash
      BY <2>4 DEF MovesOn, Crash
    <2>5. QED
      BY <2>1, <2>2, <2>3, <2>4, OthersConnection
  <1>3. QED
    BY <1>1, <1>2, KeptInTxStep, Invariance, PTL DEF Spec
=============================================================================
