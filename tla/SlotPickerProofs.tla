--------------------------- MODULE SlotPickerProofs ---------------------------
(***************************************************************************)
(* Theorems about SlotPicker: what CalculateSlots computes, what the slots *)
(* of a page are worth, which forms get through and which dates are named, *)
(* for every zone, rule, duration and window.                              *)
(***************************************************************************)
EXTENDS SlotPicker, TLAPS

-----------------------------------------------------------------------------
(***************************************************************************)
(* Multiples of a duration.                                                *)
(***************************************************************************)

LEMMA Multiple ==
    ASSUME NEW x \in Int, NEW d \in Nat \ {0}, x % d = 0
    PROVE  \E q \in Int : x = q * d
  <1>1. x = ((x \div d) * d) + (x % d)
    BY SMT
  <1>2. x = (x \div d) * d
    BY <1>1, SMT
  <1>3. x \div d \in Int
    BY SMT
  <1>4. QED
    <2> WITNESS x \div d \in Int
    <2>1. QED
      BY <1>2

LEMMA MultipleMod ==
    ASSUME NEW q \in Int, NEW d \in Nat \ {0}
    PROVE  (q * d) % d = 0
  BY SMT

\* A step of d leads from one multiple of d to the next.
LEMMA NextMultiple ==
    ASSUME NEW x \in Int, NEW d \in Nat \ {0}, x % d = 0
    PROVE  (x + d) % d = 0
  <1>1. PICK q \in Int : x = q * d
    BY Multiple
  <1>2. x + d = (q + 1) * d
    BY <1>1, SMT
  <1>3. q + 1 \in Int
    OBVIOUS
  <1>4. QED
    BY <1>2, <1>3, MultipleMod

\* Between two multiples of d there is no third.
LEMMA NoMultipleBetween ==
    ASSUME NEW x \in Int, NEW y \in Int, NEW d \in Nat \ {0},
           x % d = 0, y % d = 0, x <= y, y < x + d
    PROVE  x = y
  <1>1. PICK q \in Int : x = q * d
    BY Multiple
  <1>2. PICK p \in Int : y = p * d
    BY Multiple
  <1>3. q <= p
    <2> SUFFICES ASSUME p + 1 <= q PROVE FALSE
      BY SMT
    <2>1. (p + 1) * d <= q * d
      BY SMT
    <2>2. QED
      BY <2>1, <1>1, <1>2, SMT
  <1>4. p <= q
    <2> SUFFICES ASSUME q + 1 <= p PROVE FALSE
      BY SMT
    <2>1. (q + 1) * d <= p * d
      BY SMT
    <2>2. QED
      BY <2>1, <1>1, <1>2, SMT
  <1>5. QED
    BY <1>1, <1>2, <1>3, <1>4

LEMMA DivIs ==
    ASSUME NEW x \in Int, NEW q \in Int, NEW d \in Nat \ {0}, q * d <= x, x < q * d + d
    PROVE  x \div d = q /\ x % d = x - q * d
  <1> DEFINE p == x \div d
  <1>1. p \in Int /\ x = (p * d) + (x % d) /\ x % d \in 0 .. d - 1
    BY SMT
  <1>2. p * d <= x /\ x < p * d + d
    BY <1>1
  <1>3. p <= q
    <2> SUFFICES ASSUME q + 1 <= p PROVE FALSE
      BY <1>1
    <2>1. (q + 1) * d <= p * d
      BY <1>1, SMT
    <2>2. q * d + d <= p * d
      BY <2>1, SMT
    <2>3. QED
      BY <1>1, <1>2, <2>2
  <1>4. q <= p
    <2> SUFFICES ASSUME p + 1 <= q PROVE FALSE
      BY <1>1
    <2>1. (p + 1) * d <= q * d
      BY <1>1, SMT
    <2>2. p * d + d <= q * d
      BY <1>1, <2>1, SMT
    <2>3. QED
      BY <1>1, <1>2, <2>2
  <1>5. p = q
    BY <1>1, <1>3, <1>4
  <1>6. QED
    BY <1>1, <1>5

LEMMA DivBounds ==
    ASSUME NEW x \in Int, NEW d \in Nat \ {0}
    PROVE  /\ x \div d \in Int
           /\ (x \div d) * d <= x /\ x < (x \div d) * d + d
           /\ x % d = x - (x \div d) * d
  <1>1. x \div d \in Int /\ x = ((x \div d) * d) + (x % d) /\ x % d \in 0 .. d - 1
    BY SMT
  <1>2. (x \div d) * d \in Int
    BY <1>1
  <1>3. QED
    BY <1>1, <1>2

-----------------------------------------------------------------------------
(***************************************************************************)
(* The inductive invariant.                                                *)
(***************************************************************************)

\* The tables stay what they were.
Settled ==
    /\ zone \in Zones
    /\ rules \in [0 .. WeekLen - 1 -> Rules]
    /\ busy \subseteq Busy
    /\ booked \subseteq Bookings
    /\ duration \in Durations
    /\ window \in Windows
    /\ now \in Now

Counted ==
    /\ pc \in {"idle", "loop", "filter", "picked", "accepted", "unavailable"}
    /\ left \in Int
    /\ dates \subseteq Int
    /\ day \in Int
    /\ at \in Int
    /\ candidates \subseteq Int
    /\ slots \subseteq Int

\* The pieces of the rule of a date.
Pieces(d) ==
    {s \in Int : /\ RuleStart(d) <= s /\ s + duration <= RuleEnd(d)
                 /\ duration > 0 /\ (s - RuleStart(d)) % duration = 0}

\* The loop stands at a piece's start and has taken those before it; or the duration
\* cuts nothing, and the loop has just begun or stands where it cannot leave.  The
\* filter is reached with all pieces, or with none when the rule is off.
Cut ==
    /\ pc = "loop" => RuleApplies(day)
    /\ pc = "loop" /\ duration > 0 =>
         /\ RuleStart(day) <= at /\ (at - RuleStart(day)) % duration = 0
         /\ candidates = {s \in Pieces(day) : s < at}
    /\ pc = "loop" /\ duration <= 0 =>
         candidates = {} \/ at + duration <= RuleEnd(day)
    /\ pc = "filter" => candidates = IF RuleApplies(day) THEN Pieces(day) ELSE {}

\* A request works on the rows its tables hold for its time.
Fresh == pc # "idle" => loaded = Loaded

\* What a page shows or a form is compared with.
Shown ==
    /\ pc \in {"picked", "accepted", "unavailable"} =>
         slots = {s \in IF RuleApplies(day) THEN Pieces(day) ELSE {} : InWindow(s) /\ IsFree(s)}
    /\ pc \notin {"picked", "accepted", "unavailable"} => slots = {}

IInv == Settled /\ Counted /\ Cut /\ Fresh /\ Shown

-----------------------------------------------------------------------------
\* What the tables and the clock yield are numbers.
LEMMA Numbers ==
    ASSUME Settled
    PROVE  /\ DayLen \in Nat \ {0} /\ WeekLen \in Nat \ {0}
           /\ duration \in Int /\ window \in Nat \ {0} /\ now \in Int
           /\ \A w \in Int : Instant(w) \in Int /\ LocalDay(w) \in Int
           /\ \A d \in Int : /\ Midnight(d) \in Int /\ Weekday(d) \in 0 .. WeekLen - 1
                             /\ RuleStart(d) \in Int /\ RuleEnd(d) \in Int
                             /\ RuleApplies(d) \in BOOLEAN
           /\ Today \in Int
           /\ \A i \in Int : Listed(i) \in Int
  <1>1. /\ DayLen \in Nat \ {0} /\ WeekLen \in Nat \ {0}
        /\ duration \in Int /\ window \in Nat \ {0} /\ now \in Int
    BY ZoneAssumption, TypesAssumption, InstantsAssumption DEF Settled
  <1>2. \A t \in Int : UTCOffset(t) \in Int
    BY ZoneAssumption DEF Settled, UTCOffset
  <1>3. \A w \in Int : Instant(w) \in Int
    BY <1>2 DEF Instant
  <1>4. \A w \in Int : LocalDay(w) \in Int
    <2> SUFFICES ASSUME NEW w \in Int
                 PROVE  (w + UTCOffset(w)) \div DayLen \in Int
      BY DEF LocalDay, Clock
    <2>1. w + UTCOffset(w) \in Int
      BY <1>2
    <2>2. QED
      BY <1>1, <2>1, SMT
  <1>5. \A d \in Int : d * DayLen \in Int
    BY <1>1
  <1>6. \A d \in Int : Midnight(d) \in Int
    BY <1>3, <1>5 DEF Midnight
  <1>7. \A d \in Int : Weekday(d) \in 0 .. WeekLen - 1
    BY <1>1, SMT DEF Weekday
  <1>8. \A d \in Int : rules[Weekday(d)] \in [from : Int, to : Int, active : BOOLEAN]
    <2>1. \A r \in Rules : r \in [from : Int, to : Int, active : BOOLEAN]
      BY <1>1, RulesAssumption
    <2>2. QED
      BY <1>7, <2>1 DEF Settled
  <1>9. \A d \in Int : /\ RuleStart(d) \in Int /\ RuleEnd(d) \in Int
                       /\ RuleApplies(d) \in BOOLEAN
    BY <1>3, <1>5, <1>8 DEF RuleStart, RuleEnd, RuleApplies
  <1>10. Today \in Int
    BY <1>1, <1>4, <1>6 DEF Today
  <1>11. \A i \in Int : Listed(i) \in Int
    BY <1>1, <1>10 DEF Listed
  <1>12. QED
    BY <1>1, <1>3, <1>4, <1>6, <1>7, <1>9, <1>10, <1>11

\* While a request runs, nothing it computes with changes.
LEMMA Steady ==
    ASSUME UNCHANGED <<tables, now>>
    PROVE  /\ \A d : RuleStart(d)' = RuleStart(d) /\ RuleEnd(d)' = RuleEnd(d)
           /\ \A d : RuleApplies(d)' <=> RuleApplies(d)
           /\ \A d : Pieces(d)' = Pieces(d)
           /\ \A s : InWindow(s)' <=> InWindow(s)
           /\ \A s : Slot(s)' = Slot(s)
           /\ Loaded' = Loaded
           /\ duration' = duration
  <1>1. /\ zone' = zone /\ rules' = rules /\ busy' = busy /\ booked' = booked
        /\ duration' = duration /\ window' = window /\ now' = now
    BY DEF tables
  <1>2. \A d : RuleStart(d)' = RuleStart(d) /\ RuleEnd(d)' = RuleEnd(d)
    BY <1>1 DEF RuleStart, RuleEnd, Instant, UTCOffset, Weekday
  <1>3. \A d : RuleApplies(d)' <=> RuleApplies(d)
    BY <1>1 DEF RuleApplies, Weekday
  <1>4. \A d : Pieces(d)' = Pieces(d)
    BY <1>1, <1>2 DEF Pieces
  <1>5. \A s : InWindow(s)' <=> InWindow(s)
    BY <1>1 DEF InWindow, WindowEnd
  <1>6. \A s : Slot(s)' = Slot(s)
    BY <1>1 DEF Slot
  <1>7. Loaded' = Loaded
    BY <1>1 DEF Loaded, Stored, Cached, Unexpanded, Kept, Interval, InRange
  <1>8. QED
    BY <1>1, <1>2, <1>3, <1>4, <1>5, <1>6, <1>7

\* Whenever CalculateSlots starts on a date, the invariant is set up for it.
LEMMA CalculateStarts ==
    ASSUME IInv, NEW d \in Int, Calculate(d), left' \in Int, dates' \subseteq Int
    PROVE  IInv'
  <1>1. UNCHANGED <<tables, now>>
    BY DEF Calculate
  <1>2. Settled'
    BY <1>1 DEF IInv, Settled, tables
  <1>3. RuleStart(d) \in Int /\ duration \in Int
    BY Numbers DEF IInv
  <1>4. Counted'
    BY <1>3 DEF IInv, Counted, Calculate
  <1>5. Cut'
    <2>1. day' = d /\ at' = RuleStart(d) /\ candidates' = {}
      BY DEF Calculate
    <2>2. RuleStart(d)' = RuleStart(d) /\ (RuleApplies(d)' <=> RuleApplies(d))
      BY <1>1, Steady
    <2>3. RuleStart(day)' = RuleStart(d) /\ (RuleApplies(day)' <=> RuleApplies(d))
      BY <2>1, <2>2 DEF RuleStart, RuleApplies, Instant, UTCOffset, Weekday
    <2>4. \A s \in Pieces(day)' : RuleStart(d) <= s
      BY <2>3 DEF Pieces
    <2>5. {s \in Pieces(day)' : s < at'} = {}
      <3> SUFFICES ASSUME NEW s \in Pieces(day)', s < RuleStart(d)
                   PROVE  FALSE
        BY <2>1
      <3>1. s \in Int
        BY DEF Pieces
      <3>2. QED
        BY <1>3, <2>4, <3>1
    <2>6. duration' > 0 => (at' - RuleStart(d)) % duration' = 0
      <3>1. at' - RuleStart(d) = 0 /\ duration' = duration
        BY <1>1, <1>3, <2>1 DEF tables
      <3>2. duration > 0 => 0 % duration = 0
        BY <1>3, SMT
      <3>3. QED
        BY <3>1, <3>2
    <2>7. /\ pc' = "loop" => RuleApplies(d)
          /\ pc' = "filter" => ~RuleApplies(d)
      BY DEF Calculate
    <2>8. RuleStart(d) <= at'
      BY <1>3, <2>1
    <2>9. QED
      BY <2>1, <2>3, <2>5, <2>6, <2>7, <2>8 DEF Cut
  <1>6. Fresh'
    <2>1. loaded' = Loaded
      BY DEF Calculate
    <2>2. QED
      BY <1>1, <2>1, Steady DEF Fresh
  <1>7. Shown'
    BY DEF Shown, Calculate
  <1>8. QED
    BY <1>2, <1>4, <1>5, <1>6, <1>7 DEF IInv

\* One turn of the loop takes the next piece, or there is none left.
LEMMA CandidateKeeps ==
    ASSUME IInv, Candidate
    PROVE  IInv'
  <1>1. UNCHANGED <<tables, now>> /\ day' = day /\ loaded' = loaded /\ slots' = slots
    BY DEF Candidate
  <1>2. /\ RuleStart(day)' = RuleStart(day) /\ RuleEnd(day)' = RuleEnd(day)
        /\ (RuleApplies(day)' <=> RuleApplies(day))
        /\ Pieces(day)' = Pieces(day)
        /\ duration' = duration
    BY <1>1 DEF tables, RuleStart, RuleEnd, RuleApplies, Instant, UTCOffset, Weekday, Pieces
  <1>3. /\ pc = "loop" /\ RuleApplies(day)
        /\ duration > 0 =>
             /\ RuleStart(day) <= at /\ (at - RuleStart(day)) % duration = 0
             /\ candidates = {s \in Pieces(day) : s < at}
        /\ duration <= 0 => candidates = {} \/ at + duration <= RuleEnd(day)
    BY DEF IInv, Cut, Candidate
  <1>4. /\ RuleStart(day) \in Int /\ RuleEnd(day) \in Int /\ duration \in Int
        /\ at \in Int /\ day \in Int
    BY Numbers DEF IInv, Counted
  <1>5. Settled' /\ Fresh'
    BY <1>1, Steady DEF IInv, Settled, Fresh, tables, Candidate
  <1>6. Shown'
    BY <1>1, <1>3 DEF IInv, Shown, Candidate, Leave, Take
  <1>7. CASE at + duration > RuleEnd(day)
    <2>1. pc' = "filter" /\ at' = at /\ candidates' = candidates
      BY <1>7 DEF Candidate, Leave
    <2>2. Counted'
      BY <1>1, <2>1 DEF IInv, Counted, Candidate, list
    <2>3. \A s \in Pieces(day) : s < at /\ duration > 0
      BY <1>4, <1>7 DEF Pieces
    <2>4. candidates = Pieces(day)
      <3>1. CASE duration > 0
        BY <1>3, <2>3, <3>1
      <3>2. CASE duration <= 0
        <4>1. Pieces(day) = {}
          BY <1>4, <2>3, <3>2
        <4>2. QED
          BY <1>3, <1>4, <1>7, <3>2, <4>1
      <3>3. QED
        BY <1>4, <3>1, <3>2
    <2>5. Cut'
      BY <1>1, <1>2, <1>3, <2>1, <2>4 DEF Cut
    <2>6. QED
      BY <1>5, <1>6, <2>2, <2>5 DEF IInv
  <1>8. CASE ~(at + duration > RuleEnd(day))
    <2>1. pc' = pc /\ at' = at + duration /\ candidates' = candidates \cup {at}
      BY <1>8 DEF Candidate, Take
    <2>2. Counted'
      BY <1>1, <1>3, <1>4, <2>1 DEF IInv, Counted, Candidate, list
    <2>3. ASSUME duration > 0 PROVE Cut'
      <3>1. at \in Pieces(day)
        BY <1>3, <1>4, <2>3, <1>8 DEF Pieces
      <3>2. ASSUME NEW s \in Pieces(day), ~(s < at), s < at + duration
            PROVE  s = at
        <4>1. s \in Int /\ (s - RuleStart(day)) % duration = 0
          BY DEF Pieces
        <4>2. at - RuleStart(day) = s - RuleStart(day)
          BY <1>3, <1>4, <2>3, <3>2, <4>1, NoMultipleBetween
        <4>3. QED
          BY <1>4, <4>1, <4>2
      <3>3. \A s \in Pieces(day) : s \in Int
        BY DEF Pieces
      <3>4. candidates' = {s \in Pieces(day) : s < at'}
        <4>1. ASSUME NEW s \in Pieces(day), s < at + duration
              PROVE  s < at \/ s = at
          BY <3>2, <4>1
        <4>2. ASSUME NEW s \in Pieces(day), s < at \/ s = at
              PROVE  s < at + duration
          BY <1>4, <2>3, <3>3, <4>2
        <4>3. candidates' = {s \in Pieces(day) : s < at \/ s = at}
          BY <1>3, <1>4, <2>3, <2>1, <3>1, <3>3
        <4>4. QED
          BY <2>1, <4>1, <4>2, <4>3
      <3>5. (at' - RuleStart(day)) % duration = 0
        <4>1. ((at - RuleStart(day)) + duration) % duration = 0
          BY <1>3, <1>4, <2>3, NextMultiple
        <4>2. at' - RuleStart(day) = (at - RuleStart(day)) + duration
          BY <1>4, <2>1
        <4>3. QED
          BY <4>1, <4>2
      <3>6. RuleStart(day) <= at'
        BY <1>3, <1>4, <2>3, <2>1
      <3>7. QED
        BY <1>2, <1>3, <1>4, <2>1, <2>3, <3>4, <3>5, <3>6 DEF Cut
    <2>4. ASSUME duration <= 0 PROVE Cut'
      <3>1. at' + duration <= RuleEnd(day)
        BY <1>4, <1>8, <2>1, <2>4
      <3>2. QED
        BY <1>1, <1>2, <1>3, <1>4, <2>1, <2>4, <3>1 DEF Cut
    <2>5. QED
      BY <1>4, <1>5, <1>6, <2>2, <2>3, <2>4 DEF IInv
  <1>9. QED
    BY <1>7, <1>8

LEMMA FilterKeeps ==
    ASSUME IInv, Filter
    PROVE  IInv'
  <1>1. /\ UNCHANGED <<tables, now>> /\ day' = day /\ loaded' = loaded /\ pc = "filter"
        /\ candidates' = candidates /\ slots' = Available
        /\ pc' \in {"picked", "accepted", "unavailable"}
    BY DEF Filter, loop
  <1>2. Settled' /\ Fresh'
    BY <1>1, Steady DEF IInv, Settled, Fresh, tables
  <1>3. Counted'
    BY <1>1 DEF IInv, Counted, Filter, list, loop, Available
  <1>4. Cut'
    BY <1>1 DEF Cut
  <1>5. /\ Pieces(day)' = Pieces(day) /\ (RuleApplies(day)' <=> RuleApplies(day))
        /\ \A s : InWindow(s)' <=> InWindow(s)
        /\ \A s : IsFree(s)' <=> IsFree(s)
    BY <1>1, Steady DEF tables, RuleStart, RuleEnd, RuleApplies, Instant, UTCOffset,
                        Weekday, Pieces, IsFree
  <1>6. Available = {s \in IF RuleApplies(day) THEN Pieces(day) ELSE {} :
                       InWindow(s) /\ IsFree(s)}
    BY <1>1 DEF IInv, Cut, Available
  <1>7. Shown'
    BY <1>1, <1>5, <1>6 DEF Shown
  <1>8. QED
    BY <1>2, <1>3, <1>4, <1>7 DEF IInv

LEMMA FormsAreNumbers ==
    ASSUME Counted, NEW f \in Forms
    PROVE  /\ f[1] \in Int /\ f[2] \in Int
           /\ pc = "picked" => f[1] \in slots /\ f[2] = 0
  <1>1. CASE pc = "picked"
    <2>1. f \in slots \X {0}
      BY <1>1 DEF Forms
    <2>2. f[1] \in slots /\ f[2] = 0
      BY <2>1
    <2>3. slots \subseteq Int /\ 0 \in Int
      BY DEF Counted
    <2>4. f[1] \in Int
      BY <2>2, <2>3, Zenon
    <2>5. f[2] \in Int
      BY <2>2, <2>3, Zenon
    <2>6. QED
      BY <2>2, <2>4, <2>5, Zenon
  <1>2. CASE pc # "picked"
    <2>1. f \in Requested \X Offsets
      BY <1>2 DEF Forms
    <2>2. f[1] \in Requested /\ f[2] \in Offsets
      BY <2>1
    <2>3. QED
      BY <1>2, <2>2, InstantsAssumption
  <1>3. QED
    BY <1>1, <1>2

-----------------------------------------------------------------------------
\* The invariant holds in every behaviour.
LEMMA Invariance == Spec => []IInv
  <1>1. Init => IInv
    BY DEF Init, IInv, Settled, Counted, Cut, Fresh, Shown, AtMostOne, NoList
  <1>2. IInv /\ [Next]_vars => IInv'
    <2> SUFFICES ASSUME IInv, [Next]_vars PROVE IInv'
      OBVIOUS
    <2> USE Numbers DEF IInv
    <2>1. CASE Pick
      <3>1. PICK d \in LocalDay(now) - 1 .. LocalDay(WindowEnd) + 1 :
                Calculate(LocalDay(Midnight(d)))
        BY <2>1 DEF Pick
      <3>2. WindowEnd \in Int
        BY DEF WindowEnd
      <3>3. LocalDay(Midnight(d)) \in Int
        BY <3>2
      <3>4. left' \in Int /\ dates' \subseteq Int
        BY <2>1 DEF Pick, list, Counted
      <3>5. QED
        BY <3>1, <3>3, <3>4, CalculateStarts
    <2>2. CASE Browse
      <3>1. left' \in Int /\ dates' \subseteq Int /\ LocalDay(Listed(0)) \in Int
        BY <2>2 DEF Browse, Counted
      <3>2. QED
        BY <2>2, <3>1, CalculateStarts DEF Browse
    <2>3. CASE Submit
      <3>1. PICK f \in Forms : Calculate(LocalDay(Midnight(UTCDay(f[1] + f[2]))))
        BY <2>3 DEF Submit
      <3>2. f[1] \in Int /\ f[2] \in Int
        BY FormsAreNumbers
      <3>3. UTCDay(f[1] + f[2]) \in Int
        <4> DEFINE s == f[1]
                   o == f[2]
        <4>1. s \in Int /\ o \in Int
          BY <3>2
        <4> HIDE DEF s, o
        <4>2. s + o \in Int /\ DayLen \in Nat \ {0}
          BY <4>1, ZoneAssumption
        <4>3. UTCDay(s + o) \in Int
          BY <4>2, DivBounds DEF UTCDay
        <4>4. QED
          BY <4>3 DEF s, o
      <3>4. left' \in Int /\ dates' \subseteq Int
        BY <2>3 DEF Submit, list, Counted
      <3>5. QED
        BY <3>1, <3>3, <3>4, CalculateStarts
    <2>4. CASE Candidate
      BY <2>4, CandidateKeeps
    <2>5. CASE ListDate
      <3>1. left' \in Int /\ dates' \subseteq Int
        <4>1. left \in Int /\ left' = left - 1
          BY <2>5 DEF ListDate, Counted
        <4>2. window - left \in Int
          BY <4>1
        <4>3. Listed(window - left) \in Int
          BY <4>2
        <4>4. dates' = dates \/ dates' = dates \cup {Listed(window - left)}
          BY <2>5 DEF ListDate
        <4>5. dates \subseteq Int
          BY DEF Counted
        <4>6. dates' \subseteq Int
          BY <4>3, <4>4, <4>5
        <4>7. left' \in Int
          BY <4>1
        <4>8. QED
          BY <4>6, <4>7
      <3>2. PICK t \in (IF left > 1 THEN {Listed(window - left + 1)}
                        ELSE IF dates' = {} THEN {Today}
                        ELSE {x \in dates' : \A y \in dates' : x <= y}) :
                Calculate(LocalDay(t))
        BY <2>5 DEF ListDate
      <3>3. t \in Int
        <4>1. window \in Int /\ left \in Int
          BY DEF Counted
        <4>2. window - left + 1 \in Int
          BY <4>1
        <4>3. Listed(window - left + 1) \in Int
          BY <4>2
        <4>4. QED
          BY <3>1, <3>2, <4>3
      <3>4. QED
        BY <3>1, <3>2, <3>3, CalculateStarts
    <2>6. CASE Filter
      BY <2>6, FilterKeeps
    <2>7. CASE Done \/ UNCHANGED vars
      <3>1. UNCHANGED vars
        BY <2>7 DEF Done
      <3>2. /\ UNCHANGED <<tables, now>> /\ Pieces(day)' = Pieces(day)
            /\ (RuleApplies(day)' <=> RuleApplies(day))
            /\ RuleStart(day)' = RuleStart(day) /\ RuleEnd(day)' = RuleEnd(day)
            /\ \A s : InWindow(s)' <=> InWindow(s)
            /\ \A s : IsFree(s)' <=> IsFree(s)
        BY <3>1, Steady DEF vars, loop, tables, RuleStart, RuleEnd, RuleApplies, Instant,
                            UTCOffset, Weekday, Pieces, IsFree
      <3>3. Settled' /\ Counted' /\ Fresh'
        BY <3>1, <3>2, Steady DEF vars, list, loop, tables, Settled, Counted, Fresh
      <3>4. Cut'
        BY <3>1, <3>2 DEF vars, loop, tables, Cut
      <3>5. Shown'
        BY <3>1, <3>2 DEF vars, loop, tables, Shown
      <3>6. QED
        BY <3>3, <3>4, <3>5
    <2>8. QED
      BY <2>1, <2>2, <2>3, <2>4, <2>5, <2>6, <2>7 DEF Next
  <1>3. QED
    BY <1>1, <1>2, PTL DEF Spec

-----------------------------------------------------------------------------
(***************************************************************************)
(* Days and the change of the clocks.                                      *)
(***************************************************************************)

\* The UTC date of an instant, and the one it is not before.
LEMMA DateOfUTC ==
    ASSUME NEW t \in Int
    PROVE  /\ UTCDay(t) \in Int
           /\ \A d \in Int : d * DayLen <= t => d <= UTCDay(t)
  <1> DEFINE q == t \div DayLen
  <1>1. DayLen \in Nat \ {0}
    BY ZoneAssumption
  <1>2. q \in Int /\ q * DayLen <= t /\ t < q * DayLen + DayLen
    BY <1>1, DivBounds
  <1>3. ASSUME NEW d \in Int, d * DayLen <= t, q + 1 <= d PROVE FALSE
    <2>1. (q + 1) * DayLen <= d * DayLen
      BY <1>1, <1>2, <1>3, SMT
    <2>2. q * DayLen + DayLen <= d * DayLen
      BY <1>1, <1>2, <2>1, SMT
    <2>3. QED
      BY <1>1, <1>2, <1>3, <2>2
  <1>4. QED
    BY <1>2, <1>3 DEF UTCDay

\* How far the clocks are put forward.
Gain == zone.after - zone.before

\* The wall clocks the host's clock never shows.
Skipped(w) == zone.change + zone.before <= w /\ w < zone.change + zone.after

LEMMA ZoneNumbers ==
    ASSUME Settled
    PROVE  /\ DayLen \in Nat \ {0}
           /\ zone.before \in Int /\ zone.after \in Int /\ zone.change \in Int
           /\ Gain \in Int /\ -DayLen < Gain /\ Gain < DayLen
           /\ \A t \in Int : Clock(t) \in Int /\ Instant(t) \in Int
  <1>1. /\ DayLen \in Nat \ {0}
        /\ zone \in [before : Int, after : Int, change : Int]
    BY ZoneAssumption DEF Settled
  <1>2. zone.before \in Int /\ zone.after \in Int /\ zone.change \in Int
    BY <1>1
  <1>3. Gain \in 1 - DayLen .. DayLen - 1
    BY ChangeAssumption DEF Settled, Gain
  <1>4. \A t \in Int : Clock(t) \in Int /\ Instant(t) \in Int
    BY <1>2 DEF Clock, Instant, UTCOffset
  <1>5. QED
    BY <1>1, <1>2, <1>3, <1>4

LEMMA DayIs ==
    ASSUME Settled, NEW t \in Int, NEW d \in Int,
           d * DayLen <= Clock(t), Clock(t) < d * DayLen + DayLen
    PROVE  LocalDay(t) = d
  BY ZoneNumbers, DivIs DEF LocalDay

LEMMA DayBounds ==
    ASSUME Settled, NEW t \in Int
    PROVE  /\ LocalDay(t) \in Int
           /\ LocalDay(t) * DayLen <= Clock(t)
           /\ Clock(t) < LocalDay(t) * DayLen + DayLen
  BY ZoneNumbers, DivBounds DEF LocalDay

\* time.Date names an instant that shows the wall clock asked for; when none does, it
\* names one as much before or after as the clocks are put forward.
LEMMA ShownClock ==
    ASSUME Settled, NEW w \in Int
    PROVE  /\ ~Skipped(w) => Clock(Instant(w)) = w
           /\ Skipped(w) /\ w < zone.change =>
                Clock(Instant(w)) = w - Gain /\ Instant(w) = w - zone.after
           /\ Skipped(w) /\ w >= zone.change =>
                Clock(Instant(w)) = w + Gain /\ Instant(w) = w - zone.before
  BY ZoneNumbers DEF Clock, Instant, UTCOffset, Skipped, Gain

LEMMA ClockAdvances ==
    ASSUME Settled, Gain >= 0, NEW s \in Int, NEW t \in Int, s < t
    PROVE  Clock(s) < Clock(t)
  BY ZoneNumbers DEF Clock, UTCOffset, Gain

\* A date that is some date's midnight does not begin in a skipped hour before its change.
LEMMA AskedDayBegins ==
    ASSUME Settled, NEW k \in Int, NEW d \in Int, d = LocalDay(Midnight(k)),
           Skipped(d * DayLen)
    PROVE  d * DayLen >= zone.change
  <1> DEFINE m == k * DayLen
  <1> USE ZoneNumbers
  <1>1. m \in Int /\ d * DayLen \in Int
    OBVIOUS
  <1>2. Clock(Midnight(k)) = Clock(Instant(m)) /\ Midnight(k) \in Int
    BY <1>1 DEF Midnight
  <1>3. CASE ~Skipped(m)
    <2>1. Clock(Midnight(k)) = m
      BY <1>1, <1>2, <1>3, ShownClock
    <2>2. k * DayLen <= Clock(Midnight(k)) /\ Clock(Midnight(k)) < k * DayLen + DayLen
      BY <1>1, <2>1
    <2>3. LocalDay(Midnight(k)) = k
      BY <1>2, <2>2, DayIs
    <2>4. QED
      BY <1>3, <2>3
  <1>4. CASE Skipped(m) /\ m >= zone.change
    <2>1. Clock(Midnight(k)) = m + Gain
      BY <1>1, <1>2, <1>4, ShownClock
    <2>2. 0 <= Gain
      BY <1>1, <1>4 DEF Skipped, Gain
    <2>3. k * DayLen <= Clock(Midnight(k)) /\ Clock(Midnight(k)) < k * DayLen + DayLen
      BY <1>1, <2>1, <2>2
    <2>4. LocalDay(Midnight(k)) = k
      BY <1>2, <2>3, DayIs
    <2>5. QED
      BY <1>4, <2>4
  <1>5. CASE Skipped(m) /\ m < zone.change
    <2>1. Clock(Midnight(k)) = m - Gain
      BY <1>1, <1>2, <1>5, ShownClock
    <2>2. 0 < Gain
      BY <1>1, <1>5 DEF Skipped, Gain
    <2>3. (k - 1) * DayLen = m - DayLen
      BY SMT
    <2>4. /\ k - 1 \in Int
          /\ (k - 1) * DayLen <= Clock(Midnight(k))
          /\ Clock(Midnight(k)) < (k - 1) * DayLen + DayLen
      BY <1>1, <2>1, <2>2, <2>3
    <2>5. LocalDay(Midnight(k)) = k - 1
      BY <1>2, <2>4, DayIs
    <2>6. d * DayLen = m - DayLen
      BY <2>3, <2>5
    <2>7. QED
      BY <1>1, <1>5, <2>6 DEF Skipped, Gain
  <1>6. QED
    BY <1>1, <1>3, <1>4, <1>5

\* No hour that comes twice reaches over a midnight.
LEMMA NoMidnightComesTwice ==
    ASSUME Settled, Gain < 0, NEW d \in Int
    PROVE  \/ d * DayLen <= zone.change + zone.after
           \/ d * DayLen >= zone.change + zone.before
  <1> DEFINE w == zone.change + zone.after
             p == w \div DayLen
  <1> USE ZoneNumbers
  <1>1. w \in Int /\ d * DayLen \in Int
    OBVIOUS
  <1>2. /\ p \in Int /\ p * DayLen <= w /\ w < p * DayLen + DayLen
        /\ w % DayLen = w - p * DayLen
    BY <1>1, DivBounds
  <1>3. w % DayLen <= DayLen + Gain
    BY ChangeAssumption DEF Settled, Gain
  <1>4. p * DayLen \in Int
    BY <1>2
  <1>5. p * DayLen + DayLen >= zone.change + zone.before
    <2>1. w - p * DayLen <= DayLen + Gain
      BY <1>2, <1>3
    <2>2. QED
      BY <1>4, <2>1 DEF Gain
  <1>6. CASE d <= p
    <2>1. d * DayLen <= p * DayLen
      BY <1>2, <1>6, SMT
    <2>2. QED
      BY <1>1, <1>2, <1>4, <2>1
  <1>7. CASE d >= p + 1
    <2>1. d * DayLen >= p * DayLen + DayLen
      BY <1>2, <1>7, SMT
    <2>2. QED
      BY <1>1, <1>4, <1>5, <2>1
  <1>8. QED
    BY <1>2, <1>6, <1>7

\* Where clocks are put forward within the day that begins at m, or the day before.
LEMMA ForwardHour ==
    ASSUME Settled, NEW d \in Int, 0 < Gain
    PROVE  LET m == d * DayLen
               h == zone.change + zone.before
           IN  /\ zone.before < 0 /\ m < h /\ h < m + DayLen => h - m >= Gain
               /\ zone.after > 0 /\ m <= h /\ h < m + DayLen => h - m + 2 * Gain <= DayLen + 1
               /\ zone.after > 0 /\ m - DayLen <= h /\ h < m => h - m + 2 * Gain <= 1
  <1> DEFINE m == d * DayLen
             h == zone.change + zone.before
  <1> USE ZoneNumbers
  <1>1. m \in Int /\ h \in Int
    OBVIOUS
  <1>2. /\ zone.before < 0 => h % DayLen = 0 \/ h % DayLen >= Gain
        /\ zone.after > 0 => (h % DayLen) + 2 * Gain <= DayLen + 1
    BY ChangeAssumption DEF Settled, Gain
  <1>3. ASSUME m <= h, h < m + DayLen PROVE h % DayLen = h - m
    BY <1>1, <1>3, DivIs
  <1>4. ASSUME m - DayLen <= h, h < m PROVE h % DayLen = h - m + DayLen
    <2>1. (d - 1) * DayLen = m - DayLen
      BY SMT
    <2>2. d - 1 \in Int /\ (d - 1) * DayLen <= h /\ h < (d - 1) * DayLen + DayLen
      BY <1>1, <1>4, <2>1
    <2>3. h % DayLen = h - (d - 1) * DayLen
      BY <1>1, <2>2, DivIs
    <2>4. QED
      BY <1>1, <2>1, <2>3
  <1>5. ASSUME zone.before < 0, m < h, h < m + DayLen PROVE h - m >= Gain
    BY <1>1, <1>2, <1>3, <1>5
  <1>6. ASSUME zone.after > 0, m <= h, h < m + DayLen PROVE h - m + 2 * Gain <= DayLen + 1
    BY <1>1, <1>2, <1>3, <1>6
  <1>7. ASSUME zone.after > 0, m - DayLen <= h, h < m PROVE h - m + 2 * Gain <= 1
    <2>1. h - m + DayLen + 2 * Gain <= DayLen + 1
      BY <1>2, <1>4, <1>7
    <2>2. QED
      BY <1>1, <2>1
  <1>8. QED
    BY <1>5, <1>6, <1>7

\* The rule's hours of a date are hours of a day.
LEMMA RuleHours ==
    ASSUME Settled, NEW d \in Int
    PROVE  LET m == d * DayLen
               x == m + rules[Weekday(d)].from
               y == m + rules[Weekday(d)].to
           IN  /\ m \in Int
               /\ x \in Int /\ m <= x /\ x < m + DayLen
               /\ y \in Int /\ m <= y /\ y < m + DayLen
  <1>1. DayLen \in Nat \ {0} /\ WeekLen \in Nat \ {0}
    BY ZoneAssumption
  <1>2. Weekday(d) \in 0 .. WeekLen - 1
    BY <1>1, SMT DEF Weekday
  <1>3. rules[Weekday(d)] \in [from : 0 .. DayLen - 1, to : 0 .. DayLen - 1, active : BOOLEAN]
    BY <1>2, RulesAssumption DEF Settled
  <1>4. /\ rules[Weekday(d)].from \in 0 .. DayLen - 1
        /\ rules[Weekday(d)].to \in 0 .. DayLen - 1
    BY <1>3
  <1>5. d * DayLen \in Int
    BY <1>1
  <1>6. QED
    BY <1>1, <1>4, <1>5

\* The pieces of the rule of a date end on that date, also on the day the clocks are
\* changed, and they begin there unless its midnight is one that is skipped and for
\* which time.Date names an instant of the day before.
LEMMA PiecesOfTheDay ==
    ASSUME Settled, NEW d \in Int, NEW s \in Int, RuleStart(d) <= s, s < RuleEnd(d)
    PROVE  LET m == d * DayLen
           IN  /\ ~(Skipped(m) /\ m < zone.change) => m <= Clock(s)
               /\ Clock(s) < m + DayLen
  <1> DEFINE m == d * DayLen
             x == m + rules[Weekday(d)].from
             y == m + rules[Weekday(d)].to
  <1> USE ZoneNumbers
  <1>1. m \in Int
    OBVIOUS
  <1>2. /\ x \in Int /\ m <= x /\ x < m + DayLen
        /\ y \in Int /\ m <= y /\ y < m + DayLen
    BY RuleHours
  <1>3. Instant(x) <= s /\ s < Instant(y)
    BY DEF RuleStart, RuleEnd
  <1> HIDE DEF m, x, y
  <1>4. /\ ~(Skipped(m) /\ m < zone.change) => m <= Clock(s)
        /\ Clock(s) < m + DayLen
    <2>1. CASE Gain < 0
      <3>1. /\ m <= zone.change + zone.after \/ m >= zone.change + zone.before
            /\ \/ m + DayLen <= zone.change + zone.after
               \/ m + DayLen >= zone.change + zone.before
        <4>1. (d + 1) * DayLen = m + DayLen
          BY SMT DEF m
        <4>2. d + 1 \in Int
          OBVIOUS
        <4>3. QED
          BY <2>1, <4>1, <4>2, NoMidnightComesTwice DEF m
      <3>2. QED
        BY <1>1, <1>2, <1>3, <2>1, <3>1 DEF Clock, Instant, UTCOffset, Gain
    <2>2. CASE Gain >= 0
      <3>1. Clock(Instant(x)) <= Clock(s) /\ Clock(s) < Clock(Instant(y))
        <4>1. Instant(x) \in Int /\ Instant(y) \in Int
          BY <1>2
        <4>2. Clock(s) < Clock(Instant(y))
          BY <1>3, <2>2, <4>1, ClockAdvances
        <4>3. Instant(x) < s => Clock(Instant(x)) < Clock(s)
          BY <2>2, <4>1, ClockAdvances
        <4>4. Clock(Instant(x)) \in Int /\ Clock(s) \in Int
          BY <4>1
        <4>5. Instant(x) < s \/ Instant(x) = s
          BY <1>3, <4>1
        <4>6. QED
          BY <4>2, <4>3, <4>4, <4>5
      <3>2. ~(Skipped(m) /\ m < zone.change) => m <= Clock(Instant(x))
        <4> SUFFICES ASSUME ~(Skipped(m) /\ m < zone.change) PROVE m <= Clock(Instant(x))
          OBVIOUS
        <4>1. CASE ~Skipped(x)
          BY <1>2, <4>1, ShownClock
        <4>2. CASE Skipped(x) /\ x >= zone.change
          <5>1. Clock(Instant(x)) = x + Gain
            BY <1>2, <4>2, ShownClock
          <5>2. QED
            BY <1>1, <1>2, <2>2, <5>1
        <4>3. CASE Skipped(x) /\ x < zone.change
          <5>1. Clock(Instant(x)) = x - Gain
            BY <1>2, <4>3, ShownClock
          <5>2. m < zone.change + zone.before
            <6>1. ~Skipped(m)
              BY <1>1, <1>2, <4>3
            <6>2. QED
              BY <1>1, <1>2, <4>3, <6>1 DEF Skipped
          <5>3. zone.before < 0 /\ 0 < Gain
            BY <1>2, <4>3 DEF Skipped, Gain
          <5>4. zone.change + zone.before - m >= Gain
            BY <1>1, <1>2, <4>3, <5>2, <5>3, ForwardHour DEF m, Skipped
          <5>5. QED
            BY <1>1, <1>2, <4>3, <5>1, <5>4 DEF Skipped
        <4>4. QED
          BY <1>2, <4>1, <4>2, <4>3
      <3>3. Clock(Instant(y)) <= m + DayLen
        <4>1. CASE ~Skipped(y)
          BY <1>1, <1>2, <4>1, ShownClock
        <4>2. CASE Skipped(y) /\ y < zone.change
          <5>1. Clock(Instant(y)) = y - Gain
            BY <1>2, <4>2, ShownClock
          <5>2. QED
            BY <1>1, <1>2, <2>2, <5>1
        <4>3. CASE Skipped(y) /\ y >= zone.change
          <5>1. Clock(Instant(y)) = y + Gain
            BY <1>2, <4>3, ShownClock
          <5>2. /\ zone.after > 0 /\ 0 < Gain
                /\ y < zone.change + zone.before + Gain
                /\ zone.change + zone.before <= y
            BY <1>2, <4>3 DEF Skipped, Gain
          <5>3. CASE m <= zone.change + zone.before
            <6>1. zone.change + zone.before - m + 2 * Gain <= DayLen + 1
              BY <1>1, <1>2, <5>2, <5>3, ForwardHour DEF m
            <6>2. QED
              BY <1>1, <1>2, <5>1, <5>2, <6>1
          <5>4. CASE zone.change + zone.before < m
            <6>1. m - DayLen <= zone.change + zone.before
              BY <1>1, <1>2, <5>2
            <6>2. zone.change + zone.before - m + 2 * Gain <= 1
              BY <1>1, <5>2, <5>4, <6>1, ForwardHour DEF m
            <6>3. QED
              BY <1>1, <1>2, <5>1, <5>2, <6>2
          <5>5. QED
            BY <1>1, <5>3, <5>4
        <4>4. QED
          BY <1>2, <4>1, <4>2, <4>3
      <3>4. Clock(s) \in Int /\ Clock(Instant(x)) \in Int /\ Clock(Instant(y)) \in Int
        BY <1>2
      <3>5. QED
        BY <1>1, <3>1, <3>2, <3>3, <3>4
    <2>3. QED
      BY <2>1, <2>2
  <1>5. QED
    BY <1>4 DEF m

\* So every piece lies on the date that was asked for, for that has a midnight.
LEMMA PiecesLieOnTheDay ==
    ASSUME Settled, NEW k \in Int, NEW d \in Int, d = LocalDay(Midnight(k)),
           NEW s \in Int, RuleStart(d) <= s, s < RuleEnd(d)
    PROVE  LocalDay(s) = d
  <1>1. ~(Skipped(d * DayLen) /\ d * DayLen < zone.change)
    <2>1. d * DayLen \in Int /\ zone.change \in Int
      BY ZoneNumbers
    <2>2. QED
      BY <2>1, AskedDayBegins
  <1>2. d * DayLen <= Clock(s) /\ Clock(s) < d * DayLen + DayLen
    BY <1>1, PiecesOfTheDay
  <1>3. QED
    BY <1>2, DayIs

\* Of the date whose midnight lies on the day before, no piece begins before the date
\* does in UTC: only west of Greenwich is a midnight skipped that way.
LEMMA PiecesAfterMidnightUTC ==
    ASSUME Settled, NEW d \in Int, NEW s \in Int, RuleStart(d) <= s,
           Skipped(d * DayLen), d * DayLen < zone.change
    PROVE  d * DayLen <= s
  <1> DEFINE m == d * DayLen
             x == m + rules[Weekday(d)].from
  <1>1. m \in Int /\ x \in Int /\ m <= x
    BY RuleHours
  <1>2. Instant(x) <= s
    BY DEF RuleStart
  <1> HIDE DEF m, x
  <1>3. zone.before \in Int /\ zone.after \in Int /\ zone.change \in Int /\ Gain \in Int
    BY ZoneNumbers
  <1>4. 0 < Gain /\ zone.before < 0
    BY <1>1, <1>3 DEF m, Skipped, Gain
  <1>5. zone.after <= 0
    BY <1>4, ChangeAssumption DEF Settled, Gain
  <1>6. m <= Instant(x)
    BY <1>1, <1>3, <1>4, <1>5 DEF Instant, UTCOffset
  <1>7. Instant(x) \in Int
    BY <1>1, ZoneNumbers
  <1>8. QED
    BY <1>1, <1>2, <1>6, <1>7 DEF m

\* A clock that shows an hour i days after the midnight of d shows the date d + i.
LEMMA DaysLater ==
    ASSUME Settled, NEW t \in Int, NEW d \in Int, NEW i \in Int,
           d * DayLen + i * DayLen <= Clock(t), Clock(t) < d * DayLen + i * DayLen + DayLen
    PROVE  LocalDay(t) = d + i
  <1>1. d + i \in Int /\ (d + i) * DayLen = d * DayLen + i * DayLen
    BY ZoneNumbers, SMT
  <1>2. QED
    BY <1>1, DayIs

\* The dates the full page tries, 24 hours apart from today's midnight on, miss at most
\* the last one of the window and, when it has no midnight, today.
LEMMA ListCovers ==
    ASSUME Settled, NEW i \in 0 .. window - 1
    PROVE  LET d == LocalDay(now)
           IN  \/ \E j \in 0 .. window - 1 : LocalDay(Listed(j)) = d + i
               \/ i = window - 1 /\ LocalDay(Listed(window - 1)) < d + i
               \/ i = 0 /\ LocalDay(Today) < d
  <1> DEFINE d == LocalDay(now)
             m == d * DayLen
             p == i * DayLen
  <1>1. /\ DayLen \in Nat \ {0} /\ window \in Nat \ {0}
        /\ d \in Int /\ m \in Int /\ i \in Int /\ p \in Int /\ p >= 0
        /\ Today \in Int /\ Listed(i) \in Int
    <2>1. /\ DayLen \in Nat \ {0} /\ window \in Nat \ {0} /\ d \in Int
          /\ Today \in Int /\ i \in Int /\ Listed(i) \in Int
      BY Numbers
    <2>2. i >= 0
      BY <2>1
    <2>3. m \in Int /\ p \in Int /\ p >= 0
      BY <2>1, <2>2, SMT
    <2>4. QED
      BY <2>1, <2>3
  <1>2. /\ zone.before \in Int /\ zone.after \in Int /\ zone.change \in Int
        /\ Gain \in Int /\ -DayLen < Gain /\ Gain < DayLen
        /\ Gain = zone.after - zone.before
    BY ZoneNumbers DEF Gain
  <1>3. Today = Instant(m)
    BY DEF Today, Midnight
  <1>4. /\ Listed(i) = Today + p
        /\ Listed(i) < zone.change => Clock(Listed(i)) = Listed(i) + zone.before
        /\ Listed(i) >= zone.change => Clock(Listed(i)) = Listed(i) + zone.after
    BY <1>1, <1>2 DEF Listed, Clock, UTCOffset
  <1>5. /\ Today < zone.change => Clock(Today) = Today + zone.before
        /\ Today >= zone.change => Clock(Today) = Today + zone.after
    BY <1>1, <1>2 DEF Clock, UTCOffset
  <1>6. Clock(Listed(i)) \in Int /\ Clock(Today) \in Int
    BY <1>1, ZoneNumbers
  <1>7. ASSUME NEW t \in Int, NEW j \in Int,
               m + j * DayLen <= Clock(t), Clock(t) < m + j * DayLen + DayLen
        PROVE  LocalDay(t) = d + j
    BY <1>1, <1>7, DaysLater
  <1>8. m + p <= Clock(Listed(i)) /\ Clock(Listed(i)) < m + p + DayLen
          => LocalDay(Listed(i)) = d + i
    BY <1>1, <1>7
  <1> HIDE DEF m, d, p
  <1>9. CASE ~Skipped(m)
    <2>1. Clock(Today) = m
      BY <1>1, <1>3, <1>9, ShownClock
    <2>2. CASE Listed(i) >= zone.change /\ Today < zone.change /\ Gain < 0
      <3>1. CASE i = window - 1
        <4>1. LocalDay(Listed(i)) = d + (i - 1)
          <5>1. Clock(Listed(i)) = m + p + Gain
            BY <1>1, <1>2, <1>4, <1>5, <1>6, <2>1, <2>2
          <5>2. (i - 1) * DayLen = p - DayLen /\ i - 1 \in Int
            BY <1>1, SMT DEF p
          <5>3. /\ m + (i - 1) * DayLen <= Clock(Listed(i))
                /\ Clock(Listed(i)) < m + (i - 1) * DayLen + DayLen
            BY <1>1, <1>2, <2>2, <5>1, <5>2
          <5>4. QED
            BY <1>1, <1>7, <5>2, <5>3
        <4>2. QED
          BY <1>1, <3>1, <4>1 DEF d
      <3>2. CASE i # window - 1
        <4>1. i + 1 \in 0 .. window - 1
          BY <1>1, <3>2
        <4>2. Listed(i + 1) = Listed(i) + DayLen
          <5>1. (i + 1) * DayLen = p + DayLen
            BY <1>1, SMT DEF p
          <5>2. QED
            BY <1>1, <1>4, <5>1 DEF Listed
        <4>3. Listed(i + 1) \in Int
          BY <1>1, <4>2
        <4>4. Clock(Listed(i + 1)) = Listed(i) + DayLen + zone.after
          BY <1>1, <1>2, <2>2, <4>2 DEF Clock, UTCOffset
        <4>5. m + p <= Clock(Listed(i + 1)) /\ Clock(Listed(i + 1)) < m + p + DayLen
          BY <1>1, <1>2, <1>4, <1>5, <2>1, <2>2, <4>4
        <4>6. LocalDay(Listed(i + 1)) = d + i
          BY <1>1, <1>7, <4>3, <4>5 DEF p
        <4>7. QED
          BY <4>1, <4>6 DEF d
      <3>3. QED
        BY <3>1, <3>2
    <2>3. CASE ~(Listed(i) >= zone.change /\ Today < zone.change /\ Gain < 0)
      <3>1. \/ Clock(Listed(i)) = m + p
            \/ Clock(Listed(i)) = m + p + Gain /\ Gain >= 0
        BY <1>1, <1>2, <1>4, <1>5, <1>6, <2>1, <2>3
      <3>2. m + p <= Clock(Listed(i)) /\ Clock(Listed(i)) < m + p + DayLen
        BY <1>1, <1>2, <3>1
      <3>3. LocalDay(Listed(i)) = d + i
        BY <1>1, <1>8, <3>2
      <3>4. QED
        BY <3>3 DEF d
    <2>4. QED
      BY <2>2, <2>3
  <1>10. CASE Skipped(m)
    <2>1. 0 < Gain /\ zone.change + zone.before <= m /\ m < zone.change + zone.after
      BY <1>1, <1>2, <1>10 DEF Skipped, Gain
    <2>2. CASE m >= zone.change
      <3>1. Today = m - zone.before
        BY <1>1, <1>3, <1>10, <2>2, ShownClock
      <3>2. Clock(Listed(i)) = m + p + Gain
        BY <1>1, <1>2, <1>4, <2>1, <2>2, <3>1
      <3>3. LocalDay(Listed(i)) = d + i
        BY <1>1, <1>2, <1>8, <2>1, <3>2
      <3>4. QED
        BY <3>3 DEF d
    <2>3. CASE m < zone.change
      <3>1. Today = m - zone.after /\ Clock(Today) = m - Gain
        BY <1>1, <1>3, <1>10, <2>3, ShownClock
      <3>2. CASE i = 0
        <4>1. LocalDay(Today) = d + (-1)
          <5>1. m + (-1) * DayLen <= Clock(Today) /\ Clock(Today) < m + (-1) * DayLen + DayLen
            BY <1>1, <1>2, <2>1, <3>1
          <5>2. QED
            BY <1>1, <1>7, <5>1
        <4>2. QED
          BY <1>1, <3>2, <4>1 DEF d
      <3>3. CASE i # 0
        <4>1. p >= DayLen
          <5>1. i >= 1
            BY <1>1, <3>3
          <5>2. QED
            BY <1>1, <5>1, SMT DEF p
        <4>2. Listed(i) >= zone.change
          BY <1>1, <1>2, <1>4, <2>1, <3>1, <4>1
        <4>3. Clock(Listed(i)) = m + p
          BY <1>1, <1>2, <1>4, <3>1, <4>2
        <4>4. LocalDay(Listed(i)) = d + i
          BY <1>1, <1>8, <4>3
        <4>5. QED
          BY <4>4 DEF d
      <3>4. QED
        BY <3>2, <3>3
    <2>4. QED
      BY <1>1, <1>2, <2>2, <2>3
  <1>11. QED
    BY <1>9, <1>10

-----------------------------------------------------------------------------
(***************************************************************************)
(* What the form and the list of dates have to do with the slots.          *)
(***************************************************************************)

Running == pc \in {"loop", "filter"}

\* The slots of a form are looked up when no list is made, and under the date its time
\* stamp shows at its offset, which is that of UTC after a page; the page was that of
\* some date.  The form gets through when it names one of the slots found.
Asked ==
    /\ pc = "idle" => form = {}
    /\ ~Running => left <= 0
    /\ form # {} =>
         /\ left <= 0
         /\ \E s, o \in Int : /\ form = {s} /\ day = LocalDay(Midnight(UTCDay(s + o)))
                              /\ o = 0 \/ offered = {}
         /\ offered = {} \/ \E d \in Int : offered = Described(d)
    /\ pc \in {"accepted", "unavailable"} => (pc = "accepted" <=> form \subseteq slots)

\* The dates found among the first n that are tried.
Tried(n) == {Listed(i) : i \in {j \in 0 .. n - 1 : Described(LocalDay(Listed(j))) # {}}}

\* The list stands at one of its dates and has taken those with slots before it.
Listing ==
    /\ left \in NoList .. window
    /\ pc = "idle" => left = NoList /\ dates = {}
    /\ left > 0 => day = LocalDay(Listed(window - left))
    /\ left >= 0 => dates = Tried(window - left)

PageInv == IInv /\ Asked /\ Listing

\* The documented slots of a date are the pieces of its rule that pass the filter.
LEMMA DescribedPieces ==
    ASSUME Settled, NEW d \in Int
    PROVE  Described(d) = {s \in IF RuleApplies(d) THEN Pieces(d) ELSE {} :
                             InWindow(s) /\ IsFree(s)}
  <1>1. RuleStart(d) \in Int /\ RuleEnd(d) \in Int /\ duration \in Int
    BY Numbers
  <1>2. Pieces(d) = {s \in RuleStart(d) .. RuleEnd(d) :
                       /\ duration > 0 /\ (s - RuleStart(d)) % duration = 0
                       /\ s + duration <= RuleEnd(d)}
    <2>1. ASSUME NEW s \in Int, duration > 0, s + duration <= RuleEnd(d)
          PROVE  s <= RuleEnd(d)
      BY <1>1, <2>1
    <2>2. \A s : s \in RuleStart(d) .. RuleEnd(d) <=>
                   s \in Int /\ RuleStart(d) <= s /\ s <= RuleEnd(d)
      BY <1>1
    <2>3. QED
      BY <2>1, <2>2 DEF Pieces
  <1>3. QED
    BY <1>2 DEF Described

\* While a request runs, its list does not change its meaning.
LEMMA SteadyList ==
    ASSUME UNCHANGED <<tables, now, loaded>>
    PROVE  /\ \A t : LocalDay(t)' = LocalDay(t) /\ Midnight(t)' = Midnight(t)
           /\ \A i : Listed(i)' = Listed(i)
           /\ \A d : Described(d)' = Described(d)
           /\ \A j : Described(LocalDay(Listed(j)))' = Described(LocalDay(Listed(j)))
           /\ \A n : Tried(n)' = Tried(n)
           /\ window' = window
  <1>1. /\ zone' = zone /\ rules' = rules /\ duration' = duration /\ window' = window
        /\ now' = now /\ loaded' = loaded
    BY DEF tables
  <1>2. \A t : LocalDay(t)' = LocalDay(t) /\ Midnight(t)' = Midnight(t)
    BY <1>1 DEF LocalDay, Clock, Midnight, Instant, UTCOffset
  <1>3. \A i : Listed(i)' = Listed(i)
    BY <1>1 DEF Listed, Today, Midnight, LocalDay, Clock, Instant, UTCOffset
  <1>4. \A d : Described(d)' = Described(d)
    <2>1. \A s : (InWindow(s)' <=> InWindow(s)) /\ (IsFree(s)' <=> IsFree(s))
      BY <1>1 DEF InWindow, WindowEnd, IsFree, Slot
    <2>2. \A d : /\ RuleStart(d)' = RuleStart(d) /\ RuleEnd(d)' = RuleEnd(d)
                 /\ (RuleApplies(d)' <=> RuleApplies(d))
      BY <1>1 DEF RuleStart, RuleEnd, RuleApplies, Weekday, Instant, UTCOffset
    <2>3. QED
      BY <1>1, <2>1, <2>2 DEF Described
  <1>5. \A j : Described(LocalDay(Listed(j)))' = Described(LocalDay(Listed(j)))
    BY <1>1, <1>3, <1>4 DEF Described, LocalDay, Clock, UTCOffset, RuleStart, RuleEnd,
                            RuleApplies, Weekday, Instant, InWindow, WindowEnd, IsFree, Slot
  <1>6. \A n : Tried(n)' = Tried(n)
    BY <1>3, <1>5 DEF Tried
  <1>7. QED
    BY <1>1, <1>2, <1>3, <1>4, <1>5, <1>6

\* At the filter, what is available is what is documented.
LEMMA AvailableIsDescribed ==
    ASSUME IInv, pc = "filter"
    PROVE  Available = Described(day)
  <1>1. day \in Int
    BY DEF IInv, Counted
  <1>2. Available = {s \in IF RuleApplies(day) THEN Pieces(day) ELSE {} :
                       InWindow(s) /\ IsFree(s)}
    BY DEF IInv, Cut, Available
  <1>3. QED
    BY <1>1, <1>2, DescribedPieces DEF IInv

LEMMA SubmitKeeps ==
    ASSUME PageInv, Submit
    PROVE  Asked' /\ Listing'
  <1>1. PICK f \in Forms :
            form' = {f[1]} /\ Calculate(LocalDay(Midnight(UTCDay(f[1] + f[2]))))
    BY DEF Submit
  <1>2. /\ UNCHANGED <<tables, now>> /\ left' = left /\ dates' = dates
        /\ day' = LocalDay(Midnight(UTCDay(f[1] + f[2]))) /\ loaded' = Loaded
        /\ pc' \in {"loop", "filter"} /\ pc \in {"idle", "picked"}
    BY <1>1 DEF Submit, Calculate, list
  <1>3. /\ f[1] \in Int /\ f[2] \in Int
        /\ f[2] = 0 \/ offered' = {}
    <2>1. f[1] \in Int /\ f[2] \in Int /\ (pc = "picked" => f[2] = 0)
      BY FormsAreNumbers DEF PageInv, IInv
    <2>2. pc = "idle" => offered' = {}
      BY DEF PageInv, IInv, Shown, Submit
    <2>3. QED
      BY <1>2, <2>1, <2>2
  <1>4. left <= 0
    BY <1>2 DEF PageInv, Asked, Running
  <1>5. day' = LocalDay(Midnight(UTCDay(f[1] + f[2])))'
    BY <1>2 DEF tables, LocalDay, Clock, Midnight, Instant, UTCOffset, UTCDay
  <1>6. offered' = {} \/ \E d \in Int : offered' = Described(d)'
    <2>1. offered' = slots
      BY DEF Submit
    <2>2. CASE pc = "idle"
      BY <2>1, <2>2 DEF PageInv, IInv, Shown
    <2>3. CASE pc = "picked"
      <3>1. day \in Int /\ slots = Described(day)
        BY <2>3, DescribedPieces DEF PageInv, IInv, Counted, Shown
      <3>2. PICK d \in Int : d = day
        BY <3>1
      <3>3. UNCHANGED <<tables, now, loaded>>
        BY <1>2, <2>3 DEF PageInv, IInv, Fresh
      <3>4. Described(d)' = Described(d)
        BY <3>3, SteadyList
      <3>5. QED
        BY <2>1, <3>1, <3>2, <3>4
    <2>4. QED
      BY <1>2, <2>2, <2>3
  <1>7. Asked'
    BY <1>1, <1>2, <1>3, <1>4, <1>5, <1>6 DEF Asked, Running
  <1>8. Listing'
    <2>1. CASE left = 0
      <3>1. loaded = Loaded
        BY <1>2, <2>1 DEF PageInv, Listing, NoList, IInv, Fresh
      <3>2. window' = window /\ Tried(window - left)' = Tried(window - left)
        <4>1. UNCHANGED <<tables, now, loaded>>
          BY <1>2, <3>1
        <4>2. (window - left)' = window - left
          BY <1>2 DEF tables
        <4>3. Tried(window - left)' = {Listed(i)' : i \in {j \in 0 .. (window - left) - 1 :
                                         Described(LocalDay(Listed(j)))' # {}}}
          BY <4>2 DEF Tried
        <4>4. \A j : /\ Listed(j)' = Listed(j)
                     /\ Described(LocalDay(Listed(j)))' = Described(LocalDay(Listed(j)))
          BY <4>1, SteadyList
        <4>5. QED
          BY <1>2, <4>3, <4>4 DEF Tried, tables
      <3>3. QED
        BY <1>2, <2>1, <3>2 DEF PageInv, Listing
    <2>2. CASE left # 0
      <3>1. left = NoList
        <4>1. left \in NoList .. window /\ window \in Int
          BY Numbers DEF PageInv, Listing, IInv
        <4>2. QED
          BY <1>4, <2>2, <4>1 DEF NoList
      <3>2. left' = -1 /\ left' \in NoList .. window'
        BY <1>2, <3>1 DEF PageInv, Listing, NoList, tables
      <3>3. QED
        BY <1>2, <3>2 DEF Listing
    <2>3. QED
      BY <2>1, <2>2
  <1>9. QED
    BY <1>7, <1>8

LEMMA ListDateKeeps ==
    ASSUME PageInv, ListDate
    PROVE  Asked' /\ Listing'
  <1> DEFINE n == window - left
  <1>1. PICK t \in (IF left > 1 THEN {Listed(window - left + 1)}
                    ELSE IF dates' = {} THEN {Today}
                    ELSE {x \in dates' : \A y \in dates' : x <= y}) :
            Calculate(LocalDay(t))
    BY DEF ListDate
  <1>2. /\ UNCHANGED <<tables, now>> /\ loaded' = Loaded /\ form' = form
        /\ left' = left - 1 /\ left > 0 /\ pc = "filter" /\ pc' \in {"loop", "filter"}
        /\ day' = LocalDay(t)
        /\ dates' = IF Available = {} THEN dates ELSE dates \cup {Listed(n)}
    BY <1>1 DEF ListDate, Calculate
  <1>3. /\ window \in Int /\ left \in Int /\ left <= window /\ n \in Int /\ n >= 0
        /\ n + 1 = window - (left - 1)
    <2>1. left \in NoList .. window /\ window \in Int
      BY Numbers DEF PageInv, Listing, IInv
    <2>2. QED
      BY <2>1 DEF NoList
  <1>4. UNCHANGED <<tables, now, loaded>>
    BY <1>2 DEF PageInv, IInv, Fresh
  <1>5. form' = {}
    BY <1>2, <1>3 DEF PageInv, Asked
  <1>6. Asked'
    BY <1>2, <1>5 DEF Asked, Running
  <1>7. Available = Described(LocalDay(Listed(n)))
    BY <1>2, AvailableIsDescribed DEF PageInv, Listing
  <1>8. dates' = Tried(n + 1)
    <2>1. dates = Tried(n)
      BY <1>2, <1>3 DEF PageInv, Listing
    <2>2. \A j : j \in 0 .. (n + 1) - 1 <=> j \in 0 .. n - 1 \/ j = n
      BY <1>3
    <2>3. CASE Described(LocalDay(Listed(n))) = {}
      <3>1. {j \in 0 .. (n + 1) - 1 : Described(LocalDay(Listed(j))) # {}}
              = {j \in 0 .. n - 1 : Described(LocalDay(Listed(j))) # {}}
        BY <2>2, <2>3
      <3>2. Tried(n + 1) = Tried(n)
        BY <3>1 DEF Tried
      <3>3. QED
        BY <1>2, <1>7, <2>1, <2>3, <3>2
    <2>4. CASE Described(LocalDay(Listed(n))) # {}
      <3>1. {j \in 0 .. (n + 1) - 1 : Described(LocalDay(Listed(j))) # {}}
              = {j \in 0 .. n - 1 : Described(LocalDay(Listed(j))) # {}} \cup {n}
        BY <2>2, <2>4
      <3>2. Tried(n + 1) = Tried(n) \cup {Listed(n)}
        BY <3>1 DEF Tried
      <3>3. QED
        BY <1>2, <1>7, <2>1, <2>4, <3>2
    <2>5. QED
      BY <2>3, <2>4
  <1>9. (window - left)' = n + 1 /\ window' = window
    BY <1>2, <1>3 DEF tables
  <1>10. dates' = Tried(window - left)'
    <2>1. Tried(window - left)' = {Listed(i)' : i \in {j \in 0 .. (n + 1) - 1 :
                                     Described(LocalDay(Listed(j)))' # {}}}
      BY <1>9 DEF Tried
    <2>2. \A j : Listed(j)' = Listed(j)
      BY <1>4, SteadyList
    <2>3. \A j : Described(LocalDay(Listed(j)))' = Described(LocalDay(Listed(j)))
      BY <1>4, SteadyList
    <2>4. Tried(window - left)' = Tried(n + 1)
      BY <2>1, <2>2, <2>3 DEF Tried
    <2>5. QED
      BY <1>8, <2>4
  <1>11. left' > 0 => day' = LocalDay(Listed(window - left))'
    <2> SUFFICES ASSUME left - 1 > 0 PROVE day' = LocalDay(Listed(window - left))'
      BY <1>2
    <2>1. t = Listed(n + 1)
      BY <1>1, <1>3
    <2>2. LocalDay(Listed(window - left))' = LocalDay(Listed(n + 1))
      BY <1>4, <1>9 DEF tables, LocalDay, Clock, Listed, Today, Midnight, Instant, UTCOffset
    <2>3. QED
      BY <1>2, <2>1, <2>2
  <1>12. left' \in NoList .. window'
    BY <1>2, <1>3, <1>9 DEF NoList
  <1>13. Listing'
    BY <1>2, <1>10, <1>11, <1>12 DEF Listing
  <1>14. QED
    BY <1>6, <1>13

\* The steps that leave the tables, the rows, the form and the list as they are.
LEMMA LoopKeeps ==
    ASSUME PageInv, Candidate \/ Filter \/ UNCHANGED vars
    PROVE  Asked' /\ Listing'
  <1>1. /\ UNCHANGED <<tables, now, loaded>> /\ form' = form /\ left' = left
        /\ dates' = dates /\ day' = day /\ offered' = offered
    BY DEF Candidate, Filter, vars, list, loop
  <1>2. Tried(window - left)' = Tried(window - left)
    <2>1. (window - left)' = window - left
      BY <1>1 DEF tables
    <2>2. Tried(window - left)' = {Listed(i)' : i \in {j \in 0 .. (window - left) - 1 :
                                     Described(LocalDay(Listed(j)))' # {}}}
      BY <2>1 DEF Tried
    <2>3. \A j : /\ Listed(j)' = Listed(j)
                 /\ Described(LocalDay(Listed(j)))' = Described(LocalDay(Listed(j)))
      BY <1>1, SteadyList
    <2>4. QED
      BY <2>2, <2>3 DEF Tried
  <1>3. /\ LocalDay(Listed(window - left))' = LocalDay(Listed(window - left))
        /\ \A t : LocalDay(Midnight(UTCDay(t)))' = LocalDay(Midnight(UTCDay(t)))
    BY <1>1 DEF tables, LocalDay, Clock, Listed, Today, Midnight, Instant, UTCOffset, UTCDay
  <1>4. pc' = "idle" => pc = "idle"
    BY DEF Candidate, Leave, Take, Filter, vars
  <1>5. Listing'
    BY <1>1, <1>2, <1>3, <1>4 DEF PageInv, Listing, tables
  <1>6. pc' \notin {"loop", "filter"} => left <= 0
    BY DEF PageInv, Asked, Running, Candidate, Leave, Take, Filter, vars
  <1>7. pc' \in {"accepted", "unavailable"} => (pc' = "accepted" <=> form \subseteq slots')
    BY DEF PageInv, Asked, Candidate, Leave, Take, Filter, vars
  <1>8. ASSUME form # {}
        PROVE  /\ \E s, o \in Int : /\ form' = {s}
                                    /\ day' = LocalDay(Midnight(UTCDay(s + o)))'
                                    /\ o = 0 \/ offered' = {}
               /\ offered' = {} \/ \E d \in Int : offered' = Described(d)'
    <2>1. \A d : Described(d)' = Described(d)
      BY <1>1, SteadyList
    <2>2. PICK s \in Int, o \in Int : /\ form = {s} /\ day = LocalDay(Midnight(UTCDay(s + o)))
                                      /\ o = 0 \/ offered = {}
      BY <1>8 DEF PageInv, Asked
    <2>3. offered = {} \/ \E d \in Int : offered = Described(d)
      BY <1>8 DEF PageInv, Asked
    <2>4. /\ form' = {s} /\ day' = LocalDay(Midnight(UTCDay(s + o)))'
          /\ o = 0 \/ offered' = {}
      BY <1>1, <1>3, <2>2
    <2>5. offered' = {} \/ \E d \in Int : offered' = Described(d)'
      BY <1>1, <2>1, <2>3
    <2>6. QED
      BY <2>4, <2>5
  <1>9. Asked'
    BY <1>1, <1>4, <1>6, <1>7, <1>8 DEF PageInv, Asked, Running
  <1>10. QED
    BY <1>5, <1>9

LEMMA PageInvariance == Spec => []PageInv
  <1>1. Init => Asked /\ Listing
    <2> SUFFICES ASSUME Init PROVE Asked /\ Listing
      OBVIOUS
    <2>1. window \in Nat \ {0}
      BY TypesAssumption DEF Init
    <2>2. QED
      BY <2>1 DEF Init, Asked, Running, Listing, NoList
  <1>2. PageInv /\ [Next]_vars => Asked' /\ Listing'
    <2> SUFFICES ASSUME PageInv, [Next]_vars PROVE Asked' /\ Listing'
      OBVIOUS
    <2>1. CASE Pick
      <3>1. /\ form' = {} /\ left' = NoList /\ dates' = {} /\ pc' \in {"loop", "filter"}
            /\ window' = window
        BY <2>1 DEF PageInv, Asked, Listing, Pick, Calculate, list, tables
      <3>2. window \in Nat
        BY Numbers DEF PageInv, IInv
      <3>3. QED
        BY <3>1, <3>2 DEF Asked, Running, Listing, NoList
    <2>2. CASE Browse
      <3>1. /\ form' = {} /\ left' = window /\ dates' = {} /\ pc' \in {"loop", "filter"}
            /\ day' = LocalDay(Listed(0)) /\ UNCHANGED <<tables, now>>
        BY <2>2 DEF PageInv, Asked, Listing, Browse, Calculate
      <3>2. window \in Nat /\ window' = window
        BY <3>1, Numbers DEF PageInv, IInv, tables
      <3>3. (window - left)' = 0
        BY <3>1, <3>2
      <3>4. LocalDay(Listed(window - left))' = LocalDay(Listed(0))
        BY <3>1, <3>3 DEF tables, LocalDay, Clock, Listed, Today, Midnight, Instant, UTCOffset
      <3>5. Tried(window - left)' = {}
        BY <3>3 DEF Tried
      <3>6. Listing'
        BY <3>1, <3>2, <3>4, <3>5 DEF Listing, NoList
      <3>7. QED
        BY <3>1, <3>6 DEF Asked, Running
    <2>3. CASE Submit
      BY <2>3, SubmitKeeps
    <2>4. CASE ListDate
      BY <2>4, ListDateKeeps
    <2>5. CASE Candidate \/ Filter \/ Done \/ UNCHANGED vars
      BY <2>5, LoopKeeps DEF Done
    <2>6. QED
      BY <2>1, <2>2, <2>3, <2>4, <2>5 DEF Next
  <1>3. QED
    BY <1>1, <1>2, Invariance, PTL DEF Spec, PageInv
-----------------------------------------------------------------------------
(***************************************************************************)
(* What it means for guests and hosts.                                     *)
(***************************************************************************)

\* What CalculateSlots (slots.go:41) returns for a date is the rule of its weekday
\* cut into pieces of the duration, those in the window and free, whatever the
\* rule, the duration, the zone and the changes of its clock.
THEOREM SlotsAsDescribed == Spec => []SlotsAreDescribed
  <1>1. IInv => SlotsAreDescribed
    <2> SUFFICES ASSUME IInv, pc \in {"picked", "accepted", "unavailable"}
                 PROVE  slots = Described(day)
      BY DEF SlotsAreDescribed
    <2>1. slots = {s \in IF RuleApplies(day) THEN Pieces(day) ELSE {} : InWindow(s) /\ IsFree(s)}
      BY DEF IInv, Shown
    <2>2. day \in Int
      BY DEF IInv, Counted
    <2>3. QED
      BY <2>1, <2>2, DescribedPieces DEF IInv
  <1>2. QED
    BY <1>1, Invariance, PTL

\* A slot that is offered is free of every active booking of the host and of every
\* event of his the synchronisation can have cached, which those occurrences of recurring
\* events are not that have run for over an hour (caldav.go:281); although only the rows
\* between an hour ago and the end of the window are loaded (public.go:274).
THEOREM OfferedSlotsAreFree == Spec => []OfferedIsFree
  <1>1. IInv => OfferedIsFree
    <2> SUFFICES ASSUME IInv, NEW s \in slots, s + duration <= WindowEnd
                 PROVE  /\ \A x \in Kept : ~Overlaps(x, Slot(s))
                        /\ s + duration <= now + Horizon =>
                             \A e \in busy : ~Unexpanded(e) => ~Overlaps(Interval(e), Slot(s))
      BY DEF OfferedIsFree
    <2>1. /\ s \in Int /\ duration \in Int /\ now \in Int /\ Horizon \in Int
          /\ DayLen \in Nat /\ window \in Nat
      BY Numbers, InstantsAssumption DEF IInv, Counted
    <2>2. InWindow(s) /\ IsFree(s) /\ loaded = Loaded
      BY DEF IInv, Shown, Fresh
    <2>3. ASSUME NEW e \in busy \cup booked, Interval(e) \in Stored
          PROVE  ~Overlaps(Interval(e), Slot(s))
      <3> DEFINE x == Interval(e)
      <3> SUFFICES ASSUME Overlaps(x, Slot(s)) PROVE FALSE
        OBVIOUS
      <3>1. x.from \in Int /\ x.to \in Int
        <4>1. e.from \in Int /\ e.to \in Int
          BY RowsAssumption DEF IInv, Settled
        <4>2. QED
          BY <4>1 DEF Interval
      <3>2. x.from < s + duration /\ x.to > s
        BY DEF Overlaps, Slot
      <3> HIDE DEF x
      <3>3. x.from < now + window * DayLen
        <4>1. window * DayLen \in Int
          BY <2>1
        <4>2. QED
          BY <2>1, <3>1, <3>2, <4>1 DEF WindowEnd
      <3>4. x.to > now - 1
        BY <2>1, <2>2, <3>1, <3>2 DEF InWindow
      <3>5. x \in Loaded
        BY <2>3, <3>3, <3>4 DEF InRange, Loaded, x
      <3>6. QED
        BY <2>2, <3>5 DEF IsFree
    <2>4. \A x \in Kept : ~Overlaps(x, Slot(s))
      BY <2>3 DEF Kept, Stored
    <2>5. ASSUME s + duration <= now + Horizon, NEW e \in busy, ~Unexpanded(e),
                 Overlaps(Interval(e), Slot(s))
          PROVE  FALSE
      <3>1. e.from \in Int /\ e.from < s + duration
        BY <2>5, RowsAssumption DEF IInv, Settled, Overlaps, Interval, Slot
      <3>2. e \in Cached
        BY <2>1, <2>5, <3>1 DEF Cached
      <3>3. QED
        BY <2>3, <2>5, <3>2 DEF Stored
    <2>6. QED
      BY <2>4, <2>5
  <1>2. QED
    BY <1>1, Invariance, PTL

\* Two slots of one page never overlap, so that who takes one leaves the other free.
THEOREM OfferedSlotsAreDisjoint == Spec => []OfferedAreDisjoint
  <1>1. IInv => OfferedAreDisjoint
    <2> SUFFICES ASSUME IInv, NEW s \in slots, NEW t \in slots, s # t
                 PROVE  ~Overlaps(Slot(s), Slot(t))
      BY DEF OfferedAreDisjoint
    <2>1. s \in Pieces(day) /\ t \in Pieces(day)
      BY DEF IInv, Shown
    <2>2. /\ s \in Int /\ (s - RuleStart(day)) % duration = 0
          /\ t \in Int /\ (t - RuleStart(day)) % duration = 0
      BY <2>1 DEF Pieces
    <2>3. RuleStart(day) \in Int /\ duration \in Nat \ {0}
      <3>1. duration > 0
        BY <2>1 DEF Pieces
      <3>2. RuleStart(day) \in Int /\ duration \in Int
        BY Numbers DEF IInv, Counted
      <3>3. QED
        BY <3>1, <3>2
    <2>4. /\ s - RuleStart(day) \in Int /\ t - RuleStart(day) \in Int
          /\ s - RuleStart(day) # t - RuleStart(day)
      BY <2>2, <2>3
    <2>5. CASE s <= t
      <3>1. ~(t - RuleStart(day) < (s - RuleStart(day)) + duration)
        <4>1. s - RuleStart(day) <= t - RuleStart(day)
          BY <2>2, <2>3, <2>5
        <4>2. QED
          BY <2>2, <2>3, <2>4, <4>1, NoMultipleBetween
      <3>2. s + duration <= t
        BY <2>2, <2>3, <3>1
      <3>3. QED
        BY <2>2, <2>3, <3>2 DEF Overlaps, Slot
    <2>6. CASE t <= s
      <3>1. ~(s - RuleStart(day) < (t - RuleStart(day)) + duration)
        <4>1. t - RuleStart(day) <= s - RuleStart(day)
          BY <2>2, <2>3, <2>6
        <4>2. QED
          BY <2>2, <2>3, <2>4, <4>1, NoMultipleBetween
      <3>2. t + duration <= s
        BY <2>2, <2>3, <3>1
      <3>3. QED
        BY <2>2, <2>3, <3>2 DEF Overlaps, Slot
    <2>7. QED
      BY <2>2, <2>5, <2>6
  <1>2. QED
    BY <1>1, Invariance, PTL

\* A form that gets through names a time inside the active rule of the host's own
\* date, although it is looked up under the date of its time stamp (public.go:190), at
\* whatever offset that is written, and also on the day the clocks are changed: what
\* a date's rule yields lies on that date.
THEOREM AcceptedTimes == Spec => []AcceptedByWallClock
  <1>1. PageInv => AcceptedByWallClock
    <2> SUFFICES ASSUME PageInv, pc = "accepted", NEW s \in form
                 PROVE  /\ RuleApplies(LocalDay(s))
                        /\ RuleStart(LocalDay(s)) <= s
                        /\ s + duration <= RuleEnd(LocalDay(s))
      BY DEF AcceptedByWallClock
    <2>1. s \in slots
      BY DEF PageInv, Asked
    <2>2. s \in Pieces(day) /\ RuleApplies(day)
      BY <2>1 DEF PageInv, IInv, Shown
    <2>3. s \in Int /\ RuleStart(day) <= s /\ s + duration <= RuleEnd(day)
      BY <2>2 DEF Pieces
    <2>4. PICK k \in Int : day = LocalDay(Midnight(k))
      <3>1. PICK t \in Int, o \in Int : day = LocalDay(Midnight(UTCDay(t + o)))
        BY DEF PageInv, Asked
      <3>2. UTCDay(t + o) \in Int
        BY <3>1, DateOfUTC
      <3>3. QED
        BY <3>1, <3>2
    <2>5. Settled /\ day \in Int
      BY DEF PageInv, IInv, Counted
    <2>6. s < RuleEnd(day)
      <3>1. duration > 0
        BY <2>2 DEF Pieces
      <3>2. RuleEnd(day) \in Int /\ duration \in Int
        BY <2>5, Numbers
      <3>3. QED
        BY <2>3, <3>1, <3>2
    <2>7. LocalDay(s) = day
      BY <2>3, <2>4, <2>5, <2>6, PiecesLieOnTheDay
    <2>8. QED
      BY <2>2, <2>3, <2>7
  <1>2. QED
    BY <1>1, PageInvariance, PTL

\* A slot that was just shown is refused only where the UTC date it is looked up under
\* (public.go:198) is not the host's date, or has no midnight in his zone: the page was
\* then that of the same date, and nothing else has changed.
THEOREM RefusedDates == Spec => []RefusedOnOtherDates
  <1>1. PageInv => RefusedOnOtherDates
    <2> SUFFICES ASSUME PageInv, pc = "unavailable", form \subseteq offered, NEW s \in form,
                        LocalDay(s) = UTCDay(s), Clock(Midnight(UTCDay(s))) = UTCDay(s) * DayLen
                 PROVE  FALSE
      BY DEF RefusedOnOtherDates
    <2> DEFINE e == UTCDay(s)
    <2>1. s \in Int /\ form = {s} /\ day = LocalDay(Midnight(e))
      <3>1. PICK t \in Int, o \in Int : /\ form = {t} /\ day = LocalDay(Midnight(UTCDay(t + o)))
                                        /\ o = 0 \/ offered = {}
        BY DEF PageInv, Asked
      <3>2. s = t /\ o = 0
        BY <3>1
      <3>3. s + o = s
        BY <3>1, <3>2
      <3>4. QED
        BY <3>1, <3>2, <3>3
    <2>2. Settled /\ DayLen \in Nat \ {0} /\ duration \in Nat \ {0}
      <3>1. \E d \in Int : s \in Described(d)
        BY <2>1 DEF PageInv, Asked
      <3>2. duration > 0
        BY <3>1 DEF Described
      <3>3. QED
        BY <3>2, Numbers DEF PageInv, IInv
    <2>3. e \in Int /\ Midnight(e) \in Int
      BY <2>1, <2>2, DateOfUTC, Numbers
    <2>4. day = e
      <3>1. e * DayLen \in Int
        BY <2>2, <2>3
      <3>2. e * DayLen <= Clock(Midnight(e)) /\ Clock(Midnight(e)) < e * DayLen + DayLen
        BY <2>2, <3>1
      <3>3. QED
        BY <2>1, <2>2, <2>3, <3>2, DayIs
    <2>5. slots = Described(e)
      <3>1. slots = Described(day)
        BY <2>2, <2>3, <2>4, DescribedPieces DEF PageInv, IInv, Shown
      <3>2. QED
        BY <2>4, <3>1
    <2>6. s \notin slots
      BY <2>1 DEF PageInv, Asked
    <2>7. PICK d \in Int : s \in Described(d)
      BY <2>1 DEF PageInv, Asked
    <2>8. d = e
      <3>1. RuleStart(d) <= s /\ s < RuleEnd(d)
        <4>1. RuleStart(d) <= s /\ s + duration <= RuleEnd(d)
          BY <2>2, <2>7, Numbers DEF Described
        <4>2. RuleEnd(d) \in Int
          BY <2>2, Numbers
        <4>3. QED
          BY <2>1, <2>2, <4>1, <4>2
      <3>2. /\ ~(Skipped(d * DayLen) /\ d * DayLen < zone.change) => d * DayLen <= Clock(s)
            /\ Clock(s) < d * DayLen + DayLen
        BY <2>1, <2>2, <3>1, PiecesOfTheDay
      <3>3. CASE ~(Skipped(d * DayLen) /\ d * DayLen < zone.change)
        BY <2>1, <2>2, <3>2, <3>3, DayIs
      <3>4. CASE Skipped(d * DayLen) /\ d * DayLen < zone.change
        <4>1. d * DayLen <= s
          BY <2>1, <2>2, <3>1, <3>4, PiecesAfterMidnightUTC
        <4>2. d <= e
          BY <2>1, <4>1, DateOfUTC
        <4>3. e <= d
          <5>1. e * DayLen <= Clock(s)
            BY <2>1, <2>2, DayBounds
          <5>2. SUFFICES ASSUME d + 1 <= e PROVE FALSE
            BY <2>3
          <5>3. (d + 1) * DayLen <= e * DayLen
            BY <2>2, <2>3, <5>2, SMT
          <5>4. d * DayLen + DayLen <= e * DayLen
            BY <2>2, <2>3, <5>3, SMT
          <5>5. Clock(s) \in Int /\ e * DayLen \in Int /\ d * DayLen \in Int
            BY <2>1, <2>2, <2>3, ZoneNumbers
          <5>6. QED
            BY <2>2, <3>2, <5>1, <5>4, <5>5
        <4>4. QED
          BY <2>3, <4>2, <4>3
      <3>5. QED
        BY <3>3, <3>4
    <2>9. QED
      BY <2>5, <2>6, <2>7, <2>8
  <1>2. QED
    BY <1>1, PageInvariance, PTL

\* The list of dates of the full page (public.go:119) names the dates with a slot from
\* today to the end of the window, and only those, over every change of the clocks.  It
\* misses the date in the middle of which the window ends, and can miss the one before
\* it, when a day has 25 hours, and today, when today has no midnight.
THEOREM ListedDates == Spec => []DatesAreListed
  <1>1. PageInv => DatesAreListed
    <2> SUFFICES ASSUME PageInv, pc = "picked", left = 0
                 PROVE  LET days == {LocalDay(t) : t \in dates}
                            last == LocalDay(now) + window - 1
                        IN  /\ \A d \in days : Described(d) # {}
                            /\ \A d \in LocalDay(now) .. LocalDay(WindowEnd) \ days :
                                 Described(d) # {} =>
                                   \/ d > last
                                   \/ d = last /\ LocalDay(Listed(window - 1)) < last
                                   \/ d = LocalDay(now) /\ LocalDay(Today) < d
      BY DEF DatesAreListed
    <2> DEFINE days == {LocalDay(t) : t \in dates}
               last == LocalDay(now) + window - 1
    <2>1. /\ window \in Nat \ {0} /\ LocalDay(now) \in Int /\ last \in Int
          /\ LocalDay(WindowEnd) \in Int
      <3>1. window \in Nat \ {0} /\ now \in Int /\ DayLen \in Nat /\ LocalDay(now) \in Int
        BY Numbers DEF PageInv, IInv
      <3>2. WindowEnd \in Int
        BY <3>1 DEF WindowEnd
      <3>3. QED
        BY <3>1, <3>2, Numbers DEF PageInv, IInv
    <2>2. dates = Tried(window)
      BY <2>1 DEF PageInv, Listing
    <2>3. days = {LocalDay(Listed(i)) : i \in {j \in 0 .. window - 1 :
                                                 Described(LocalDay(Listed(j))) # {}}}
      BY <2>2 DEF Tried
    <2>4. \A d \in days : Described(d) # {}
      BY <2>3
    <2>5. ASSUME NEW d \in LocalDay(now) .. LocalDay(WindowEnd) \ days, Described(d) # {},
                 ~(d > last)
          PROVE  \/ d = last /\ LocalDay(Listed(window - 1)) < last
                 \/ d = LocalDay(now) /\ LocalDay(Today) < d
      <3> DEFINE i == d - LocalDay(now)
      <3>1. i \in 0 .. window - 1 /\ LocalDay(now) + i = d /\ d \in Int
        BY <2>1, <2>5
      <3>2. \A j \in 0 .. window - 1 : LocalDay(Listed(j)) # d
        BY <2>3, <2>5
      <3>3. \/ i = window - 1 /\ LocalDay(Listed(window - 1)) < d
            \/ i = 0 /\ LocalDay(Today) < LocalDay(now)
        <4>1. Settled
          BY DEF PageInv, IInv
        <4>2. \/ \E j \in 0 .. window - 1 : LocalDay(Listed(j)) = LocalDay(now) + i
              \/ i = window - 1 /\ LocalDay(Listed(window - 1)) < LocalDay(now) + i
              \/ i = 0 /\ LocalDay(Today) < LocalDay(now)
          BY <3>1, <4>1, ListCovers
        <4>3. QED
          BY <3>1, <3>2, <4>2
      <3>4. i = window - 1 => d = last
        BY <2>1, <3>1
      <3>5. i = 0 => d = LocalDay(now)
        BY <2>1, <3>1
      <3>6. QED
        BY <3>3, <3>4, <3>5
    <2>6. QED
      BY <2>4, <2>5
  <1>2. QED
    BY <1>1, PageInvariance, PTL

-----------------------------------------------------------------------------
(***************************************************************************)
(* Why requests end.                                                       *)
(***************************************************************************)

\* What the loop has before it on its date.
Ahead == RuleEnd(day) - at

\* A step of a running request ends it, or is done with a date of its list, or leaves
\* the loop, or brings the loop nearer to the end of the rule, which it never passes.
Descends ==
    Running =>
        \/ ~Running'
        \/ left' \in 0 .. left - 1
        \/ left' = left /\ pc = "loop" /\ pc' = "filter"
        \/ left' = left /\ pc = "loop" /\ pc' = "loop" /\ Ahead' \in 0 .. Ahead - 1

\* With a duration of at least one, the loops of handleSlotPicker (public.go:121) and
\* CalculateSlots (slots.go:48) go on no longer than this: the days left, then the place
\* in the code, then the time left in the rule go down in every step, whatever the rule,
\* the list and the zone.
THEOREM RequestsDescend == Spec => [][duration > 0 => Descends]_vars
  <1>1. PageInv /\ [Next]_vars => [duration > 0 => Descends]_vars
    <2> SUFFICES ASSUME PageInv, Next, Running, duration > 0 PROVE Descends
      BY DEF Descends, vars, tables, list, loop
    <2>1. CASE Candidate
      <3>1. /\ left' = left /\ pc = "loop" /\ day' = day /\ UNCHANGED <<tables, now>>
        BY <2>1 DEF Candidate, list
      <3>2. CASE at + duration > RuleEnd(day)
        BY <2>1, <3>1, <3>2 DEF Candidate, Leave, Descends
      <3>3. CASE ~(at + duration > RuleEnd(day))
        <4>1. pc' = pc /\ at' = at + duration
          BY <2>1, <3>3 DEF Candidate, Take
        <4>2. RuleEnd(day)' = RuleEnd(day)
          BY <3>1 DEF tables, RuleEnd, Instant, UTCOffset, Weekday
        <4>3. at \in Int /\ day \in Int /\ Settled
          BY DEF PageInv, IInv, Counted
        <4>4. RuleEnd(day) \in Int /\ duration \in Nat \ {0}
          BY <4>3, Numbers
        <4>5. Ahead' \in 0 .. Ahead - 1
          BY <3>3, <4>1, <4>2, <4>3, <4>4 DEF Ahead
        <4>6. QED
          BY <3>1, <4>1, <4>5 DEF Descends
      <3>4. QED
        BY <3>2, <3>3
    <2>2. CASE ListDate
      <3>1. left > 0 /\ left' = left - 1
        BY <2>2 DEF ListDate
      <3>2. left \in Int
        BY DEF PageInv, IInv, Counted
      <3>3. QED
        BY <3>1, <3>2 DEF Descends
    <2>3. CASE Filter
      BY <2>3 DEF Filter, Descends, Running
    <2>4. QED
      BY <2>1, <2>2, <2>3 DEF Next, Pick, Browse, Submit, Done, Running
  <1>2. QED
    BY <1>1, PageInvariance, PTL DEF Spec

\* With the durations dashboard.go:371 stores besides, zero and less, the loop of
\* CalculateSlots has no exit once it has taken a slot: no rule and no row lets the
\* request go on to the filter.
THEOREM LoopNeverLeaves ==
    Spec => [][pc = "loop" /\ duration <= 0 /\ candidates # {}
                 => pc' = "loop" /\ candidates' # {} /\ day' = day]_vars
  <1>1. IInv /\ [Next]_vars =>
          [pc = "loop" /\ duration <= 0 /\ candidates # {}
             => pc' = "loop" /\ candidates' # {} /\ day' = day]_vars
    <2> SUFFICES ASSUME IInv, Next, pc = "loop", duration <= 0, candidates # {}
                 PROVE  pc' = "loop" /\ candidates' # {} /\ day' = day
      OBVIOUS
    <2>1. Candidate
      BY DEF Next, Pick, Browse, Submit, ListDate, Filter, Done
    <2>2. at + duration <= RuleEnd(day)
      BY DEF IInv, Cut
    <2>3. at \in Int /\ duration \in Int /\ RuleEnd(day) \in Int
      BY Numbers DEF IInv, Counted
    <2>4. ~(at + duration > RuleEnd(day))
      BY <2>2, <2>3
    <2>5. QED
      BY <2>1, <2>4 DEF Candidate, Take
  <1>2. QED
    BY <1>1, Invariance, PTL DEF Spec
===============================================================================
