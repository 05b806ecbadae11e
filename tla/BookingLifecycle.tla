-------------------------- MODULE BookingLifecycle --------------------------
(***************************************************************************)
(* What the booking service promises about its bookings, with no           *)
(* goroutines, connection, mails or clock in sight:                        *)
(*                                                                         *)
(*   - a booking is requested once, on an interval no active booking of    *)
(*     the host overlaps;                                                  *)
(*   - it changes status only to a verdict that somebody reached while it  *)
(*     was PENDING;                                                        *)
(*   - a verdict may take effect late, over another one: the service does  *)
(*     not promise more.                                                   *)
(***************************************************************************)
EXTENDS BookingTable

CONSTANTS Bookings, Intervals, NoInterval

VARIABLES
    status,     \* [Bookings -> Statuses or Absent]
    interval,   \* the interval of each requested booking
    verdicts    \* <<booking, status>> pairs reached and not yet forgotten

vars == <<status, interval, verdicts>>

Taken(s) == \E b \in Bookings : status[b] \in Active /\ Overlaps(interval[b], s)

Init ==
    /\ status = [b \in Bookings |-> Absent]
    /\ interval = [b \in Bookings |-> NoInterval]
    /\ verdicts = {}

Request(b) ==
    /\ status[b] = Absent
    /\ \E s \in Intervals :
         /\ ~Taken(s)
         /\ interval' = [interval EXCEPT ![b] = s]
    /\ status' = [status EXCEPT ![b] = "PENDING"]
    /\ UNCHANGED verdicts

\* The same verdict is reached on some bookings that are PENDING now.
Judge(bs, st) ==
    /\ \A b \in bs : status[b] = "PENDING"
    /\ verdicts' = verdicts \cup (bs \X {st})
    /\ UNCHANGED <<status, interval>>

\* Verdicts take effect together; any verdict may be forgotten on the way.
Enforce(bs, st) ==
    /\ bs \X {st} \subseteq verdicts
    /\ status' = [b \in Bookings |-> IF b \in bs THEN st ELSE status[b]]
    /\ verdicts' \subseteq verdicts
    /\ UNCHANGED interval

Forget ==
    /\ verdicts' \subseteq verdicts
    /\ UNCHANGED <<status, interval>>

Next ==
    \/ \E b \in Bookings : Request(b)
    \/ \E bs \in SUBSET Bookings, st \in Terminal : Judge(bs, st) \/ Enforce(bs, st)
    \/ Forget

Spec == Init /\ [][Next]_vars
=============================================================================
