---------------------------- MODULE BookingTable ----------------------------
(***************************************************************************)
(* The vocabulary of the bookings table: its status column, the interval a *)
(* booking takes out of its host's day, and the conditions the SQL of      *)
(* internal/db/bookings.go puts on rows.  Pure operators, no state.        *)
(*                                                                         *)
(* An interval is a record [host, from, to]: rows reach their host through *)
(* event_types.user_id, so the host stands for that join.                  *)
(***************************************************************************)
EXTENDS Integers

\* schema.sql: CHECK(status IN (...)).  "NONE" is a row not inserted (yet).
Statuses == {"PENDING", "CONFIRMED", "REJECTED", "CANCELLED"}
Absent   == "NONE"

\* The rows that keep their slot: status IN ('PENDING','CONFIRMED').
Active   == {"PENDING", "CONFIRMED"}
\* The rows that have given their slot back.
Released == {"REJECTED", "CANCELLED"}
\* What docs/explanation/booking-flow.md calls the three terminal states.
Terminal == {"CONFIRMED", "REJECTED", "CANCELLED"}

\* The open-interval test of both re-checks (x.start_at < end AND
\* x.end_at > start), restricted to the events and rows of one host.
Overlaps(x, y) ==
    /\ x.host = y.host
    /\ x.from < y.to
    /\ x.to > y.from

\* The range the slot calculation loads rows from: (t - 1h, t + window).
InRange(x, t, window) ==
    /\ x.from < t + window
    /\ x.to > t - 1

\* The garbage collector's WHERE clause.
Expired(st, reservedUntil, t) == st = "PENDING" /\ reservedUntil <= t
=============================================================================
