---------------------------- MODULE MCSlotPicker ----------------------------
(***************************************************************************)
(* Instances of SlotPicker for TLC: days of six units, weeks of two days.  *)
(* Requests arrive on day 2 and on day 3, when the clocks are put forward  *)
(* from 2 to 3, or back from 3 to 2, or left alone.                        *)
(***************************************************************************)
EXTENDS SlotPicker

Rule(from, to, active) == [from |-> from, to |-> to, active |-> active]

\* A morning, a day whose end is not a multiple of the duration, the last hours
\* before midnight, one the wrong way round, and one switched off.
MCRules == {Rule(1, 4, TRUE), Rule(0, 5, TRUE), Rule(4, 2, TRUE), Rule(1, 4, FALSE)}

Plain(from, to)  == [from |-> from, to |-> to, recurs |-> FALSE]
Weekly(from, to) == [from |-> from, to |-> to, recurs |-> TRUE]

\* The first two are under way when requests arrive; only the plain one is cached.
MCBusy     == {Plain(8, 15), Weekly(8, 15), Weekly(14, 16), Plain(19, 20), Plain(25, 27)}
MCBookings == {[from |-> 13, to |-> 15, status |-> "PENDING"],
               [from |-> 20, to |-> 22, status |-> "CONFIRMED"],
               [from |-> 13, to |-> 15, status |-> "CANCELLED"]}
MCNow      == {12, 16, 20}
MCRequested == {13, 17, 18, 19, 20, 23, 24, 29}
MCOffsets   == {-4, 0, 5}

Zone(before, after, change) == [before |-> before, after |-> after, change |-> change]

\* The last one goes from -2 to -1 at midnight, so that day has no midnight.
MCZones == {Zone(2, 2, 18), Zone(2, 3, 18), Zone(3, 2, 18), Zone(-2, -1, 20)}
=============================================================================
