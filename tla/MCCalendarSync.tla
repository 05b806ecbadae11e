--------------------------- MODULE MCCalendarSync ---------------------------
(***************************************************************************)
(* Instances of CalendarSync for TLC: an account with two collections, one *)
(* of which holds a recurring event, and the URL of a single collection.   *)
(***************************************************************************)
EXTENDS CalendarSync

MCSources == {"account", "single"}
MCHomes   == {"account"}

MCUids       == {"lunch", "daily", "talk"}
MCSource     == [lunch |-> "account", daily |-> "account", talk |-> "single"]
MCCollection == [lunch |-> "c1", daily |-> "c2", talk |-> "c3"]
MCRecurring  == {"daily"}
MCLength     == [lunch |-> 1, daily |-> 3, talk |-> 1]

\* At 1 the window ends before 2; at 3 the lunch of 0 is purged, and the daily one of
\* 0 still runs but is not expanded any more.
MCTimes == {0, 2}
MCClock == {1, 3}

\* The daily event at both instants; and its first occurrence alone, moved.
MCAtFirst == {[lunch |-> {<<0, 0>>}, daily |-> {<<0, 0>>, <<2, 2>>}, talk |-> {<<2, 2>>}],
              [lunch |-> {<<2, 2>>}, daily |-> {<<0, 2>>}, talk |-> {<<0, 0>>}]}

Heeded  == {TRUE}
Either  == BOOLEAN
=============================================================================
