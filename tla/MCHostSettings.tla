--------------------------- MODULE MCHostSettings ---------------------------
(***************************************************************************)
(* Instances of HostSettings for TLC: a week of two days.                  *)
(***************************************************************************)
EXTENDS HostSettings

Rules(to, active) == [to |-> to, active |-> active]

\* Both days, the longer one checked; and the second day alone.
MCWeeks == {<<Rules(2, TRUE), Rules(1, FALSE)>>, <<None, Rules(2, TRUE)>>}
MCDays  == {1, 2}
=============================================================================
