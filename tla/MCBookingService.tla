-------------------------- MODULE MCBookingService --------------------------
(***************************************************************************)
(* Instances of BookingService for TLC.  Times are in units of the hour    *)
(* the slot calculation looks back.                                        *)
(***************************************************************************)
EXTENDS BookingService, TLC

CONSTANTS g1, g2, h1, h2

MCGuests   == {g1, g2}
MCHandlers == {h1, h2}
OneGuest   == {g1}
OneHandler == {h1}

Interval(host, from, to) == [host |-> host, from |-> from, to |-> to]

\* Two event types of one host, an hour and two hours long: the first two
\* offers overlap without starting together, the third only touches.
OneSlot   == {Interval("ann", 3, 4)}
TwoTypes  == {Interval("ann", 3, 4), Interval("ann", 2, 4)}

NoEvents  == {}
OneEvent  == {Interval("ann", 3, 5)}

GuestSymmetry   == Permutations(MCGuests)
HandlerSymmetry == Permutations(MCHandlers)

\* What was mailed and written to calendars, and what rows once were, is read by no
\* action and by no property of the live run: states that differ in nothing else have
\* the same future.
WithoutTraces ==
    <<status, slot, reserved, cached, conn, guest, click, gc, writers, env>>
=============================================================================
