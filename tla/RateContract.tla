---------------------------- MODULE RateContract ----------------------------
(***************************************************************************)
(* What the rate limiter promises (ratelimit.go:18): each address has at   *)
(* most a rate and a burst, judged by the requests served so far alone, as *)
(* if every address were remembered for ever.  No map, no buckets.         *)
(*                                                                         *)
(* A request costs Price, the time that earns it (the inverse of r), and a *)
(* burst is worth Full: both are times.                                    *)
(***************************************************************************)
EXTENDS Integers

CONSTANTS Addresses, Requests, Price, Full

Nobody == "none"

VARIABLES
    now,
    asker,    \* [Requests -> the address it came from, or Nobody]
    answer,   \* [Requests -> "open", "served" or "refused"]
    spent,    \* [Addresses -> Price times the requests served]
    served    \* [Addresses -> {[at, before]}], before is what was spent till then

vars == <<now, asker, answer, spent, served>>

Init ==
    /\ now = 0
    /\ asker = [r \in Requests |-> Nobody]
    /\ answer = [r \in Requests |-> "open"]
    /\ spent = [a \in Addresses |-> 0]
    /\ served = [a \in Addresses |-> {}]

\* A request comes in from an address, and is that address's from then on.
Ask(r, a) ==
    /\ asker[r] = Nobody
    /\ asker' = [asker EXCEPT ![r] = a]
    /\ UNCHANGED <<now, answer, spent, served>>

\* One more request fits: since each earlier one, no more than the burst and what
\* the time since then has earned is spent.
Within(a) ==
    \A g \in served[a] : (spent[a] - g.before) + Price <= Full + (now - g.at)

\* An address within its rate is served, and pays for it.
Serve(r) ==
    LET a == asker[r]
    IN  /\ Within(a)
        /\ answer' = [answer EXCEPT ![r] = "served"]
        /\ served' = [served EXCEPT ![a] = @ \cup {[at |-> now, before |-> spent[a]]}]
        /\ spent' = [spent EXCEPT ![a] = @ + Price]

\* An address over its own rate, whatever the others have spent, is refused.
Refuse(r) ==
    /\ ~Within(asker[r])
    /\ answer' = [answer EXCEPT ![r] = "refused"]
    /\ UNCHANGED <<spent, served>>

\* Who is not refused is served: the contract leaves no choice.
Answer(r) ==
    /\ asker[r] # Nobody /\ answer[r] = "open"
    /\ Serve(r) \/ Refuse(r)
    /\ UNCHANGED <<now, asker>>

Pass == now' = now + 1 /\ UNCHANGED <<asker, answer, spent, served>>

Next ==
    \/ \E r \in Requests : Answer(r) \/ \E a \in Addresses : Ask(r, a)
    \/ Pass

Spec == Init /\ [][Next]_vars
=============================================================================
