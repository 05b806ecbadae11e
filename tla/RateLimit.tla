------------------------------ MODULE RateLimit ------------------------------
(***************************************************************************)
(* The rate limiter of the booking routes: internal/middleware/ratelimit.go *)
(* as main.go:68 uses it, one instance for page and widget.                *)
(*                                                                         *)
(* A map holds a token bucket per client address.  A request fetches the   *)
(* bucket of its address under the lock and takes a token after it gave    *)
(* the lock back, among other requests of the address that do the same.    *)
(* The pruning goroutine drops buckets nobody has used for Keep, which is  *)
(* longer than a request holds one; the next request of the address makes  *)
(* a new, full one.                                                        *)
(*                                                                         *)
(* A bucket's level is kept as the time that earns it, so it rises by one  *)
(* per unit of time: a token is worth Price, a full bucket Full.  The      *)
(* request that makes a bucket gives it its name.                          *)
(***************************************************************************)
EXTENDS Integers

CONSTANTS
    Addresses,  \* client addresses
    Requests,   \* booking forms that are posted
    Price,      \* seconds that earn a token: 6 for 10.0/60
    Full,       \* Price times the burst: 30
    Keep,       \* a bucket unused for longer is pruned: 5 minutes
    Slack,      \* bound on the time from fetching a bucket to taking the token
    MaxTime     \* bound on the clock

None == "none"

ASSUME RequestsAssumption == None \notin Requests /\ None \notin Addresses
ASSUME RateAssumption ==
    /\ {Price, Full, Keep, Slack, MaxTime} \subseteq Nat
    /\ 0 < Price /\ Price <= Full

\* A bucket nobody has used for Keep is full again.
ASSUME KeepAssumption == Full + Slack <= Keep

VARIABLES
    now,
    limiters,  \* [Addresses -> the bucket in the map, or None]
    lastSeen,  \* [Addresses -> lastSeen of that bucket]
    bucket,    \* [Requests -> [level, last] of the bucket it has made]
    req,       \* [Requests -> locals of the middleware]
    spent,     \* history: [Addresses -> Price times the requests served]
    served     \* history: [Addresses -> {[at, before]}]

map  == <<limiters, lastSeen>>
log  == <<spent, served>>
vars == <<now, map, bucket, req, log>>

-----------------------------------------------------------------------------
FullBucket == [level |-> Full, last |-> now]

Waiting == [pc |-> "open", from |-> None, holds |-> None, since |-> 0]

Init ==
    /\ now = 0
    /\ limiters = [a \in Addresses |-> None]
    /\ lastSeen = [a \in Addresses |-> 0]
    /\ bucket = [r \in Requests |-> FullBucket]
    /\ req = [r \in Requests |-> Waiting]
    /\ spent = [a \in Addresses |-> 0]
    /\ served = [a \in Addresses |-> {}]

\* Mutant of GetLimiter: lastSeen is set only when the bucket is made.
GetLimiterSeenOnce(r, a) ==
    LET b == IF limiters[a] = None THEN r ELSE limiters[a]
    IN  /\ req[r].pc = "open"
        /\ limiters' = [limiters EXCEPT ![a] = b]
        /\ lastSeen' = IF b = r THEN [lastSeen EXCEPT ![a] = now] ELSE lastSeen
        /\ bucket' = IF b = r THEN [bucket EXCEPT ![r] = FullBucket] ELSE bucket
        /\ req' = [req EXCEPT ![r] = [pc |-> "fetched", from |-> a,
                                      holds |-> b, since |-> now]]
        /\ UNCHANGED <<now, log>>

\* getLimiter: the bucket of the address, made full when there is none.
GetLimiter(r, a) ==
    LET b == IF limiters[a] = None THEN r ELSE limiters[a]
    IN  /\ req[r].pc = "open"
        /\ limiters' = [limiters EXCEPT ![a] = b]
        /\ lastSeen' = [lastSeen EXCEPT ![a] = now]
        /\ bucket' = IF b = r THEN [bucket EXCEPT ![r] = FullBucket] ELSE bucket
        /\ req' = [req EXCEPT ![r] = [pc |-> "fetched", from |-> a,
                                      holds |-> b, since |-> now]]
        /\ UNCHANGED <<now, log>>

\* Mutant of Level: a bucket has no brim.
LevelUncapped(b) == bucket[b].level + (now - bucket[b].last)

\* What a bucket holds by now: what it held, and what the time since has earned.
Level(b) ==
    LET earned == bucket[b].level + (now - bucket[b].last)
    IN  IF earned > Full THEN Full ELSE earned

\* Allow, true: the handler is called.
Admit(r) ==
    LET a == req[r].from
        b == req[r].holds
    IN  /\ req[r].pc = "fetched"
        /\ Level(b) >= Price
        /\ bucket' = [bucket EXCEPT ![b] = [level |-> Level(b) - Price, last |-> now]]
        /\ req' = [req EXCEPT ![r].pc = "served"]
        /\ served' = [served EXCEPT ![a] = @ \cup {[at |-> now, before |-> spent[a]]}]
        /\ spent' = [spent EXCEPT ![a] = @ + Price]
        /\ UNCHANGED <<now, map>>

\* Mutant of Turn429: one address over its rate has everybody refused.
Turn429All(r) ==
    /\ req[r].pc = "fetched"
    /\ \E a \in Addresses : limiters[a] # None /\ Level(limiters[a]) < Price
    /\ req' = [req EXCEPT ![r].pc = "refused"]
    /\ UNCHANGED <<now, map, bucket, log>>

\* Allow, false: too many requests, and the bucket stays as it is.
Turn429(r) ==
    /\ req[r].pc = "fetched"
    /\ Level(req[r].holds) < Price
    /\ req' = [req EXCEPT ![r].pc = "refused"]
    /\ UNCHANGED <<now, map, bucket, log>>

\* The minute's tick of the pruning goroutine.
Prune ==
    /\ limiters' = [a \in Addresses |->
                      IF now - lastSeen[a] > Keep THEN None ELSE limiters[a]]
    /\ UNCHANGED <<now, lastSeen, bucket, req, log>>

\* Nobody who has fetched a bucket waits longer than Slack for its token.
Tick ==
    /\ now < MaxTime
    /\ \A r \in Requests : req[r].pc = "fetched" => now < req[r].since + Slack
    /\ now' = now + 1
    /\ UNCHANGED <<map, bucket, req, log>>

Allow(r) == Admit(r) \/ Turn429(r)

Next ==
    \/ \E r \in Requests : Allow(r) \/ \E a \in Addresses : GetLimiter(r, a)
    \/ Prune
    \/ Tick

Spec == Init /\ [][Next]_vars

-----------------------------------------------------------------------------
(***************************************************************************)
(* Correctness.                                                            *)
(***************************************************************************)

BucketType == [level : 0 .. Full, last : Nat]
RequestType ==
    [pc : {"open", "fetched", "served", "refused"}, from : Addresses \cup {None},
     holds : Requests \cup {None}, since : Nat]

LimiterTypeOK ==
    /\ now \in Nat
    /\ limiters \in [Addresses -> Requests \cup {None}]
    /\ lastSeen \in [Addresses -> Nat]
    /\ bucket \in [Requests -> BucketType]
    /\ req \in [Requests -> RequestType]
    /\ spent \in [Addresses -> Nat]
    /\ served \in [Addresses -> SUBSET [at : Nat, before : Nat]]

\* ratelimit.go:18: whichever two requests of an address were served, what was
\* served between them, both included, is at most the burst and what the time
\* between them earned.  Pruning buckets, and making them again, gives no more.
WithinRate ==
    \A a \in Addresses : \A g, h \in served[a] :
        g.before <= h.before =>
            (h.before - g.before) + Price <= Full + (h.at - g.at)

\* ratelimit.go:60-64: each request is answered by what its own address was served
\* before, as by a limiter that never forgets one: what the contract serves is
\* served, and nothing else is refused, whatever other addresses have spent.
Contract == INSTANCE RateContract WITH
    asker  <- [r \in Requests |-> req[r].from],
    answer <- [r \in Requests |->
                 IF req[r].pc \in {"served", "refused"} THEN req[r].pc ELSE "open"]
ImplementsContract == Contract!Spec
=============================================================================
