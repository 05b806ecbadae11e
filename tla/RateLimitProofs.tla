--------------------------- MODULE RateLimitProofs ---------------------------
(***************************************************************************)
(* Safety of RateLimit, and that it implements RateContract, for any       *)
(* number of addresses and requests, any rate and burst, and any Keep that *)
(* is at least the time that fills a bucket and the delay of a request.    *)
(***************************************************************************)
EXTENDS RateLimit, TLAPS

LEMMA Constants ==
    /\ Price \in Nat \ {0} /\ Full \in Nat /\ Keep \in Nat /\ Slack \in Nat
    /\ Price <= Full /\ Full + Slack <= Keep
  BY RateAssumption, KeepAssumption

\* Every bucket of the limiter (ratelimit.go:51) keeps a level from nothing to the
\* burst, and what is in flight refers to it, whoever comes, waits or is pruned.
THEOREM LimiterTypeCorrect == Spec => []LimiterTypeOK
  <1>1. Init => LimiterTypeOK
    BY RateAssumption
       DEF Init, LimiterTypeOK, FullBucket, Waiting, BucketType, RequestType
  <1>2. LimiterTypeOK /\ [Next]_vars => LimiterTypeOK'
    <2> SUFFICES ASSUME LimiterTypeOK, [Next]_vars PROVE LimiterTypeOK'
      OBVIOUS
    <2> USE DEF LimiterTypeOK
    <2>1. ASSUME NEW r \in Requests, NEW a \in Addresses, GetLimiter(r, a)
          PROVE  LimiterTypeOK'
      BY <2>1, RateAssumption DEF GetLimiter, FullBucket, BucketType, RequestType, log
    <2>2. ASSUME NEW r \in Requests, Admit(r)
          PROVE  LimiterTypeOK'
      <3> DEFINE a == req[r].from
                 b == req[r].holds
      <3>1. Level(b) - Price \in 0 .. Full \/ b \notin Requests
        BY <2>2, RateAssumption DEF Admit, Level, BucketType
      <3>2. bucket' \in [Requests -> BucketType]
        BY <2>2, <3>1 DEF Admit, BucketType
      <3>3. spent' \in [Addresses -> Nat]
        <4>1. spent' = [spent EXCEPT ![a] = @ + Price]
          BY <2>2 DEF Admit
        <4>2. \A c \in Addresses : spent[c] + Price \in Nat
          BY Constants
        <4>3. QED
          BY <4>1, <4>2
      <3>4. \A c \in Addresses : [at |-> now, before |-> spent[c]] \in [at : Nat, before : Nat]
        OBVIOUS
      <3>5. served' \in [Addresses -> SUBSET [at : Nat, before : Nat]]
        BY <2>2, <3>4 DEF Admit
      <3>6. req' \in [Requests -> RequestType]
        BY <2>2 DEF Admit, RequestType
      <3>7. QED
        BY <2>2, <3>2, <3>3, <3>5, <3>6 DEF Admit, map
    <2>3. ASSUME NEW r \in Requests, Turn429(r)
          PROVE  LimiterTypeOK'
      BY <2>3 DEF Turn429, RequestType, map, log
    <2>4. CASE Prune
      BY <2>4 DEF Prune, log
    <2>5. CASE Tick
      BY <2>5 DEF Tick, map, log
    <2>6. CASE UNCHANGED vars
      BY <2>6 DEF vars, map, log
    <2>7. QED
      BY <2>1, <2>2, <2>3, <2>4, <2>5, <2>6 DEF Next, Allow
  <1>3. QED
    BY <1>1, <1>2, PTL DEF Spec

-----------------------------------------------------------------------------
(***************************************************************************)
(* The inductive invariant.                                                *)
(***************************************************************************)

\* Who has fetched a bucket has the one of the map, and has had it for Slack at
\* most: no bucket is pruned while a request holds it.
Held ==
    \A r \in Requests : req[r].pc = "fetched" =>
        LET a == req[r].from
        IN  /\ a \in Addresses
            /\ req[r].holds = limiters[a] /\ limiters[a] # None
            /\ req[r].since <= lastSeen[a]
            /\ now <= req[r].since + Slack

\* A bucket of the map is that of one address, and was not used long after it
\* was last seen.
Known ==
    \A a \in Addresses :
        /\ lastSeen[a] <= now
        /\ limiters[a] # None =>
             /\ req[limiters[a]].pc # "open"
             /\ req[limiters[a]].from = a
             /\ bucket[limiters[a]].last <= now
             /\ bucket[limiters[a]].last <= lastSeen[a] + Slack

Past ==
    \A a \in Addresses : \A g \in served[a] :
        g.at <= now /\ g.before + Price <= spent[a]

\* What was spent since a request and what is left is no more than the burst and
\* what has been earned ...
Solvent ==
    \A a \in Addresses : limiters[a] # None =>
        \A g \in served[a] :
            (spent[a] - g.before) + bucket[limiters[a]].level
                <= Full + (bucket[limiters[a]].last - g.at)

\* ... and no less, since some request that found the bucket full.
Exact ==
    \A a \in Addresses : limiters[a] # None =>
        \/ bucket[limiters[a]].level = Full
        \/ \E g \in served[a] :
             (spent[a] - g.before) + bucket[limiters[a]].level
                 = Full + (bucket[limiters[a]].last - g.at)

\* An address without a bucket would have a full one.
Recovered ==
    \A a \in Addresses : limiters[a] = None =>
        \A g \in served[a] : spent[a] - g.before <= now - g.at

IInv == /\ LimiterTypeOK /\ Held /\ Known /\ Past
        /\ Solvent /\ Exact /\ Recovered /\ WithinRate

LEMMA IInvInit == Init => IInv
  <1> SUFFICES ASSUME Init PROVE IInv
    OBVIOUS
  <1>1. LimiterTypeOK
    BY RateAssumption
       DEF Init, LimiterTypeOK, FullBucket, Waiting, BucketType, RequestType
  <1>2. Held /\ Known
    BY DEF Init, Held, Known, Waiting
  <1>3. Past /\ Solvent /\ Exact /\ Recovered /\ WithinRate
    BY DEF Init, Past, Solvent, Exact, Recovered, WithinRate
  <1>4. QED
    BY <1>1, <1>2, <1>3 DEF IInv

\* Fetching: a bucket that has to be made is full, which is what the address has
\* earned back; nobody else holds it yet, nor did anybody hold one before.
LEMMA IInvGetLimiter ==
  ASSUME IInv, LimiterTypeOK', NEW r \in Requests, NEW a \in Addresses, GetLimiter(r, a)
  PROVE  IInv'
  <1> DEFINE b == IF limiters[a] = None THEN r ELSE limiters[a]
  <1> USE Constants, RequestsAssumption DEF IInv, LimiterTypeOK
  <1>1. /\ now' = now /\ spent' = spent /\ served' = served
        /\ b \in Requests
        /\ \A c \in Addresses : c # a => /\ limiters'[c] = limiters[c]
                                         /\ lastSeen'[c] = lastSeen[c]
        /\ limiters'[a] = b /\ lastSeen'[a] = now
        /\ \A q \in Requests : q # r => req'[q] = req[q]
        /\ req'[r] = [pc |-> "fetched", from |-> a, holds |-> b, since |-> now]
    BY DEF GetLimiter, log
  <1>2. limiters[a] # None => b = limiters[a] /\ b # r /\ bucket' = bucket
    BY DEF GetLimiter, Known
  <1>3. limiters[a] = None =>
          /\ b = r /\ bucket'[r] = [level |-> Full, last |-> now]
          /\ \A q \in Requests : q # r => bucket'[q] = bucket[q]
    BY DEF GetLimiter, FullBucket
  <1>4. \A c \in Addresses : limiters[c] # r
    BY DEF Known, GetLimiter
  <1>5. \A c \in Addresses : limiters[c] # None =>
          /\ limiters'[c] = limiters[c] /\ limiters[c] \in Requests
          /\ bucket'[limiters[c]] = bucket[limiters[c]]
    BY <1>1, <1>2, <1>3, <1>4
  <1>6. Held'
    <2> SUFFICES ASSUME NEW q \in Requests, req'[q].pc = "fetched"
                 PROVE  /\ req'[q].from \in Addresses
                        /\ req'[q].holds = limiters'[req'[q].from]
                        /\ limiters'[req'[q].from] # None
                        /\ req'[q].since <= lastSeen'[req'[q].from]
                        /\ now' <= req'[q].since + Slack
      BY DEF Held
    <2>1. CASE q = r
      BY <2>1, <1>1
    <2>2. CASE q # r
      <3>1. req'[q] = req[q] /\ req[q].since \in Nat
        BY <2>2, <1>1 DEF RequestType
      <3>2. lastSeen'[req[q].from] >= lastSeen[req[q].from]
        BY <3>1, <1>1 DEF Held, Known
      <3>3. QED
        BY <3>1, <3>2, <1>1, <1>5 DEF Held
    <2>3. QED
      BY <2>1, <2>2
  <1>7. Known'
    <2> SUFFICES ASSUME NEW c \in Addresses
                 PROVE  /\ lastSeen'[c] <= now'
                        /\ limiters'[c] # None =>
                             /\ req'[limiters'[c]].pc # "open"
                             /\ req'[limiters'[c]].from = c
                             /\ bucket'[limiters'[c]].last <= now'
                             /\ bucket'[limiters'[c]].last <= lastSeen'[c] + Slack
      BY DEF Known
    <2>1. CASE limiters[c] # None
      <3>1. /\ req'[limiters[c]] = req[limiters[c]] /\ lastSeen'[c] >= lastSeen[c]
            /\ lastSeen'[c] <= now
        BY <2>1, <1>1, <1>4, <1>5 DEF Known
      <3>2. bucket[limiters[c]] \in BucketType
        BY <2>1, <1>5
      <3>3. QED
        BY <2>1, <3>1, <3>2, <1>5, <1>1 DEF Known, BucketType
    <2>2. CASE limiters[c] = None
      BY <2>2, <1>1, <1>3 DEF Known
    <2>3. QED
      BY <2>1, <2>2
  <1>8. Past' /\ WithinRate'
    BY <1>1 DEF Past, WithinRate
  <1>9. Solvent' /\ Exact'
    <2>1. ASSUME NEW c \in Addresses, limiters[c] # None
          PROVE  bucket'[limiters'[c]] = bucket[limiters[c]]
      BY <2>1, <1>5
    <2>2. ASSUME NEW c \in Addresses, limiters[c] = None, limiters'[c] # None
          PROVE  /\ bucket'[limiters'[c]].level = Full
                 /\ \A g \in served[c] : (spent[c] - g.before) + Full <= Full + (now - g.at)
                 /\ bucket'[limiters'[c]].last = now
      <3>1. c = a
        BY <2>2, <1>1
      <3>2. \A g \in served[c] : g.at \in Nat /\ g.before \in Nat
        OBVIOUS
      <3>3. QED
        BY <2>2, <3>1, <3>2, <1>1, <1>3 DEF Recovered
    <2>3. QED
      BY <2>1, <2>2, <1>1, <1>5 DEF Solvent, Exact
  <1>10. Recovered'
    BY <1>1, <1>5, RequestsAssumption DEF Recovered
  <1>11. QED
    BY <1>6, <1>7, <1>8, <1>9, <1>10

\* What an answer leaves of a request's locals, that of the request included.
RequestKeeps(q) ==
    /\ req'[q].from = req[q].from
    /\ req'[q].holds = req[q].holds
    /\ req'[q].since = req[q].since
    /\ req'[q].pc = "fetched" => req[q].pc = "fetched"
    /\ req[q].pc # "open" => req'[q].pc # "open"

\* Taking a token: the bucket is the one of the map, so what is paid is entered
\* where the next request will look.
LEMMA IInvAdmit ==
  ASSUME IInv, LimiterTypeOK', NEW r \in Requests, Admit(r)
  PROVE  IInv' /\ Contract!Within(req[r].from)
  <1> DEFINE a == req[r].from
             b == req[r].holds
             new == [at |-> now, before |-> spent[a]]
             earned == bucket[b].level + (now - bucket[b].last)
  <1> USE Constants, RequestsAssumption DEF IInv, LimiterTypeOK
  <1>1. /\ a \in Addresses /\ b \in Requests /\ limiters[a] = b /\ b # None
        /\ req[b].pc # "open" /\ req[b].from = a
        /\ now <= lastSeen[a] + Slack
    <2>1. req[r].pc = "fetched"
      BY DEF Admit
    <2>2. req[r].since \in Nat
      BY DEF RequestType
    <2>3. a \in Addresses /\ b = limiters[a] /\ limiters[a] # None
      BY <2>1 DEF Held
    <2>4. now <= lastSeen[a] + Slack
      BY <2>1, <2>2, <2>3 DEF Held
    <2>5. QED
      BY <2>3, <2>4 DEF Known
  <1>2. /\ bucket[b].level \in 0 .. Full /\ bucket[b].last \in Nat
        /\ bucket[b].last <= now
    BY <1>1 DEF BucketType, Known
  <1>3. /\ UNCHANGED <<now, limiters, lastSeen>>
        /\ \A q \in Requests : RequestKeeps(q)
        /\ served'[a] = served[a] \cup {new} /\ spent'[a] = spent[a] + Price
        /\ \A c \in Addresses : c # a => served'[c] = served[c] /\ spent'[c] = spent[c]
        /\ \A q \in Requests : q # b => bucket'[q] = bucket[q]
        /\ bucket'[b].level = Level(b) - Price /\ bucket'[b].last = now
    BY <1>1 DEF Admit, map, RequestKeeps, RequestType
  <1>4. /\ Level(b) \in Nat /\ Level(b) >= Price /\ Level(b) <= earned /\ earned \in Nat
        /\ Level(b) = Full \/ Level(b) = earned
    BY <1>2 DEF Admit, Level
  <1>5. \A c \in Addresses : \A g \in served[c] : g.at \in Nat /\ g.before \in Nat
    OBVIOUS
  <1>6. \A g \in served[a] :
           /\ (spent[a] - g.before) + bucket[b].level <= Full + (bucket[b].last - g.at)
           /\ g.at <= now /\ g.before + Price <= spent[a]
    BY <1>1 DEF Solvent, Past
  <1>7. \A c \in Addresses : c # a /\ limiters[c] # None =>
           limiters[c] \in Requests /\ bucket'[limiters[c]] = bucket[limiters[c]]
    BY <1>1, <1>3 DEF Known
  <1>8. \A g \in served[a] : (spent[a] - g.before) + Price <= Full + (now - g.at)
    BY <1>1, <1>2, <1>4, <1>5, <1>6
  <1>9. Held'
    BY <1>3 DEF Held, RequestKeeps
  <1>10. Known'
    BY <1>1, <1>3, <1>7 DEF Known, RequestKeeps
  <1>11. Past'
    BY <1>1, <1>3, <1>5 DEF Past
  <1> DEFINE Balance(g) == (spent'[a] - g.before) + bucket'[b].level
             Limit(g)   == Full + (bucket'[b].last - g.at)
  <1>12. Solvent'
    <2>1. ASSUME NEW g \in served[a] PROVE Balance(g) <= Limit(g)
      BY <2>1, <1>1, <1>2, <1>3, <1>4, <1>5, <1>6
    <2>2. Balance(new) <= Limit(new)
      BY <1>1, <1>3, <1>4 DEF Level
    <2>3. \A g \in served'[a] : Balance(g) <= Limit(g)
      <3> HIDE DEF Balance, Limit, new
      <3>1. QED
        BY <2>1, <2>2, <1>3
    <2>4. QED
      BY <2>3, <1>1, <1>3, <1>7 DEF Solvent
  <1>13. Exact'
    <2>1. \E g \in served'[a] : Balance(g) = Limit(g)
      <3>1. CASE Level(b) = Full
        <4>1. Balance(new) = Limit(new) /\ new \in served'[a]
          BY <3>1, <1>1, <1>3
        <4>2. QED
          BY <4>1
      <3>2. CASE Level(b) = earned /\ Level(b) # Full
        <4>1. bucket[b].level # Full
          BY <3>2, <1>2, <1>4 DEF Level
        <4>2. PICK g \in served[a] :
                (spent[a] - g.before) + bucket[b].level = Full + (bucket[b].last - g.at)
          BY <4>1, <1>1 DEF Exact
        <4>3. Balance(g) = Limit(g) /\ g \in served'[a]
          BY <4>2, <3>2, <1>1, <1>2, <1>3, <1>5
        <4>4. QED
          BY <4>3
      <3>3. QED
        BY <3>1, <3>2, <1>4
    <2>2. \A c \in Addresses : c # a /\ limiters'[c] # None =>
            /\ limiters'[c] = limiters[c] /\ bucket'[limiters[c]] = bucket[limiters[c]]
            /\ served'[c] = served[c] /\ spent'[c] = spent[c]
      BY <1>3, <1>7
    <2>3. QED
      BY <2>1, <2>2, <1>1, <1>3 DEF Exact
  <1>14. Recovered'
    BY <1>1, <1>3 DEF Recovered
  <1>15. WithinRate'
    <2>1. ASSUME NEW g \in served'[a], NEW h \in served'[a], g.before <= h.before
          PROVE  (h.before - g.before) + Price <= Full + (h.at - g.at)
      <3>1. CASE g \in served[a] /\ h \in served[a]
        BY <3>1, <2>1, <1>1 DEF WithinRate
      <3>2. CASE g \in served[a] /\ h = new
        BY <3>2, <1>8
      <3>3. CASE g = new /\ h \in served[a]
        BY <3>3, <2>1, <1>1, <1>5, <1>6
      <3>4. CASE g = new /\ h = new
        BY <3>4, <1>1
      <3>5. QED
        BY <3>1, <3>2, <3>3, <3>4, <1>3
    <2>2. QED
      BY <2>1, <1>3 DEF WithinRate
  <1>16. Contract!Within(a)
    BY <1>8 DEF Contract!Within
  <1>17. QED
    BY <1>9, <1>10, <1>11, <1>12, <1>13, <1>14, <1>15, <1>16

\* Refusing: what the bucket lacks is what the contract would have to lend.
LEMMA IInvTurn429 ==
  ASSUME IInv, LimiterTypeOK', NEW r \in Requests, Turn429(r)
  PROVE  IInv' /\ ~Contract!Within(req[r].from)
  <1> DEFINE a == req[r].from
             b == req[r].holds
  <1> USE Constants, RequestsAssumption DEF IInv, LimiterTypeOK
  <1>1. a \in Addresses /\ b \in Requests /\ limiters[a] = b /\ b # None
    BY DEF Turn429, Held
  <1>2. /\ bucket[b].level \in 0 .. Full /\ bucket[b].last \in Nat
        /\ bucket[b].last <= now
    BY <1>1 DEF BucketType, Known
  <1>3. bucket[b].level + (now - bucket[b].last) < Price
    BY <1>2 DEF Turn429, Level
  <1>4. PICK g \in served[a] :
          (spent[a] - g.before) + bucket[b].level = Full + (bucket[b].last - g.at)
    BY <1>1, <1>2, <1>3 DEF Exact
  <1>5. g.at \in Nat /\ g.before \in Nat
    BY <1>1
  <1>6. ~((spent[a] - g.before) + Price <= Full + (now - g.at))
    BY <1>1, <1>2, <1>3, <1>4, <1>5
  <1>7. ~Contract!Within(a)
    BY <1>6 DEF Contract!Within
  <1>8. /\ UNCHANGED <<now, limiters, lastSeen, bucket, spent, served>>
        /\ \A q \in Requests : RequestKeeps(q)
    BY DEF Turn429, map, log, RequestKeeps, RequestType
  <1>9. Held' /\ Known'
    BY <1>8 DEF Held, Known, RequestKeeps
  <1>10. Past' /\ Solvent' /\ Exact' /\ Recovered' /\ WithinRate'
    BY <1>8 DEF Past, Solvent, Exact, Recovered, WithinRate
  <1>11. QED
    BY <1>7, <1>9, <1>10

\* Pruning: what goes has not been used for Keep, so nobody holds it, and it has
\* had the time to fill.
LEMMA IInvPrune ==
  ASSUME IInv, LimiterTypeOK', Prune
  PROVE  IInv'
  <1> USE Constants, RequestsAssumption DEF IInv, LimiterTypeOK
  <1>1. /\ UNCHANGED <<now, lastSeen, bucket, req, spent, served>>
        /\ \A a \in Addresses :
             \/ limiters'[a] = limiters[a]
             \/ limiters'[a] = None /\ now - lastSeen[a] > Keep
    BY DEF Prune, log
  <1>2. Held'
    <2> SUFFICES ASSUME NEW r \in Requests, req[r].pc = "fetched"
                 PROVE  limiters'[req[r].from] = limiters[req[r].from]
      BY <1>1 DEF Held
    <2>1. req[r].since \in Nat /\ req[r].from \in Addresses
      BY DEF RequestType, Held
    <2>2. now - lastSeen[req[r].from] <= Slack
      BY <2>1 DEF Held
    <2>3. QED
      BY <1>1, <2>1, <2>2
  <1>3. Known' /\ Past' /\ Solvent' /\ Exact' /\ WithinRate'
    BY <1>1 DEF Known, Past, Solvent, Exact, WithinRate
  <1>4. Recovered'
    <2> SUFFICES ASSUME NEW a \in Addresses, limiters[a] # None,
                        now - lastSeen[a] > Keep, NEW g \in served[a]
                 PROVE  spent[a] - g.before <= now - g.at
      BY <1>1 DEF Recovered
    <2>1. /\ bucket[limiters[a]].level \in 0 .. Full
          /\ bucket[limiters[a]].last \in Nat
          /\ g.at \in Nat /\ g.before \in Nat
      BY DEF BucketType
    <2>2. /\ bucket[limiters[a]].last <= lastSeen[a] + Slack
          /\ (spent[a] - g.before) + bucket[limiters[a]].level
               <= Full + (bucket[limiters[a]].last - g.at)
      BY DEF Known, Solvent
    <2>3. QED
      BY <2>1, <2>2
  <1>5. QED
    BY <1>2, <1>3, <1>4

LEMMA IInvTick ==
  ASSUME IInv, LimiterTypeOK', Tick
  PROVE  IInv'
  <1> USE Constants DEF IInv, LimiterTypeOK
  <1>1. /\ now' = now + 1
        /\ UNCHANGED <<limiters, lastSeen, bucket, req, spent, served>>
        /\ \A r \in Requests : req[r].pc = "fetched" => now < req[r].since + Slack
    BY DEF Tick, map, log
  <1>2. Held'
    <2>1. \A r \in Requests : req[r].since \in Nat
      BY DEF RequestType
    <2>2. QED
      BY <1>1, <2>1 DEF Held
  <1>3. Known'
    <2>1. \A a \in Addresses : limiters[a] # None => bucket[limiters[a]].last \in Nat
      BY DEF BucketType
    <2>2. QED
      BY <1>1, <2>1 DEF Known
  <1>4. Past' /\ Recovered'
    <2>1. \A a \in Addresses : \A g \in served[a] : g.at \in Nat /\ g.before \in Nat
      OBVIOUS
    <2>2. QED
      BY <1>1, <2>1 DEF Past, Recovered
  <1>5. Solvent' /\ Exact' /\ WithinRate'
    BY <1>1 DEF Solvent, Exact, WithinRate
  <1>6. QED
    BY <1>2, <1>3, <1>4, <1>5

LEMMA IInvInvariance == Spec => []IInv
  <1>1. IInv /\ LimiterTypeOK' /\ [Next]_vars => IInv'
    <2> SUFFICES ASSUME IInv, LimiterTypeOK', [Next]_vars PROVE IInv'
      OBVIOUS
    <2>1. ASSUME NEW r \in Requests, NEW a \in Addresses, GetLimiter(r, a) PROVE IInv'
      BY <2>1, IInvGetLimiter
    <2>2. ASSUME NEW r \in Requests, Allow(r) PROVE IInv'
      BY <2>2, IInvAdmit, IInvTurn429 DEF Allow
    <2>3. CASE Prune \/ Tick
      BY <2>3, IInvPrune, IInvTick
    <2>4. CASE UNCHANGED vars
      BY <2>4 DEF vars, map, log, IInv, LimiterTypeOK, Held, Known, Past, Solvent, Exact,
                  Recovered, WithinRate
    <2>5. QED
      BY <2>1, <2>2, <2>3, <2>4 DEF Next
  <1>2. QED
    BY IInvInit, <1>1, LimiterTypeCorrect, PTL DEF Spec

\* ratelimit.go:18: no address is served more than the burst and what the time
\* earned, for every rate and burst, however often its bucket was pruned.
THEOREM RateKept == Spec => []WithinRate
  <1>1. IInv => WithinRate
    BY DEF IInv
  <1>2. QED
    BY IInvInvariance, <1>1, PTL

-----------------------------------------------------------------------------
(***************************************************************************)
(* The refinement.                                                         *)
(***************************************************************************)

\* The expressions the refinement mapping substitutes.
MappedAsker == [r \in Requests |-> req[r].from]
MappedAnswer == [r \in Requests |->
                   IF req[r].pc \in {"served", "refused"} THEN req[r].pc ELSE "open"]

\* A request that has not come in yet comes from nobody.
Unasked == \A r \in Requests : req[r].pc = "open" => req[r].from = None

LEMMA UnaskedInvariance == Spec => []Unasked
  <1>1. Init => Unasked
    BY DEF Init, Unasked, Waiting
  <1>2. LimiterTypeOK /\ Unasked /\ [Next]_vars => Unasked'
    <2> SUFFICES ASSUME LimiterTypeOK, Unasked, [Next]_vars,
                        NEW r \in Requests, req'[r].pc = "open"
                 PROVE  req'[r].from = None
      BY DEF Unasked
    <2>1. ASSUME NEW q \in Requests, Allow(q) PROVE req'[r] = req[r]
      BY <2>1 DEF LimiterTypeOK, RequestType, Allow, Admit, Turn429
    <2>2. ASSUME NEW q \in Requests, NEW a \in Addresses, GetLimiter(q, a)
          PROVE  req'[r] = req[r]
      BY <2>2 DEF LimiterTypeOK, GetLimiter
    <2>3. ASSUME Prune \/ Tick PROVE req'[r] = req[r]
      BY <2>3 DEF Prune, Tick, map, log
    <2>4. ASSUME UNCHANGED vars PROVE req'[r] = req[r]
      BY <2>4 DEF vars, map, log
    <2>5. req'[r] = req[r]
      BY <2>1, <2>2, <2>3, <2>4 DEF Next
    <2>6. QED
      BY <2>5 DEF Unasked
  <1>3. QED
    BY <1>1, <1>2, LimiterTypeCorrect, PTL DEF Spec

LEMMA LimiterRefinesInit == Init => Contract!Init
  BY DEF Init, Contract!Init, Contract!Nobody, Waiting, None

LEMMA LimiterRefinesStep ==
  ASSUME IInv, Unasked, LimiterTypeOK', [Next]_vars
  PROVE  [Contract!Next]_(Contract!vars)
  <1>1. ASSUME NEW r \in Requests, NEW a \in Addresses, GetLimiter(r, a)
        PROVE  Contract!Ask(r, a)
    <2>1. req[r].from = None
      BY <1>1 DEF GetLimiter, Unasked
    <2>2. MappedAnswer' = MappedAnswer /\ MappedAsker' = [MappedAsker EXCEPT ![r] = a]
      BY <1>1 DEF MappedAnswer, MappedAsker, GetLimiter, IInv, LimiterTypeOK
    <2>3. QED
      BY <1>1, <2>1, <2>2
         DEF Contract!Ask, Contract!Nobody, None, MappedAnswer, MappedAsker,
             GetLimiter, log
  <1>2. ASSUME NEW r \in Requests, Allow(r)
        PROVE  /\ req[r].from \in Addresses /\ req[r].from # None
               /\ MappedAsker' = MappedAsker /\ MappedAnswer[r] = "open"
    BY <1>2, RequestsAssumption
       DEF Allow, Admit, Turn429, IInv, Held, MappedAsker, MappedAnswer,
           LimiterTypeOK, RequestType
  <1>3. ASSUME NEW r \in Requests, Admit(r)
        PROVE  Contract!Answer(r)
    <2>1. Contract!Within(req[r].from)
      BY <1>3, IInvAdmit
    <2>2. MappedAnswer' = [MappedAnswer EXCEPT ![r] = "served"]
      BY <1>3 DEF MappedAnswer, Admit, IInv, LimiterTypeOK, RequestType
    <2>3. QED
      BY <1>2, <1>3, <2>1, <2>2
         DEF Allow, Contract!Answer, Contract!Serve, Contract!Nobody, None,
             MappedAnswer, MappedAsker, Admit
  <1>4. ASSUME NEW r \in Requests, Turn429(r)
        PROVE  Contract!Answer(r)
    <2>1. ~Contract!Within(req[r].from)
      BY <1>4, IInvTurn429
    <2>2. MappedAnswer' = [MappedAnswer EXCEPT ![r] = "refused"]
      BY <1>4 DEF MappedAnswer, Turn429, IInv, LimiterTypeOK, RequestType
    <2>3. QED
      BY <1>2, <1>4, <2>1, <2>2
         DEF Allow, Contract!Answer, Contract!Refuse, Contract!Nobody, None,
             MappedAnswer, MappedAsker, Turn429, log
  <1>5. CASE Prune \/ UNCHANGED vars
    BY <1>5 DEF Prune, vars, map, log, Contract!vars
  <1>6. CASE Tick
    BY <1>6 DEF Tick, map, log, Contract!Next, Contract!Pass
  <1>7. QED
    BY <1>1, <1>3, <1>4, <1>5, <1>6, <1>2 DEF Next, Allow, Contract!Next

\* The middleware answers as a limiter that never forgets an address would, each
\* request by its own address (ratelimit.go:60-64): what pruning forgets, and who
\* holds a bucket meanwhile, is not seen from outside.
THEOREM LimiterRefinesContract == Spec => ImplementsContract
  BY IInvInvariance, UnaskedInvariance, LimiterTypeCorrect, LimiterRefinesInit, LimiterRefinesStep, PTL
     DEF Spec, ImplementsContract, Contract!Spec
=============================================================================
