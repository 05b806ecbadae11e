--------------------------- MODULE AccountsProofs ---------------------------
(***************************************************************************)
(* Safety of Accounts for any number of people, browsers, requests, logins *)
(* and failing statements, and whatever names are claimed and entered.     *)
(***************************************************************************)
EXTENDS Accounts, TLAPS

\* A session is that of the person who logged in.
SessionsOwned ==
    \A i \in Ids : session[i] # NoSession =>
        session[i].sub \in Subs /\ session[i].who = session[i].sub

\* A request works for the person it goes back to, on a name that is one.
RequestsOwned ==
    \A t \in Tabs : req[t].pc # "idle" =>
        /\ req[t].sub \in Subs /\ req[t].who = req[t].sub
        /\ req[t].pc \in {"search", "insert", "open"} => req[t].id \in Ids
        /\ req[t].pc \in {"search", "insert", "check", "save"} =>
             req[t].name \in Words \X Seq(Nat)

\* The name a search ended with is free as long as nobody else has written.
FoundIsFree ==
    \A t \in Tabs : req[t].pc = "insert" /\ req[t].alone =>
        ~TakenFrom(req[t].sub, req[t].name)

IInv == /\ AccountsTypeOK /\ logins \in 0 .. MaxLogins
        /\ SessionsOwned /\ RequestsOwned /\ FoundIsFree /\ LoneLoginSucceeds

-----------------------------------------------------------------------------
(***************************************************************************)
(* Facts.                                                                  *)
(***************************************************************************)

LEMMA NumberedIsName ==
    ASSUME NEW n \in Words \X Seq(Nat), NEW i \in Nat
    PROVE  Numbered(n, i) \in Words \X Seq(Nat)
  <1>1. n[1] \in Words /\ n[2] \in Seq(Nat)
    OBVIOUS
  <1>2. Append(n[2], i) \in Seq(Nat)
    BY <1>1
  <1>3. QED
    BY <1>1, <1>2 DEF Numbered

LEMMA IdleIsRequest == Idle \in Request /\ Idle.pc = "idle"
  BY DEF Idle, Request, Names, NoName, Nobody

\* What a request may become while the accounts stay as they are.
Sound(r) ==
    /\ r \in Request
    /\ r.pc # "idle" =>
         /\ r.sub \in Subs /\ r.who = r.sub
         /\ r.pc \in {"search", "insert", "open"} => r.id \in Ids
         /\ r.pc \in {"search", "insert", "check", "save"} => r.name \in Words \X Seq(Nat)
    /\ r.pc = "insert" /\ r.alone => ~TakenFrom(r.sub, r.name)
    /\ r.pc = "refused" => ~r.alone

LEMMA IdleIsSound == Sound(Idle)
  BY IdleIsRequest DEF Sound, Idle

LEMMA RequestsAreSound == ASSUME IInv, NEW t \in Tabs PROVE Sound(req[t])
  BY DEF IInv, AccountsTypeOK, RequestsOwned, FoundIsFree, LoneLoginSucceeds, Sound

\* A step of a request that leaves the accounts and sessions alone.
LEMMA RequestStep ==
    ASSUME IInv, NEW t \in Tabs, NEW r, Sound(r), Goes(t, r), UNCHANGED tables,
           cookie' \in [Browsers -> Ids \cup {0}], logins' \in 0 .. MaxLogins
    PROVE  IInv'
  <1> USE DEF IInv
  <1>1. username' = username /\ session' = session
    BY DEF tables
  <1>2. r \in Request
    BY DEF Sound
  <1>3. req' \in [Tabs -> Request]
    BY <1>2 DEF Goes, AccountsTypeOK
  <1>4. \A u \in Tabs : req'[u] = IF u = t THEN r ELSE req[u]
    BY DEF Goes, AccountsTypeOK
  <1>5. \A u \in Tabs : Sound(req'[u])
    BY <1>4, RequestsAreSound
  <1>6. AccountsTypeOK'
    BY <1>1, <1>3 DEF AccountsTypeOK
  <1>7. SessionsOwned'
    BY <1>1 DEF SessionsOwned
  <1>8. RequestsOwned' /\ LoneLoginSucceeds'
    BY <1>5 DEF Sound, RequestsOwned, LoneLoginSucceeds
  <1>9. FoundIsFree'
    BY <1>1, <1>5 DEF Sound, FoundIsFree, TakenFrom
  <1>10. QED
    BY <1>6, <1>7, <1>8, <1>9

\* A step that writes an account: the name was nobody else's, and every login
\* that is under way learns of it.
LEMMA AccountStep ==
    ASSUME IInv, NEW t \in Tabs, NEW r \in Request, NEW s \in Subs,
           NEW n \in Words \X Seq(Nat), ~TakenFrom(s, n), Writes(t, r),
           username' = [username EXCEPT ![s] = n],
           r.pc \in {"idle", "open"},
           r.pc = "open" => r.sub \in Subs /\ r.who = r.sub /\ r.id \in Ids,
           UNCHANGED <<session, cookie, logins>>
    PROVE  IInv'
  <1> USE DEF IInv
  <1> DEFINE Told(u) == req[u].alone /\ req[u].pc \notin LoginPcs
             after(u) == IF u = t THEN r ELSE [req[u] EXCEPT !.alone = Told(u)]
  <1>1. req' = [u \in Tabs |-> after(u)]
    BY DEF Writes
  <1>2. ASSUME NEW u \in Tabs
        PROVE  /\ req'[u] = after(u)
               /\ req[u] \in Request
    BY <1>1 DEF AccountsTypeOK
  <1>3. ASSUME NEW u \in Tabs, u # t
        PROVE  /\ req'[u] \in Request
               /\ req'[u].pc = req[u].pc /\ req'[u].sub = req[u].sub
               /\ req'[u].who = req[u].who /\ req'[u].id = req[u].id
               /\ req'[u].name = req[u].name
               /\ req'[u].alone = Told(u)
    <2>1. req'[u] = [req[u] EXCEPT !.alone = Told(u)]
      BY <1>2, <1>3
    <2>2. Told(u) \in BOOLEAN
      OBVIOUS
    <2> HIDE DEF Told
    <2>3. QED
      BY <1>2, <2>1, <2>2 DEF Request
  <1>4. req'[t] = r
    BY <1>2
  <1> HIDE DEF after
  <1>5. req' \in [Tabs -> Request]
    <2>1. \A u \in Tabs : req'[u] \in Request
      BY <1>3, <1>4
    <2>2. QED
      BY <1>1, <2>1
  <1>6. AccountsTypeOK'
    <2>1. username \in [Subs -> Names] /\ n \in Names
      BY DEF AccountsTypeOK, Names
    <2>2. username' \in [Subs -> Names]
      BY <2>1
    <2>3. \A a \in Subs : username'[a] = IF a = s THEN n ELSE username[a]
      BY <2>1
    <2>4. \A a, b \in Subs : a # b /\ username'[a] = username'[b] => username'[a] = NoName
      BY <2>3 DEF AccountsTypeOK, TakenFrom
    <2>5. QED
      BY <1>5, <2>2, <2>4 DEF AccountsTypeOK
  <1>7. SessionsOwned'
    BY DEF SessionsOwned
  <1>8. RequestsOwned'
    BY <1>3, <1>4 DEF RequestsOwned
  <1>9. FoundIsFree'
    <2>1. \A u \in Tabs : ~(req'[u].pc = "insert" /\ req'[u].alone)
      BY <1>3, <1>4 DEF LoginPcs
    <2>2. QED
      BY <2>1 DEF FoundIsFree
  <1>10. LoneLoginSucceeds'
    BY <1>3, <1>4 DEF LoneLoginSucceeds
  <1>11. QED
    BY <1>6, <1>7, <1>8, <1>9, <1>10

\* A step that keeps accounts and requests, and adds no session but an owned one.
LEMMA SessionStep ==
    ASSUME IInv, UNCHANGED <<username, logins>>,
           session' \in [Ids -> [sub : Subs \cup {Nobody}, who : Subs \cup {Nobody}]],
           cookie' \in [Browsers -> Ids \cup {0}],
           SessionsOwned',
           \/ UNCHANGED req
           \/ \E t \in Tabs : Goes(t, Idle)
    PROVE  IInv'
  <1> USE DEF IInv
  <1>1. \A u \in Tabs : Sound(req'[u])
    <2>1. CASE UNCHANGED req
      BY <2>1, RequestsAreSound
    <2>2. ASSUME NEW t \in Tabs, Goes(t, Idle) PROVE \A u \in Tabs : Sound(req'[u])
      BY <2>2, IdleIsSound, RequestsAreSound DEF Goes, AccountsTypeOK
    <2>3. QED
      BY <2>1, <2>2
  <1>2. req' \in [Tabs -> Request]
    BY IdleIsRequest DEF Goes, AccountsTypeOK
  <1>3. AccountsTypeOK'
    BY <1>2 DEF AccountsTypeOK
  <1>4. RequestsOwned' /\ LoneLoginSucceeds'
    BY <1>1 DEF Sound, RequestsOwned, LoneLoginSucceeds
  <1>5. FoundIsFree'
    BY <1>1 DEF Sound, FoundIsFree, TakenFrom
  <1>6. QED
    BY <1>3, <1>4, <1>5

-----------------------------------------------------------------------------
(***************************************************************************)
(* Each step keeps the invariant.                                          *)
(***************************************************************************)

LEMMA Initial == Init => IInv
  <1> SUFFICES ASSUME Init PROVE IInv
    OBVIOUS
  <1>1. AccountsTypeOK
    BY IdleIsRequest DEF Init, AccountsTypeOK, Names, NoSession
  <1>2. logins \in 0 .. MaxLogins
    BY LimitsAssumption DEF Init
  <1>3. SessionsOwned
    BY DEF Init, SessionsOwned
  <1>4. RequestsOwned /\ FoundIsFree /\ LoneLoginSucceeds
    BY IdleIsRequest DEF Init, RequestsOwned, FoundIsFree, LoneLoginSucceeds
  <1>5. QED
    BY <1>1, <1>2, <1>3, <1>4 DEF IInv

LEMMA CallbackKeeps == ASSUME IInv, NEW t \in Tabs, Callback(t) PROVE IInv'
  <1>1. PICK s \in Subs :
          Goes(t, [Idle EXCEPT !.pc = "search", !.sub = s, !.who = s,
                               !.name = Preferred[s], !.next = 2, !.id = logins + 1])
    BY DEF Callback
  <1> DEFINE name == Preferred[s]
             id == logins + 1
             r == [Idle EXCEPT !.pc = "search", !.sub = s, !.who = s,
                               !.name = name, !.next = 2, !.id = id]
  <1>2. Goes(t, r)
    BY <1>1
  <1>3. logins \in 0 .. MaxLogins /\ logins < MaxLogins /\ logins' = logins + 1
    BY DEF Callback, IInv
  <1>4. id \in Ids /\ logins' \in 0 .. MaxLogins
    BY <1>3, LimitsAssumption DEF Ids
  <1>5. name \in Words \X Seq(Nat)
    BY SubsAssumption
  <1>6. UNCHANGED tables /\ cookie' \in [Browsers -> Ids \cup {0}]
    BY DEF Callback, tables, IInv, AccountsTypeOK
  <1> HIDE DEF name, id
  <1>7. r \in Request /\ r.pc = "search" /\ r.sub = s /\ r.who = s /\ r.name = name
          /\ r.id = id
    BY <1>4, <1>5, IdleIsRequest DEF Request, Names
  <1> HIDE DEF r
  <1>8. Sound(r)
    BY <1>4, <1>5, <1>7 DEF Sound
  <1>9. QED
    BY <1>2, <1>4, <1>6, <1>8, RequestStep

\* A request that ends or goes on, with nothing else changed but the faults.
LEMMA Onward ==
    ASSUME IInv, NEW t \in Tabs, NEW r, Sound(r), Goes(t, r),
           UNCHANGED <<tables, cookie, logins>>
    PROVE  IInv'
  <1>1. UNCHANGED tables
    OBVIOUS
  <1>2. cookie' \in [Browsers -> Ids \cup {0}] /\ logins' \in 0 .. MaxLogins
    BY DEF IInv, AccountsTypeOK
  <1>3. QED
    BY <1>1, <1>2, RequestStep

LEMMA SearchKeeps == ASSUME IInv, NEW t \in Tabs, Search(t) PROVE IInv'
  <1> DEFINE r == req[t]
  <1>1. Sound(r) /\ r.pc = "search" /\ UNCHANGED <<tables, cookie, logins>>
    BY RequestsAreSound DEF Search
  <1>2. CASE TakenFrom(r.sub, r.name)
             /\ Goes(t, [r EXCEPT !.name = Numbered(Preferred[r.sub], r.next),
                                  !.next = r.next + 1])
    <2> DEFINE name == Numbered(Preferred[r.sub], r.next)
               next == r.next + 1
               q == [r EXCEPT !.name = name, !.next = next]
    <2>1. Goes(t, q)
      BY <1>2
    <2>2. r.next \in Nat /\ next \in Nat
      BY <1>1 DEF Sound, Request
    <2>3. name \in Words \X Seq(Nat)
      BY <1>1, <2>2, SubsAssumption, NumberedIsName DEF Sound
    <2> HIDE DEF r, name, next
    <2>4. q \in Request /\ q.pc = r.pc /\ q.sub = r.sub /\ q.who = r.who /\ q.id = r.id
            /\ q.name = name
      BY <1>1, <2>2, <2>3 DEF Sound, Request, Names
    <2> HIDE DEF q
    <2>5. Sound(q)
      BY <1>1, <2>3, <2>4 DEF Sound
    <2>6. QED
      BY <1>1, <2>1, <2>5, Onward
  <1>3. CASE ~TakenFrom(r.sub, r.name) /\ Goes(t, [r EXCEPT !.pc = "insert"])
    <2> DEFINE q == [r EXCEPT !.pc = "insert"]
    <2>1. Goes(t, q) /\ ~TakenFrom(r.sub, r.name)
      BY <1>3
    <2> HIDE DEF r
    <2>2. q \in Request /\ q.pc = "insert" /\ q.sub = r.sub /\ q.who = r.who /\ q.id = r.id
            /\ q.name = r.name
      BY <1>1 DEF Sound, Request
    <2> HIDE DEF q
    <2>3. Sound(q)
      BY <1>1, <2>1, <2>2 DEF Sound
    <2>4. QED
      BY <1>1, <2>1, <2>3, Onward
  <1>4. CASE Fails(t)
    BY <1>1, <1>4, IdleIsSound, Onward DEF Fails
  <1>5. QED
    BY <1>2, <1>3, <1>4 DEF Search

LEMMA InsertKeeps == ASSUME IInv, NEW t \in Tabs, Insert(t) PROVE IInv'
  <1> DEFINE r == req[t]
             q == [r EXCEPT !.pc = "open"]
             no == [r EXCEPT !.pc = "refused"]
  <1>1. Sound(r) /\ r.pc = "insert" /\ UNCHANGED <<session, cookie, logins>>
    BY RequestsAreSound DEF Insert
  <1>2. \/ Goes(t, q) /\ UNCHANGED username
        \/ /\ ~TakenFrom(r.sub, r.name)
           /\ username' = [username EXCEPT ![r.sub] = r.name]
           /\ Writes(t, q) \/ Writes(t, Idle)
        \/ TakenFrom(r.sub, r.name) /\ Goes(t, no) /\ UNCHANGED username
        \/ Goes(t, Idle) /\ UNCHANGED username
    BY DEF Insert, Fails
  <1> HIDE DEF r
  <1>3. q \in Request /\ q.pc = "open" /\ q.sub = r.sub /\ q.who = r.who /\ q.id = r.id
    BY <1>1 DEF Sound, Request
  <1>4. no \in Request /\ no.pc = "refused" /\ no.sub = r.sub /\ no.who = r.who
          /\ no.alone = r.alone
    BY <1>1 DEF Sound, Request
  <1> HIDE DEF q, no
  <1>5. Sound(q)
    BY <1>1, <1>3 DEF Sound
  <1>6. CASE Goes(t, q) /\ UNCHANGED username
    BY <1>1, <1>5, <1>6, Onward DEF tables
  <1>7. CASE /\ ~TakenFrom(r.sub, r.name)
             /\ username' = [username EXCEPT ![r.sub] = r.name]
             /\ Writes(t, q) \/ Writes(t, Idle)
    <2>1. r.sub \in Subs /\ r.name \in Words \X Seq(Nat) /\ r.who = r.sub /\ r.id \in Ids
      BY <1>1 DEF Sound
    <2>2. CASE Writes(t, q)
      BY <1>1, <1>3, <1>7, <2>1, <2>2, AccountStep
    <2>3. CASE Writes(t, Idle)
      BY <1>1, <1>7, <2>1, <2>3, IdleIsRequest, AccountStep
    <2>4. QED
      BY <1>7, <2>2, <2>3
  <1>8. CASE TakenFrom(r.sub, r.name) /\ Goes(t, no) /\ UNCHANGED username
    <2>1. Sound(no)
      BY <1>1, <1>4, <1>8 DEF Sound
    <2>2. QED
      BY <1>1, <1>8, <2>1, Onward DEF tables
  <1>9. CASE Goes(t, Idle) /\ UNCHANGED username
    BY <1>1, <1>9, IdleIsSound, Onward DEF tables
  <1>10. QED
    BY <1>2, <1>6, <1>7, <1>8, <1>9

LEMMA OpenKeeps == ASSUME IInv, NEW t \in Tabs, Open(t) PROVE IInv'
  <1> DEFINE r == req[t]
             row == [sub |-> r.sub, who |-> r.who]
  <1>1. Sound(r) /\ r.pc = "open" /\ UNCHANGED <<username, logins>> /\ Goes(t, Idle)
    BY RequestsAreSound DEF Open, Fails
  <1>2. r.sub \in Subs /\ r.who = r.sub /\ r.id \in Ids
    BY <1>1 DEF Sound
  <1>3. CASE /\ session' = [session EXCEPT ![r.id] = row]
             /\ cookie' = [cookie EXCEPT ![Browser[t]] = r.id]
    <2>1. /\ session \in [Ids -> [sub : Subs \cup {Nobody}, who : Subs \cup {Nobody}]]
          /\ cookie \in [Browsers -> Ids \cup {0}]
          /\ SessionsOwned
      BY DEF IInv, AccountsTypeOK
    <2>2. session' \in [Ids -> [sub : Subs \cup {Nobody}, who : Subs \cup {Nobody}]]
      BY <1>2, <1>3, <2>1
    <2>3. cookie' \in [Browsers -> Ids \cup {0}]
      BY <1>2, <1>3, <2>1
    <2>4. \A i \in Ids : session'[i] = IF i = r.id THEN row ELSE session[i]
      BY <1>3, <2>1
    <2>5. SessionsOwned'
      BY <1>2, <2>1, <2>4 DEF SessionsOwned
    <2>6. QED
      BY <1>1, <2>2, <2>3, <2>5, SessionStep
  <1>4. CASE UNCHANGED <<session, cookie>>
    BY <1>1, <1>4, SessionStep DEF IInv, AccountsTypeOK, SessionsOwned
  <1>5. QED
    BY <1>3, <1>4 DEF Open

LEMMA RefuseKeeps == ASSUME IInv, NEW t \in Tabs, Refuse(t) PROVE IInv'
  BY IdleIsSound, Onward DEF Refuse

\* A session that is forgotten leaves the others as they were.
LEMMA Forgotten ==
    ASSUME IInv, NEW i, session' = [session EXCEPT ![i] = NoSession]
    PROVE  /\ session' \in [Ids -> [sub : Subs \cup {Nobody}, who : Subs \cup {Nobody}]]
           /\ SessionsOwned'
  <1>1. session \in [Ids -> [sub : Subs \cup {Nobody}, who : Subs \cup {Nobody}]]
    BY DEF IInv, AccountsTypeOK
  <1>2. NoSession \in [sub : Subs \cup {Nobody}, who : Subs \cup {Nobody}]
    BY DEF NoSession
  <1>3. \A j \in Ids : session'[j] = NoSession \/ session'[j] = session[j]
    BY <1>1
  <1>4. session' \in [Ids -> [sub : Subs \cup {Nobody}, who : Subs \cup {Nobody}]]
    BY <1>1, <1>2
  <1>5. QED
    BY <1>3, <1>4 DEF IInv, SessionsOwned

LEMMA LogoutKeeps == ASSUME IInv, NEW t \in Tabs, Logout(t) PROVE IInv'
  <1>1. UNCHANGED <<username, req, logins>>
        /\ cookie' = [cookie EXCEPT ![Browser[t]] = 0]
    BY DEF Logout
  <1>2. cookie' \in [Browsers -> Ids \cup {0}]
    BY <1>1 DEF IInv, AccountsTypeOK
  <1>3. CASE UNCHANGED session
    BY <1>1, <1>2, <1>3, SessionStep DEF IInv, AccountsTypeOK, SessionsOwned
  <1>4. CASE session' = [session EXCEPT ![cookie[Browser[t]]] = NoSession]
    BY <1>1, <1>2, <1>4, Forgotten, SessionStep
  <1>5. QED
    BY <1>3, <1>4 DEF Logout

LEMMA EnterKeeps == ASSUME IInv, NEW t \in Tabs, Enter(t) PROVE IInv'
  <1> DEFINE id == cookie[Browser[t]]
             row == session[id]
             r == [Idle EXCEPT !.pc = "resolve", !.sub = row.sub, !.who = row.who]
  <1>1. Goes(t, r) /\ Valid(id) /\ UNCHANGED <<tables, cookie, logins>>
    BY DEF Enter
  <1>2. id \in Ids
    <2>1. Browser[t] \in Browsers
      BY DEF Browsers
    <2>2. QED
      BY <1>1, <2>1 DEF Valid, IInv, AccountsTypeOK
  <1>3. row.sub \in Subs /\ row.who = row.sub
    BY <1>1, <1>2 DEF Valid, IInv, SessionsOwned
  <1> HIDE DEF row
  <1>4. r \in Request /\ r.pc = "resolve" /\ r.sub = row.sub /\ r.who = row.who
    BY <1>3, IdleIsRequest DEF Request
  <1> HIDE DEF r
  <1>5. Sound(r)
    BY <1>3, <1>4 DEF Sound
  <1>6. QED
    BY <1>1, <1>5, Onward

LEMMA TurnAwayKeeps == ASSUME IInv, NEW t \in Tabs, TurnAway(t) PROVE IInv'
  <1>1. UNCHANGED <<username, session, req, logins>>
        /\ cookie' = [cookie EXCEPT ![Browser[t]] = 0]
    BY DEF TurnAway, tables
  <1>2. cookie' \in [Browsers -> Ids \cup {0}]
    BY <1>1 DEF IInv, AccountsTypeOK
  <1>3. QED
    BY <1>1, <1>2, SessionStep DEF IInv, AccountsTypeOK, SessionsOwned

LEMMA ResolveKeeps == ASSUME IInv, NEW t \in Tabs, Resolve(t) PROVE IInv'
  <1> DEFINE r == req[t]
  <1>1. Sound(r) /\ r.pc = "resolve" /\ UNCHANGED <<tables, logins>>
    BY RequestsAreSound DEF Resolve
  <1>2. ASSUME NEW n \in Forms, UNCHANGED cookie,
               Goes(t, [r EXCEPT !.pc = IF n = username[r.sub] THEN "save" ELSE "check",
                                 !.name = n])
        PROVE  IInv'
    <2> DEFINE pc == IF n = username[r.sub] THEN "save" ELSE "check"
               q == [r EXCEPT !.pc = pc, !.name = n]
    <2>1. Goes(t, q)
      BY <1>2
    <2>2. n \in Words \X Seq(Nat) /\ pc \in {"save", "check"}
      BY SubsAssumption
    <2> HIDE DEF r, pc
    <2>3. q \in Request /\ q.pc = pc /\ q.name = n /\ q.sub = r.sub /\ q.who = r.who
      BY <1>1, <2>2 DEF Sound, Request, Names
    <2> HIDE DEF q
    <2>4. Sound(q)
      BY <1>1, <2>2, <2>3 DEF Sound
    <2>5. QED
      BY <1>1, <1>2, <2>1, <2>4, Onward
  <1>3. CASE Goes(t, Idle) /\ UNCHANGED cookie
    BY <1>1, <1>3, IdleIsSound, Onward
  <1>4. CASE Goes(t, Idle) /\ cookie' = [cookie EXCEPT ![Browser[t]] = 0]
    <2>1. cookie' \in [Browsers -> Ids \cup {0}] /\ logins' \in 0 .. MaxLogins
      BY <1>1, <1>4 DEF IInv, AccountsTypeOK
    <2>2. QED
      BY <1>1, <1>4, <2>1, IdleIsSound, RequestStep
  <1>5. QED
    BY <1>2, <1>3, <1>4 DEF Resolve, Fails

LEMMA CheckKeeps == ASSUME IInv, NEW t \in Tabs, Check(t) PROVE IInv'
  <1> DEFINE r == req[t]
             q == [r EXCEPT !.pc = "save"]
  <1>1. Sound(r) /\ r.pc = "check" /\ UNCHANGED <<tables, cookie, logins>>
    BY RequestsAreSound DEF Check
  <1>2. Goes(t, Idle) \/ Goes(t, q)
    BY DEF Check
  <1> HIDE DEF r
  <1>3. q \in Request /\ q.pc = "save" /\ q.name = r.name /\ q.sub = r.sub /\ q.who = r.who
    BY <1>1 DEF Sound, Request
  <1> HIDE DEF q
  <1>4. Sound(q)
    BY <1>1, <1>3 DEF Sound
  <1>5. QED
    BY <1>1, <1>2, <1>4, IdleIsSound, Onward

LEMMA SaveKeeps == ASSUME IInv, NEW t \in Tabs, Save(t) PROVE IInv'
  <1> DEFINE r == req[t]
  <1>1. Sound(r) /\ r.pc = "save" /\ UNCHANGED <<session, cookie, logins>>
    BY RequestsAreSound DEF Save
  <1>2. r.sub \in Subs /\ r.name \in Words \X Seq(Nat)
    BY <1>1 DEF Sound
  <1>3. CASE /\ ~TakenFrom(r.sub, r.name)
             /\ username' = [username EXCEPT ![r.sub] = r.name]
             /\ Writes(t, Idle)
    BY <1>1, <1>2, <1>3, IdleIsRequest, AccountStep
  <1>4. CASE Goes(t, Idle) /\ UNCHANGED username
    BY <1>1, <1>4, IdleIsSound, Onward DEF tables
  <1>5. QED
    BY <1>3, <1>4 DEF Save, Fails

LEMMA ExpireKeeps == ASSUME IInv, Expire PROVE IInv'
  <1>1. PICK i \in Ids : session' = [session EXCEPT ![i] = NoSession]
    BY DEF Expire
  <1>2. UNCHANGED <<username, cookie, req, logins>>
    BY DEF Expire
  <1>3. cookie' \in [Browsers -> Ids \cup {0}]
    BY <1>2 DEF IInv, AccountsTypeOK
  <1>4. QED
    BY <1>1, <1>2, <1>3, Forgotten, SessionStep

LEMMA Stutter == ASSUME IInv, UNCHANGED vars PROVE IInv'
  BY DEF vars, tables, IInv, AccountsTypeOK, SessionsOwned, RequestsOwned, FoundIsFree,
         TakenFrom, LoneLoginSucceeds

LEMMA Invariance == Spec => []IInv
  <1>1. IInv /\ [Next]_vars => IInv'
    <2> SUFFICES ASSUME IInv, [Next]_vars PROVE IInv'
      OBVIOUS
    <2>1. ASSUME NEW t \in Tabs, Callback(t) \/ LogsIn(t) PROVE IInv'
      BY <2>1, CallbackKeeps, SearchKeeps, InsertKeeps, OpenKeeps, RefuseKeeps DEF LogsIn
    <2>2. ASSUME NEW t \in Tabs, Logout(t) \/ Enter(t) \/ TurnAway(t) \/ Edits(t)
          PROVE  IInv'
      BY <2>2, LogoutKeeps, EnterKeeps, TurnAwayKeeps, ResolveKeeps, CheckKeeps, SaveKeeps
         DEF Edits
    <2>3. CASE Expire
      BY <2>3, ExpireKeeps
    <2>4. CASE UNCHANGED vars
      BY <2>4, Stutter
    <2>5. QED
      BY <2>1, <2>2, <2>3, <2>4 DEF Next
  <1>2. QED
    BY Initial, <1>1, PTL DEF Spec

-----------------------------------------------------------------------------
\* UNIQUE(username), and the types: GetUserByUsername (users.go) finds one host for
\* a link, whoever logs in and renames at once.
THEOREM NamesAreUnique == Spec => []AccountsTypeOK
  <1>1. IInv => AccountsTypeOK
    BY DEF IInv
  <1>2. QED
    BY <1>1, Invariance, PTL

\* HandleCallback (auth.go) refuses a login only when another request has written an
\* account between the search for a name and the insert.
THEOREM LoneLoginsAreServed == Spec => []LoneLoginSucceeds
  <1>1. IInv => LoneLoginSucceeds
    BY DEF IInv
  <1>2. QED
    BY <1>1, Invariance, PTL

\* UpsertUser and UpdateUserProfile write the row of the person whose login the
\* request goes back to, by the session it carries.
THEOREM WritersAreOwners == Spec => OnlyOwnersWrite
  <1> DEFINE Owned(s) == username'[s] # username[s] =>
               \E t \in Tabs : /\ req[t].pc \in {"insert", "save"}
                               /\ req'[t].pc # req[t].pc
                               /\ req[t].who = s
  <1>1. IInv /\ [Next]_vars => [\A s \in Subs : Owned(s)]_vars
    <2> SUFFICES ASSUME IInv, [Next]_vars, NEW s \in Subs, username'[s] # username[s]
                 PROVE  \E t \in Tabs : /\ req[t].pc \in {"insert", "save"}
                                        /\ req'[t].pc # req[t].pc
                                        /\ req[t].who = s
      OBVIOUS
    <2>1. PICK t \in Tabs : Insert(t) \/ Save(t)
      BY DEF Next, vars, tables, LogsIn, Edits, Callback, Search, Open, Refuse, Logout,
             Enter, TurnAway, Resolve, Check, Expire
    <2>2. req[t].pc \in {"insert", "save"}
          /\ username' = [username EXCEPT ![req[t].sub] = req[t].name]
          /\ (Writes(t, [req[t] EXCEPT !.pc = "open"]) \/ Writes(t, Idle))
      BY <2>1 DEF Insert, Save, Fails
    <2>3. req[t].who = req[t].sub
      BY <2>2 DEF IInv, RequestsOwned
    <2>4. req[t].sub = s
      BY <2>2 DEF IInv, AccountsTypeOK
    <2>5. req'[t].pc # req[t].pc
      <3>1. req[t] \in Request
        BY DEF IInv, AccountsTypeOK
      <3>2. req'[t] = [req[t] EXCEPT !.pc = "open"] \/ req'[t] = Idle
        BY <2>2 DEF Writes
      <3>3. req'[t].pc \in {"open", "idle"}
        BY <3>1, <3>2, IdleIsRequest DEF Request
      <3>4. QED
        BY <2>2, <3>3
    <2>6. QED
      BY <2>2, <2>3, <2>4, <2>5
  <1>2. QED
    BY <1>1, Invariance, PTL DEF Spec, OnlyOwnersWrite
===============================================================================
