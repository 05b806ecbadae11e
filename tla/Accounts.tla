------------------------------ MODULE Accounts ------------------------------
(***************************************************************************)
(* The accounts of the hosts and their sessions:                           *)
(* internal/handler/auth.go, internal/auth/session.go and middleware.go,   *)
(* internal/db/users.go and sessions.go, and the profile form of           *)
(* internal/handler/dashboard.go.                                          *)
(*                                                                         *)
(* A first login looks for a free username and then inserts it; a profile  *)
(* change looks whether its username is taken and then writes it.  Nothing *)
(* holds the database in between, so only UNIQUE on the column decides     *)
(* between two that chose the same.                                        *)
(*                                                                         *)
(* A username is a word with the numbers put to it: "ann-2" is "ann", <<2>>. *)
(***************************************************************************)
EXTENDS Integers, Sequences

CONSTANTS
    Subs,         \* subjects of the OIDC provider: people
    Words,        \* words usernames begin with
    Preferred,    \* [Subs -> username their claims lead to]
    Forms,        \* usernames entered in the profile form
    Tabs,         \* requests there can be at once
    Browser,      \* [Tabs -> browser whose cookie the request carries]
    MaxLogins,    \* bound on the logins begun
    MaxFaults     \* bound on failing statements

NoName == <<>>
Nobody == "nobody"
Browsers == {Browser[t] : t \in Tabs}
Ids == 1 .. MaxLogins

ASSUME SubsAssumption ==
    /\ Preferred \in [Subs -> Words \X Seq(Nat)]
    /\ Forms \subseteq Words \X Seq(Nat)
    /\ Nobody \notin Subs
ASSUME LimitsAssumption == MaxLogins \in Nat /\ MaxFaults \in Nat

VARIABLES
    username, \* users: [Subs -> username of the row, or NoName]
    session,  \* sessions: [Ids -> user of the row while it lasts, or NoSession]
    cookie,   \* [Browsers -> session id in the cookie, or 0]
    req,      \* [Tabs -> locals of the request]
    logins,   \* number of logins begun, each with a session id of its own
    faults

tables == <<username, session>>
vars   == <<tables, cookie, req, logins, faults>>

-----------------------------------------------------------------------------
\* fmt.Sprintf("%s-%d", name, i)
Numbered(name, i) == <<name[1], Append(name[2], i)>>

\* who is history, the person a session or request goes back to, and so is alone:
\* no account was written by others since the login began.
NoSession == [sub |-> Nobody, who |-> Nobody]

Idle == [pc |-> "idle", sub |-> Nobody, who |-> Nobody, name |-> NoName,
         next |-> 0, id |-> 0, alone |-> TRUE]

LoginPcs == {"search", "insert"}

Goes(t, r) == req' = [req EXCEPT ![t] = r]

\* The request goes on as r and has written an account: nobody else is alone.
Writes(t, r) ==
    req' = [u \in Tabs |-> IF u = t THEN r
                           ELSE [req[u] EXCEPT !.alone = @ /\ req[u].pc \notin LoginPcs]]

Fault == faults < MaxFaults /\ faults' = faults + 1

\* A failing statement ends the request with an error page.
Fails(t) == Fault /\ Goes(t, Idle)

\* GetUserByUsername finds a row of somebody else.
TakenFrom(sub, name) == \E s \in Subs \ {sub} : username[s] = name

Init ==
    /\ username = [s \in Subs |-> NoName]
    /\ session = [i \in Ids |-> NoSession]
    /\ cookie = [b \in Browsers |-> 0]
    /\ req = [t \in Tabs |-> Idle]
    /\ logins = 0
    /\ faults = 0

-----------------------------------------------------------------------------
(***************************************************************************)
(* Logging in and out.                                                     *)
(***************************************************************************)

\* HandleCallback, once the code is exchanged for claims.
Callback(t) ==
    /\ req[t].pc = "idle"
    /\ logins < MaxLogins
    /\ logins' = logins + 1
    /\ \E s \in Subs :
         Goes(t, [Idle EXCEPT !.pc = "search", !.sub = s, !.who = s,
                              !.name = Preferred[s], !.next = 2, !.id = logins + 1])
    /\ UNCHANGED <<tables, cookie, faults>>

\* Mutant of Search: a name with a number is taken for free.
SearchOnce(t) ==
    LET r == req[t]
    IN  /\ r.pc = "search"
        /\ Goes(t, IF TakenFrom(r.sub, r.name)
                   THEN [r EXCEPT !.pc = "insert", !.name = Numbered(Preferred[r.sub], r.next)]
                   ELSE [r EXCEPT !.pc = "insert"])
        /\ UNCHANGED <<tables, cookie, logins, faults>>

\* Mutant of Search: the number is not counted up.
SearchSameName(t) ==
    LET r == req[t]
    IN  /\ r.pc = "search"
        /\ Goes(t, IF TakenFrom(r.sub, r.name) THEN [r EXCEPT !.next = 2]
                   ELSE [r EXCEPT !.pc = "insert"])
        /\ UNCHANGED <<tables, cookie, logins, faults>>

\* One turn of the search: the name is free or the person's own, or the next
\* number is tried.
Search(t) ==
    LET r == req[t]
    IN  /\ r.pc = "search"
        /\ \/ /\ IF TakenFrom(r.sub, r.name)
                 THEN Goes(t, [r EXCEPT !.name = Numbered(Preferred[r.sub], r.next),
                                        !.next = @ + 1])
                 ELSE Goes(t, [r EXCEPT !.pc = "insert"])
              /\ UNCHANGED faults
           \/ Fails(t)
        /\ UNCHANGED <<tables, cookie, logins>>

\* UpsertUser: a subject that has a row keeps it, whatever the name; a new one is
\* inserted, and refused when the name has been taken.  Reading the row back
\* may fail after it was inserted.
Insert(t) ==
    LET r == req[t]
    IN  /\ r.pc = "insert"
        /\ \/ /\ username[r.sub] # NoName
              /\ Goes(t, [r EXCEPT !.pc = "open"])
              /\ UNCHANGED <<username, faults>>
           \/ /\ username[r.sub] = NoName /\ ~TakenFrom(r.sub, r.name)
              /\ username' = [username EXCEPT ![r.sub] = r.name]
              /\ \/ Writes(t, [r EXCEPT !.pc = "open"]) /\ UNCHANGED faults
                 \/ Fault /\ Writes(t, Idle)
           \/ /\ username[r.sub] = NoName /\ TakenFrom(r.sub, r.name)
              /\ Goes(t, [r EXCEPT !.pc = "refused"])
              /\ UNCHANGED <<username, faults>>
           \/ Fails(t) /\ UNCHANGED username
        /\ UNCHANGED <<session, cookie, logins>>

\* Mutant of Open: the session is for the user who has the name searched for.
OpenByName(t) ==
    LET r == req[t]
    IN  /\ r.pc = "open"
        /\ \E s \in Subs :
             /\ username[s] = r.name
             /\ session' = [session EXCEPT ![r.id] = [sub |-> s, who |-> r.who]]
        /\ cookie' = [cookie EXCEPT ![Browser[t]] = r.id]
        /\ Goes(t, Idle)
        /\ UNCHANGED <<username, logins, faults>>

\* CreateSession for the row of the subject, and the cookie.
Open(t) ==
    LET r == req[t]
    IN  /\ r.pc = "open"
        /\ \/ /\ session' = [session EXCEPT ![r.id] = [sub |-> r.sub, who |-> r.who]]
              /\ cookie' = [cookie EXCEPT ![Browser[t]] = r.id]
              /\ Goes(t, Idle)
              /\ UNCHANGED faults
           \/ Fails(t) /\ UNCHANGED <<session, cookie>>
        /\ UNCHANGED <<username, logins>>

\* "db error" is shown and nothing is left of the request.
Refuse(t) ==
    /\ req[t].pc = "refused"
    /\ Goes(t, Idle)
    /\ UNCHANGED <<tables, cookie, logins, faults>>

\* HandleLogout.  An error of the delete is ignored: the cookie goes anyhow.
Logout(t) ==
    /\ req[t].pc = "idle"
    /\ cookie[Browser[t]] # 0
    /\ cookie' = [cookie EXCEPT ![Browser[t]] = 0]
    /\ \/ /\ session' = [session EXCEPT ![cookie[Browser[t]]] = NoSession]
          /\ UNCHANGED faults
       \/ Fault /\ UNCHANGED session
    /\ UNCHANGED <<username, req, logins>>

-----------------------------------------------------------------------------
(***************************************************************************)
(* The dashboard: RequireAuth and the profile form.                        *)
(***************************************************************************)

Valid(id) == id # 0 /\ session[id] # NoSession

\* resolveUser finds the session of the cookie.
Enter(t) ==
    LET id == cookie[Browser[t]]
    IN  /\ req[t].pc = "idle"
        /\ Valid(id)
        /\ Goes(t, [Idle EXCEPT !.pc = "resolve", !.sub = session[id].sub,
                                !.who = session[id].who])
        /\ UNCHANGED <<tables, cookie, logins, faults>>

\* There is no cookie, no session, or the statement fails: the cookie is cleared.
TurnAway(t) ==
    LET id == cookie[Browser[t]]
    IN  /\ req[t].pc = "idle"
        /\ \/ ~Valid(id) /\ UNCHANGED faults
           \/ Valid(id) /\ Fault
        /\ cookie' = [cookie EXCEPT ![Browser[t]] = 0]
        /\ UNCHANGED <<tables, req, logins>>

\* It loads the user: the copy HandleProfilePost compares the form with.  When that
\* fails the cookie is cleared, and the session stays; a page, or a form that is
\* turned down as it is, ends here.
Resolve(t) ==
    LET r == req[t]
    IN  /\ r.pc = "resolve"
        /\ \/ /\ \E n \in Forms :
                   Goes(t, [r EXCEPT !.pc = IF n = username[r.sub] THEN "save" ELSE "check",
                                     !.name = n])
              /\ UNCHANGED <<cookie, faults>>
           \/ Goes(t, Idle) /\ UNCHANGED <<cookie, faults>>
           \/ Fails(t) /\ cookie' = [cookie EXCEPT ![Browser[t]] = 0]
        /\ UNCHANGED <<tables, logins>>

\* The form's username is looked up; a failing lookup counts as free.
Check(t) ==
    LET r == req[t]
    IN  /\ r.pc = "check"
        /\ \/ TakenFrom(r.sub, r.name) /\ Goes(t, Idle) /\ UNCHANGED faults
           \/ ~TakenFrom(r.sub, r.name) /\ Goes(t, [r EXCEPT !.pc = "save"])
                /\ UNCHANGED faults
           \/ Fault /\ Goes(t, [r EXCEPT !.pc = "save"])
        /\ UNCHANGED <<tables, cookie, logins>>

\* Mutant of Save: the column is not UNIQUE.
SaveAnyName(t) ==
    LET r == req[t]
    IN  /\ r.pc = "save"
        /\ username' = [username EXCEPT ![r.sub] = r.name]
        /\ Writes(t, Idle)
        /\ UNCHANGED <<session, cookie, logins, faults>>

\* UpdateUserProfile, refused when the username has been taken.
Save(t) ==
    LET r == req[t]
    IN  /\ r.pc = "save"
        /\ \/ /\ ~TakenFrom(r.sub, r.name)
              /\ username' = [username EXCEPT ![r.sub] = r.name]
              /\ Writes(t, Idle)
              /\ UNCHANGED faults
           \/ TakenFrom(r.sub, r.name) /\ Goes(t, Idle) /\ UNCHANGED <<username, faults>>
           \/ Fails(t) /\ UNCHANGED username
        /\ UNCHANGED <<session, cookie, logins>>

-----------------------------------------------------------------------------
\* The 24 hours of a session pass.  Its row stays, for PruneExpiredSessions has no
\* caller, and is found no more.
Expire ==
    /\ \E i \in Ids : /\ session[i] # NoSession
                     /\ session' = [session EXCEPT ![i] = NoSession]
    /\ UNCHANGED <<username, cookie, req, logins, faults>>

LogsIn(t) == Search(t) \/ Insert(t) \/ Open(t) \/ Refuse(t)
Edits(t)  == Resolve(t) \/ Check(t) \/ Save(t)

Next ==
    \/ \E t \in Tabs : \/ Callback(t) \/ LogsIn(t) \/ Logout(t)
                       \/ Enter(t) \/ TurnAway(t) \/ Edits(t)
    \/ Expire

Spec == Init /\ [][Next]_vars

\* The goroutine of a request that has begun goes on.
Fairness == \A t \in Tabs : WF_vars(LogsIn(t)) /\ WF_vars(Edits(t))

FairSpec == Spec /\ Fairness

-----------------------------------------------------------------------------
(***************************************************************************)
(* Correctness.                                                            *)
(***************************************************************************)

Names == (Words \X Seq(Nat)) \cup {NoName}

Request == [pc : {"idle", "search", "insert", "open", "refused", "resolve", "check", "save"},
            sub : Subs \cup {Nobody}, who : Subs \cup {Nobody}, name : Names, next : Nat,
            id : Ids \cup {0}, alone : BOOLEAN]

\* The types, and UNIQUE(username): a booking link leads to one host.
AccountsTypeOK ==
    /\ username \in [Subs -> Names]
    /\ \A a, b \in Subs : a # b /\ username[a] = username[b] => username[a] = NoName
    /\ session \in [Ids -> [sub : Subs \cup {Nobody}, who : Subs \cup {Nobody}]]
    /\ cookie \in [Browsers -> Ids \cup {0}]
    /\ req \in [Tabs -> Request]

\* HandleCallback turns nobody away whose login no other write to the accounts
\* overlapped, however the names before were chosen and changed.
LoneLoginSucceeds ==
    \A t \in Tabs : req[t].pc = "refused" => ~req[t].alone

\* An account is created and renamed only by a request that goes back to a login
\* of the person it belongs to, although names pass from one to another and a
\* browser is used by several.
OnlyOwnersWrite ==
    [][\A s \in Subs : username'[s] # username[s] =>
          \E t \in Tabs : /\ req[t].pc \in {"insert", "save"}
                          /\ req'[t].pc # req[t].pc
                          /\ req[t].who = s]_vars

\* The search of HandleCallback for a free username (auth.go:62) has no bound: it
\* ends if the others stop taking names, and a host who renames just ahead of each
\* turn keeps it going.  Every other request ends, whatever names are taken.
CallersAreAnswered ==
    /\ <>[][username' = username]_vars =>
         \A t \in Tabs : req[t].pc = "search" ~> req[t].pc # "search"
    /\ \A t \in Tabs : req[t].pc \notin {"idle", "search"} ~> req[t].pc = "idle"
=============================================================================
