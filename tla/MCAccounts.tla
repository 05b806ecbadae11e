----------------------------- MODULE MCAccounts -----------------------------
(***************************************************************************)
(* An instance of Accounts for TLC: two people whose claims lead to one    *)
(* name, and one whose claims lead to the name the search tries next.  The *)
(* name after that is the one profile forms take while the search runs.    *)
(***************************************************************************)
EXTENDS Accounts

Ann  == <<"ann", <<>>>>
Ann2 == <<"ann", <<2>>>>
Ann3 == <<"ann", <<3>>>>

MCSubs      == {"s1", "s2", "s3"}
MCWords     == {"ann"}
MCPreferred == [s1 |-> Ann, s2 |-> Ann, s3 |-> Ann2]
MCForms     == {Ann3}

\* Two requests at once, from one browser or from two.
MCTabs     == {"t1", "t2"}
OneBrowser == [t1 |-> "b1", t2 |-> "b1"]
=============================================================================
