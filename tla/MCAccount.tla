------------------------------ MODULE MCAccount ------------------------------
(* An account's two ledgers: the settlements of what was read, and the     *)
(* funds of a small settle account that its bills draw on.  One run        *)
(* explores the behaviours of each part beside the other at rest.          *)
EXTENDS SettleFunds, Settlements

CONSTANTS k1, k2

VARIABLE part
accountVars == <<part, vars, dialVars>>

(* Three periods with a correction in the second one, two with an exchange *)
(* in either, and two with two clerks and a correction.                    *)
Scope(last, clerks, corrected, exchanged) ==
    [last |-> last, clerks |-> clerks, corrected |-> corrected, exchanged |-> exchanged]
MCScopes == {Scope(3, {k1}, {2}, {}), Scope(2, {k1}, {}, {1}), Scope(2, {k1}, {}, {2}),
             Scope(2, {k1, k2}, {1}, {})}

AccountInit ==
    /\ part \in {"funds", "dials"}
    /\ Init /\ DialInit
    /\ part # "dials" => scope = CHOOSE x \in Scopes : TRUE

AccountNext ==
    \/ part = "funds" /\ Next /\ UNCHANGED <<part, dialVars>>
    \/ part = "dials" /\ DialNext /\ UNCHANGED <<part, vars>>

AccountSpec == AccountInit /\ [][AccountNext]_accountVars
=============================================================================
