------------------------------- MODULE BillLife -------------------------------
(***************************************************************************)
(* What becomes of a bill, whichever service touches it.  It is drafted    *)
(* with a charge and dropped or issued; once issued it stands, with that   *)
(* charge, until a correction reverses it for good.  Payments, applied     *)
(* prepayments and penalties come and go beside that: STANDING is POSTED,  *)
(* PARTIAL_PAID and PAID, and the charge is what the bill asks without     *)
(* its penalty.                                                            *)
(***************************************************************************)
EXTENDS Integers

CONSTANT Bills

VARIABLES life, charge
lifeVars == <<life, charge>>

LifeInit ==
    /\ life = [b \in Bills |-> "NONE"]
    /\ charge = [b \in Bills |-> 0]

(* Bills S reach stage; no other bill changes.                             *)
Become(S, stage) == life' = [b \in Bills |-> IF b \in S THEN stage ELSE life[b]]
Keep(S) == /\ charge' \in [Bills -> Int]
           /\ \A b \in S : charge'[b] = charge[b]

(* A batch of a run drafts bills; a discard drops drafts.                  *)
Draft(S) ==
    /\ \A b \in S : life[b] = "NONE"
    /\ Become(S, "DRAFT") /\ Keep(Bills \ S)

Drop(S) ==
    /\ \A b \in S : life[b] = "DRAFT"
    /\ Become(S, "NONE") /\ Keep(Bills \ S)

Issue(b) ==
    /\ life[b] = "DRAFT"
    /\ Become({b}, "STANDING") /\ UNCHANGED charge

(* A correction issues a bill in the place of one that stood (replaceTx),  *)
(* or beside those that stand (an ADJUSTMENT), or reverses one.            *)
Adjust(c) ==
    /\ life[c] = "NONE" /\ \E b \in Bills : life[b] = "STANDING"
    /\ Become({c}, "STANDING") /\ Keep(Bills \ {c})

Reverse(b) ==
    /\ life[b] = "STANDING"
    /\ Become({b}, "REVERSED") /\ UNCHANGED charge

Replace(b, c) ==
    /\ life[b] = "STANDING" /\ life[c] = "NONE"
    /\ life' = [life EXCEPT ![b] = "REVERSED", ![c] = "STANDING"]
    /\ Keep(Bills \ {c})

LifeNext ==
    \/ \E S \in SUBSET Bills : Draft(S) \/ Drop(S)
    \/ \E b \in Bills : Issue(b) \/ Adjust(b) \/ Reverse(b)
    \/ \E b, c \in Bills : Replace(b, c)

LifeSpec == LifeInit /\ [][LifeNext]_lifeVars
=============================================================================
