------------------------------ MODULE DayClose ------------------------------
(***************************************************************************)
(* The drawers of the cashiers who take the payments of a settle account,  *)
(* and their day closes (DayCloseService).  The money itself moves as in   *)
(* SettleFunds.  A close reads the payments it will sweep, aggregates, and *)
(* writes; payments, reversals and refunds commit in between, while the    *)
(* lock on the staff row keeps other closes of the cashier out.            *)
(***************************************************************************)
EXTENDS SettleFunds, FiniteSets

CONSTANTS Cashiers,
          Nobody,     \* the cashier of a payment not yet made
          LastDay     \* bound: the days are 1 .. LastDay

ASSUME DayAssumption == LastDay \in Nat \ {0} /\ Nobody \notin Cashiers

VARIABLES cashier,    \* cashier[p]: who took payment p
          received,   \* received[p]: the date of its received_at
          dayClose,   \* dayClose[p]: date of the close that swept p, 0 if none
          closes,     \* closes[c][d]: the close of cashier c for date d
          sweep,      \* sweep[c]: the close of c that is under way
          today
drawerVars == <<cashier, received, dayClose, closes, sweep, today>>

Days == 1 .. LastDay

NoClose == [count |-> 0, total |-> 0, debt |-> 0, topUp |-> 0,
            refund |-> 0, reversal |-> 0]
Idle    == [date |-> 0, ids |-> {}]

DrawerInit ==
    /\ Init
    /\ cashier = [p \in Payments |-> Nobody]
    /\ received = [p \in Payments |-> 0]
    /\ dayClose = [p \in Payments |-> 0]
    /\ closes = [c \in Cashiers |-> [d \in Days |-> NoClose]]
    /\ sweep = [c \in Cashiers |-> Idle]
    /\ today = 1
-----------------------------------------------------------------------------
(* A payment is stamped with its cashier and with the date its transaction *)
(* started, which may be yesterday's when it commits after midnight.       *)
Stamp(p, c, d) ==
    /\ cashier' = [cashier EXCEPT ![p] = c]
    /\ received' = [received EXCEPT ![p] = d]

MoneyMoves ==
    /\ Next
    /\ \/ made' = made /\ UNCHANGED <<cashier, received>>
       \/ /\ made' # made
          /\ \E c \in Cashiers, d \in {today - 1, today} \cap Days :
                Stamp(made', c, d)
    /\ UNCHANGED <<dayClose, closes, sweep, today>>

Midnight ==
    /\ today < LastDay
    /\ today' = today + 1
    /\ UNCHANGED <<vars, cashier, received, dayClose, closes, sweep>>
-----------------------------------------------------------------------------
(* closeTx, up to the read of the payments to sweep: those the cashier     *)
(* took up to the date, not yet closed.  A date is closed once.            *)
Pending(c, d) ==
    {p \in 1 .. made : cashier[p] = c /\ dayClose[p] = 0 /\ received[p] <= d}

StartClose(c, d) ==
    /\ sweep[c] = Idle
    /\ closes[c][d] = NoClose
    /\ Pending(c, d) # {}
    /\ sweep' = [sweep EXCEPT ![c] = [date |-> d, ids |-> Pending(c, d)]]
    /\ UNCHANGED <<vars, cashier, received, dayClose, closes, today>>

(* How a payment counts: wholly as a reversal, wholly as a refund, or as   *)
(* the debts it collected and the lot it topped up.                        *)
IsReversal(p) == pay[p].reverses # 0
CollectsOrReverses(p) == ~ IsRefund(p)     \* faulty variant of Collects
Collects(p) == ~ IsReversal(p) /\ ~ IsRefund(p)

SumOf(v(_), ids) ==
    SumTo([p \in Payments |-> IF p \in ids THEN v(p) ELSE 0], NumPayments)

Document(ids) ==
    LET amount(p)     == pay[p].amount
        debtOf(p)     == IF Collects(p) THEN SumTo(pay[p].alloc, NumBills) ELSE 0
        topUpOf(p)    == IF Collects(p) THEN TopUpOf(p) ELSE 0
        refundOf(p)   == IF IsRefund(p) THEN pay[p].amount ELSE 0
        reversalOf(p) == IF IsReversal(p) THEN pay[p].amount ELSE 0
    IN  [count |-> Cardinality(ids), total |-> SumOf(amount, ids),
         debt |-> SumOf(debtOf, ids), topUp |-> SumOf(topUpOf, ids),
         refund |-> SumOf(refundOf, ids), reversal |-> SumOf(reversalOf, ids)]

(* The flip stamps the payments that were read, not those that would be    *)
(* read now (the faulty variant).                                          *)
SweptAfresh(c) == Pending(c, sweep[c].date)
Swept(c) == sweep[c].ids

FinishClose(c) ==
    /\ sweep[c] # Idle
    /\ closes' = [closes EXCEPT ![c][sweep[c].date] = Document(sweep[c].ids)]
    /\ dayClose' = [p \in Payments |->
                      IF p \in Swept(c) THEN sweep[c].date ELSE dayClose[p]]
    /\ sweep' = [sweep EXCEPT ![c] = Idle]
    /\ UNCHANGED <<vars, cashier, received, today>>

(* An exception or a crash rolls the close back.                           *)
AbandonClose(c) ==
    /\ sweep[c] # Idle
    /\ sweep' = [sweep EXCEPT ![c] = Idle]
    /\ UNCHANGED <<vars, cashier, received, dayClose, closes, today>>
-----------------------------------------------------------------------------
DrawerNext ==
    \/ MoneyMoves
    \/ \E c \in Cashiers, d \in Days : StartClose(c, d)
    \/ \E c \in Cashiers : FinishClose(c) \/ AbandonClose(c)
    \/ Midnight

DrawerSpec == DrawerInit /\ [][DrawerNext]_<<vars, drawerVars>>
-----------------------------------------------------------------------------
Members(c, d) == {p \in 1 .. made : cashier[p] = c /\ dayClose[p] = d}

(* A signed close stays the sum of its members, whatever is taken,         *)
(* reversed or refunded while it is being written or after, and all of     *)
(* them were taken by its date.                                            *)
CloseCountsItsMembers ==
    LET amount(p) == pay[p].amount
    IN  \A c \in Cashiers, d \in Days :
          /\ closes[c][d].count = Cardinality(Members(c, d))
          /\ closes[c][d].total = SumOf(amount, Members(c, d))
          /\ \A p \in Members(c, d) : received[p] <= d

(* "The four parts always sum to totalAmount - cash conservation".         *)
CloseSplitsItsTotal ==
    \A c \in Cashiers, d \in Days :
        LET z == closes[c][d]
        IN  z.debt + z.topUp + z.refund + z.reversal = z.total
=============================================================================
