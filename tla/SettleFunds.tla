----------------------------- MODULE SettleFunds -----------------------------
(***************************************************************************)
(* The money of one settle account: its bills, the payments taken for it,  *)
(* and its prepayment ledger.  One action is one committed transaction of  *)
(* PaymentService, PrepaymentService, BillService, BillingRunService,      *)
(* ReconciliationService, PenaltyService or CloseAccountUseCase.           *)
(*                                                                         *)
(* Rows that the code only ever inserts are kept as they are inserted;     *)
(* every balance is a sum over them, as in the SQL.                        *)
(*   pay[p]            payment p, its payment_alloc rows (alloc[b]) and    *)
(*                     the ledger entries that name it, per TOP_UP lot     *)
(*                     (lot[l]); a TOP_UP lot is named after the payment   *)
(*                     that created it, key topup:{payment}                *)
(*   applied[b][l]     the APPLY entry with key apply:{b}:{l}, 0 if none,  *)
(*                     and its mirror payment_alloc row                    *)
(*   restored[b][l]    the REVERSAL entry with key reverse:{that APPLY}    *)
(* A REVERSAL bill takes part in no sum and no queue, so it is not a bill  *)
(* here: it is the REVERSED status of the bill it mirrors.                 *)
(***************************************************************************)
EXTENDS Sums

CONSTANTS NumBills,     \* bill ids 1 .. NumBills, in debt-queue order
          NumPayments,  \* bound: payments ever made
          Accts,        \* the water accounts that share the settle account
          MaxAmount,    \* bound: largest bill total or payment amount
          MaxPenalty    \* bound: largest accrued penalty of one bill

ASSUME BoundsAssumption ==
    /\ NumBills \in Nat
    /\ NumPayments \in Nat
    /\ MaxAmount \in Nat
    /\ MaxPenalty \in Nat
    /\ Accts # {}

VARIABLES bill, made, pay, applied, restored, closed
vars == <<bill, made, pay, applied, restored, closed>>

Bills    == 1 .. NumBills
Payments == 1 .. NumPayments
Lots     == Payments

Statuses == {"NONE", "DRAFT", "POSTED", "PARTIAL_PAID", "PAID", "REVERSED"}
Payable    == {"POSTED", "PARTIAL_PAID"}
RecomputedAll == {"POSTED", "PARTIAL_PAID", "PAID", "REVERSED"}   \* faulty variant of Recomputed
Recomputed == {"POSTED", "PARTIAL_PAID", "PAID"}

Bill    == [status : Statuses, total : Int, penalty : Nat,
            due : BOOLEAN, acct : Accts]
Payment == [amount : Int, alloc : [Bills -> Int], lot : [Lots -> Int],
            reverses : 0 .. NumPayments]

NoAllocs  == [b \in Bills |-> 0]
NoEntries == [l \in Lots |-> 0]
NoPayment == [amount |-> 0, alloc |-> NoAllocs, lot |-> NoEntries,
              reverses |-> 0]
-----------------------------------------------------------------------------
(* The sums the code reads.  They are stated over the tables they read so  *)
(* that an operation may also read them half-way through its own writes.   *)

PaidOf(py, ap, re, b) ==
    SumTo([p \in Payments |-> py[p].alloc[b]], NumPayments)
      + SumTo([l \in Lots |-> ap[b][l] - re[b][l]], NumPayments)

RemainingOf(py, ap, re, l) ==
    SumTo([p \in Payments |-> py[p].lot[l]], NumPayments)
      - SumTo([b \in Bills |-> ap[b][l] - re[b][l]], NumBills)

BalanceOf(py, ap, re) ==
    SumTo([l \in Lots |-> RemainingOf(py, ap, re, l)], NumPayments)

Paid(b)      == PaidOf(pay, applied, restored, b)
Remaining(l) == RemainingOf(pay, applied, restored, l)
Balance      == BalanceOf(pay, applied, restored)
TopUpOf(p)   == IF pay[p].reverses = 0 /\ pay[p].lot[p] > 0
                THEN pay[p].lot[p] ELSE 0

(* debtQueueTx: what each payable bill still owes; 0 keeps a bill out of   *)
(* the queue.  bl and paid are the bill table and the paid sums in use.    *)
Debt(bl, paid) ==
    [b \in Bills |->
        IF bl[b].status \in Payable /\ bl[b].total > paid[b]
        THEN bl[b].total - paid[b] ELSE 0]

PaidNow == [b \in Bills |-> Paid(b)]

(* recomputeBillStatusTx of both services, which differ only in how they   *)
(* read a bill whose total is not positive.                                *)
StatusFor(total, paid) ==
    IF paid >= total THEN "PAID"
    ELSE IF paid > 0 THEN "PARTIAL_PAID" ELSE "POSTED"

StatusAfterReversal(total, paid) ==
    IF paid <= 0 THEN "POSTED" ELSE StatusFor(total, paid)

(* Faulty variant of PortOutstanding: allocations of reversed bills are    *)
(* dropped.                                                                *)
StandingOutstanding ==
    SumTo([b \in Bills |->
             IF bill[b].status \in {"DRAFT"} \cup Payable
             THEN bill[b].total - Paid(b) ELSE 0], NumBills)

(* getOutstanding of the finance port: the credit of a reversed bill stays *)
(* in the sum through its surviving allocations.                           *)
PortOutstanding ==
    SumTo([b \in Bills |->
             (IF bill[b].status \in {"DRAFT"} \cup Payable
              THEN bill[b].total ELSE 0)
             - (IF bill[b].status \in {"DRAFT", "REVERSED"} \cup Payable
                THEN Paid(b) ELSE 0)], NumBills)
-----------------------------------------------------------------------------
Init ==
    /\ bill = [b \in Bills |-> [status |-> "NONE", total |-> 0, penalty |-> 0,
                                due |-> FALSE, acct |-> CHOOSE a \in Accts : TRUE]]
    /\ made = 0
    /\ pay = [p \in Payments |-> NoPayment]
    /\ applied = [b \in Bills |-> NoEntries]
    /\ restored = [b \in Bills |-> NoEntries]
    /\ closed = {}

NewBill(s, t, d, a) ==
    [status |-> s, total |-> t, penalty |-> 0, due |-> d, acct |-> a]

Receive(row) ==
    /\ made < NumPayments
    /\ made' = made + 1
    /\ pay' = [pay EXCEPT ![made + 1] = row]
-----------------------------------------------------------------------------
(* applyForPostedDebtTx, run inside the transaction that wrote the bill    *)
(* table bl and the REVERSAL entries re.  An APPLY whose key already       *)
(* exists is not written again, while the walk goes on as if it had been.  *)
Take(bl, re, b, l) ==
    LET debt == Debt(bl, [c \in Bills |-> PaidOf(pay, applied, re, c)])
        lots == [k \in Lots |-> RemainingOf(pay, applied, re, k)]
    IN  ServedFrom(debt, b, lots, l)

ApplyKey(bl, re, b, l) ==
    IF applied[b][l] = 0 THEN Take(bl, re, b, l) ELSE applied[b][l]

WalkQueue(bl, re) ==
    /\ applied' = [b \in Bills |-> [l \in Lots |-> ApplyKey(bl, re, b, l)]]
    /\ bill' = [b \in Bills |->
                  IF bl[b].status \in Payable
                     /\ bl[b].total > PaidOf(pay, applied, re, b)
                  THEN [bl[b] EXCEPT !.status =
                          StatusFor(bl[b].total, PaidOf(pay, applied', re, b))]
                  ELSE bl[b]]

ApplyForPostedDebt(bl, re) ==
    /\ restored' = re
    /\ IF BalanceOf(pay, applied, re) <= 0
       THEN bill' = bl /\ UNCHANGED applied
       ELSE WalkQueue(bl, re)
    /\ UNCHANGED <<made, pay, closed>>
-----------------------------------------------------------------------------
(* Bills.                                                                  *)

(* generateBillFromSnapshot: a DRAFT bill, with a due date.                *)
GenerateBill(b, t, a) ==
    /\ bill[b].status = "NONE"
    /\ bill' = [bill EXCEPT ![b] = NewBill("DRAFT", t, TRUE, a)]
    /\ UNCHANGED <<made, pay, applied, restored, closed>>

(* discardTx deletes the DRAFT bills of a run.                             *)
DiscardBill(b) ==
    /\ bill[b].status = "DRAFT"
    /\ bill' = [bill EXCEPT ![b] = NewBill("NONE", 0, FALSE, @.acct)]
    /\ UNCHANGED <<made, pay, applied, restored, closed>>

(* postOneBill: a CLOSED account refuses, a posted bill applies.           *)
PostBill(b) ==
    /\ bill[b].status = "DRAFT"
    /\ bill[b].acct \notin closed
    /\ ApplyForPostedDebt([bill EXCEPT ![b].status = "POSTED"], restored)

(* ReconciliationService.createTx, outcome APPLIED: an ADJUSTMENT bill,    *)
(* a credit when t < 0; only a positive one applies.  It corrects standing *)
(* bills of the account and credits no more than they charge.              *)
Standing(a) == {b \in Bills : bill[b].acct = a /\ bill[b].status \in Recomputed}

ChargeOf(a) ==
    SumTo([b \in Bills |-> IF b \in Standing(a) THEN bill[b].total ELSE 0],
          NumBills)

Adjust(b, t, a) ==
    /\ bill[b].status = "NONE"
    /\ a \notin closed
    /\ Standing(a) # {}
    /\ 0 <= ChargeOf(a) + t
    /\ LET posted == [bill EXCEPT ![b] = NewBill("POSTED", t, FALSE, a)]
       IN  IF t > 0
           THEN ApplyForPostedDebt(posted, restored)
           ELSE /\ bill' = posted
                /\ UNCHANGED <<made, pay, applied, restored, closed>>

(* assertCorrectableLocked: PAID only when prepayment paid a part of it.   *)
Correctable(b) ==
    \/ bill[b].status \in Payable
    \/ bill[b].status = "PAID" /\ \E l \in Lots : applied[b][l] > 0

(* reverseAppliedForBillTx: each APPLY is restored in full, once.          *)
RestoreAll(b) == [restored EXCEPT ![b] = applied[b]]

(* BillService.reverseTx *)
ReverseBill(b) ==
    /\ Correctable(b)
    /\ bill' = [bill EXCEPT ![b].status = "REVERSED"]
    /\ restored' = RestoreAll(b)
    /\ UNCHANGED <<made, pay, applied, closed>>

(* BillService.replaceTx: restore first, then the replacement c, the same  *)
(* debt with the same due date, applies.                                   *)
ReplaceBill(b, c, t) ==
    /\ Correctable(b)
    /\ bill[c].status = "NONE"
    /\ LET posted == [bill EXCEPT
                        ![b].status = "REVERSED",
                        ![c] = NewBill("POSTED", t, bill[b].due, bill[b].acct)]
       IN  IF t > 0
           THEN ApplyForPostedDebt(posted, RestoreAll(b))
           ELSE /\ bill' = posted
                /\ restored' = RestoreAll(b)
                /\ UNCHANGED <<made, pay, applied, closed>>

(* accrueTx: one scan of the overdue bills, each getting its penalty line  *)
(* rewritten to pen[b]; a bill without principal left is skipped.          *)
Principal(b) == bill[b].total - bill[b].penalty - Paid(b)
Accruable(b) == bill[b].status \in Payable /\ bill[b].due /\ Principal(b) > 0

(* Faulty variant of Accrue: the line keeps the increment.                 *)
AccrueDelta(b, amount) ==
    [bill[b] EXCEPT !.total = @ + amount - bill[b].penalty,
                    !.penalty = amount - bill[b].penalty]

Accrue(b, amount) ==
    [bill[b] EXCEPT !.total = @ + amount - bill[b].penalty,
                    !.penalty = amount]

AccruePenalty(pen) ==
    /\ \A b \in Bills : ~ Accruable(b) => pen[b] = bill[b].penalty
    /\ \E b \in Bills : pen[b] # bill[b].penalty
    /\ bill' = [b \in Bills |-> Accrue(b, pen[b])]
    /\ UNCHANGED <<made, pay, applied, restored, closed>>
-----------------------------------------------------------------------------
(* Payments.                                                               *)

(* PaymentService.createTx: every allocation fits what its bill still      *)
(* owes, counting every earlier allocation whatever its source.            *)
(* Faulty variant of Fits: earlier allocations do not count.               *)
FitsTotal(b, x) == bill[b].status \in Payable /\ x <= bill[b].total

Fits(b, x) == bill[b].status \in Payable /\ x <= bill[b].total - Paid(b)

PayBills(a) ==
    /\ \E b \in Bills : a[b] > 0
    /\ \A b \in Bills : a[b] > 0 => Fits(b, a[b])
    /\ Receive([amount |-> SumTo(a, NumBills), alloc |-> a, lot |-> NoEntries,
                reverses |-> 0])
    /\ bill' = [b \in Bills |->
                  IF a[b] > 0
                  THEN [bill[b] EXCEPT !.status =
                          IF Paid(b) + a[b] >= bill[b].total
                          THEN "PAID" ELSE "PARTIAL_PAID"]
                  ELSE bill[b]]
    /\ UNCHANGED <<applied, restored, closed>>

(* topUpTx: debts first, in queue order, the rest becomes a TOP_UP lot.    *)
TopUp(amount) ==
    /\ made < NumPayments
    /\ LET debt == Debt(bill, PaidNow)
           a    == [b \in Bills |-> Served(debt, b, amount)]
           rest == amount - SumTo(a, NumBills)
       IN  /\ Receive([amount |-> amount, alloc |-> a,
                       lot |-> [NoEntries EXCEPT ![made + 1] = rest],
                       reverses |-> 0])
           /\ bill' = [b \in Bills |->
                         IF a[b] > 0
                         THEN [bill[b] EXCEPT !.status =
                                 StatusFor(bill[b].total, Paid(b) + a[b])]
                         ELSE bill[b]]
    /\ UNCHANGED <<applied, restored, closed>>

(* refundTx: money out, lots emptied first in, first out.                  *)
Refund(amount) ==
    /\ amount <= Balance
    /\ LET rem == [l \in Lots |-> Remaining(l)]
       IN  Receive([amount |-> -amount, alloc |-> NoAllocs,
                    lot |-> [l \in Lots |-> -Served(rem, l, amount)],
                    reverses |-> 0])
    /\ UNCHANGED <<bill, applied, restored, closed>>

(* PaymentService.reverseTx: a payment is reversed once, by a payment that *)
(* negates its amount, its allocations and its TOP_UP lot.                 *)
IsRefund(p) == pay[p].reverses = 0 /\ pay[p].amount < 0

(* Faulty variants of LotIntact (any lot will do) and Mirror (the lot is   *)
(* left standing).                                                         *)
BalanceCovers(p) == TopUpOf(p) <= Balance

(* reverseTopUpsForPaymentTx: only a lot nothing was taken from.           *)
LotIntact(p) == TopUpOf(p) > 0 => Remaining(p) >= TopUpOf(p)

MirrorAllocsOnly(p) ==
    [amount |-> -pay[p].amount,
     alloc |-> [b \in Bills |-> -pay[p].alloc[b]],
     lot |-> NoEntries,
     reverses |-> p]

Mirror(p) ==
    [amount |-> -pay[p].amount,
     alloc |-> [b \in Bills |-> -pay[p].alloc[b]],
     lot |-> [NoEntries EXCEPT ![p] = -TopUpOf(p)],
     reverses |-> p]

ReversePayment(p) ==
    /\ p \in 1 .. made
    /\ pay[p].reverses = 0
    /\ \A q \in Payments : pay[q].reverses # p
    /\ ~ IsRefund(p)
    /\ \A b \in Bills : pay[p].alloc[b] # 0 => bill[b].acct \notin closed
    /\ LotIntact(p)
    /\ Receive(Mirror(p))
    /\ bill' = [b \in Bills |->
                  IF pay[p].alloc[b] # 0 /\ bill[b].status \in Recomputed
                  THEN [bill[b] EXCEPT !.status =
                          StatusAfterReversal(bill[b].total,
                                              Paid(b) - pay[p].alloc[b])]
                  ELSE bill[b]]
    /\ UNCHANGED <<applied, restored, closed>>

(* CloseAccountUseCase: nothing owed either way, no prepayment left.       *)
CloseAccount(a) ==
    /\ a \notin closed
    /\ PortOutstanding = 0
    /\ Balance = 0
    /\ closed' = closed \cup {a}
    /\ UNCHANGED <<bill, made, pay, applied, restored>>
-----------------------------------------------------------------------------
Amounts == 1 .. MaxAmount

BillStep ==
    \E b \in Bills :
        \/ \E t \in 0 .. MaxAmount, a \in Accts : GenerateBill(b, t, a)
        \/ DiscardBill(b)
        \/ PostBill(b)
        \/ \E t \in -MaxAmount .. MaxAmount, a \in Accts : Adjust(b, t, a)
        \/ ReverseBill(b)
        \/ \E c \in Bills, t \in 0 .. MaxAmount : ReplaceBill(b, c, t)

Next ==
    \/ BillStep
    \/ \E pen \in [Bills -> 0 .. MaxPenalty] : AccruePenalty(pen)
    \/ \E a \in [Bills -> 0 .. MaxAmount] : PayBills(a)
    \/ \E amount \in Amounts : TopUp(amount) \/ Refund(amount)
    \/ \E p \in Payments : ReversePayment(p)
    \/ \E a \in Accts : CloseAccount(a)

Spec == Init /\ [][Next]_vars
-----------------------------------------------------------------------------
(* Type invariant of the tables of one settle account.                     *)
TypeOK ==
    /\ bill \in [Bills -> Bill]
    /\ made \in 0 .. NumPayments
    /\ pay \in [Payments -> Payment]
    /\ applied \in [Bills -> [Lots -> Nat]]
    /\ restored \in [Bills -> [Lots -> Nat]]
    /\ closed \in SUBSET Accts

(* What payment row p says by itself: it is the sum of its allocations and *)
(* ledger entries, it only adds to the lot of its own name, and it touches *)
(* other lots only as a refund or a reversal.                              *)
RowSound(row, p) ==
    /\ row.amount = SumTo(row.alloc, NumBills) + SumTo(row.lot, NumPayments)
    /\ 0 <= row.lot[p]
    /\ row.reverses # 0 => row.lot[p] = 0
    /\ \A l \in Lots \ {p} :
          /\ row.lot[l] <= 0
          /\ row.reverses = 0 /\ 0 <= row.amount => row.lot[l] = 0

(* Every row is sound whichever operation wrote it, and nothing is         *)
(* restored to a lot that was not applied from it.                         *)
LedgerRows ==
    /\ \A p \in Payments : RowSound(pay[p], p)
    /\ \A p \in Payments : p > made => pay[p] = NoPayment
    /\ \A b \in Bills, l \in Lots : restored[b][l] <= applied[b][l]

(* No TOP_UP lot is ever overdrawn, nor holds more than was put in,        *)
(* whatever mix of APPLY, restore, refund and payment reversal hit it      *)
(* (lotsTx, lotRemainingTx).                                               *)
LotsSolvent ==
    \A l \in Lots : 0 <= Remaining(l) /\ Remaining(l) <= TopUpOf(l)

(* No sequence of counter payments, top-ups, applies, corrections and      *)
(* reversals leaves a bill with less than nothing or more than its total   *)
(* allocated to it (Sum of payment_alloc per bill).                        *)
NeverOverpaid ==
    \A b \in Bills :
        /\ 0 <= Paid(b)
        /\ bill[b].status \in Recomputed /\ bill[b].total > 0
              => Paid(b) <= bill[b].total

(* The stored status of a bill always says what its allocations say: the   *)
(* services recompute it in four places, two of them with another rule.    *)
StatusTellsPaid ==
    \A b \in Bills :
        LET t == bill[b].total
            p == Paid(b)
        IN  /\ bill[b].status = "POSTED" => p = 0
            /\ bill[b].status = "PARTIAL_PAID" => 0 < p /\ p < t
            /\ bill[b].status = "PAID" => p = t
            /\ bill[b].status \in {"NONE", "DRAFT"} => p = 0

(* Every cent in the drawer is either on a bill or in a lot: the net of    *)
(* all payments is the sum allocated to bills plus the balance.            *)
CashExplained ==
    SumTo([p \in Payments |-> pay[p].amount], NumPayments)
        = SumTo(PaidNow, NumBills) + Balance

(* An account only closes when the customer has paid, in cash and net of   *)
(* refunds, exactly what the standing bills of the settle account charge:  *)
(* the two balances the close reads cannot hide a cent of either side.     *)
CloseIsSquare ==
    [][closed' # closed =>
         SumTo([p \in Payments |-> pay[p].amount], NumPayments)
           = SumTo([b \in Bills |-> IF bill[b].status \in Recomputed \cup {"DRAFT"}
                                    THEN bill[b].total ELSE 0], NumBills)]_vars

(* Whatever payments, reversals of payments, penalties and applied         *)
(* prepayments do to it, an issued bill stands with the charge it was      *)
(* drafted with until a correction reverses it, and never returns.         *)
StageOf(status) == IF status \in {"POSTED", "PARTIAL_PAID", "PAID"} THEN "STANDING" ELSE status
Life == INSTANCE BillLife WITH life <- [b \in Bills |-> StageOf(bill[b].status)],
                               charge <- [b \in Bills |-> bill[b].total - bill[b].penalty]
BillsKeepTheirLife == Life!LifeSpec
=============================================================================
