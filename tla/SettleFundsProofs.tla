-------------------------- MODULE SettleFundsProofs --------------------------
(***************************************************************************)
(* Theorems about SettleFunds, for any number of bills, payments and       *)
(* accounts and any amounts, and about the drawers around it (DayClose),   *)
(* for any cashiers and any number of days.                                *)
(***************************************************************************)
EXTENDS DayClose, SumsProofs, FiniteSetTheorems

(* The tables an operation reads, half-way or not, are of these types.     *)
Payrolls == [Payments -> Payment]
Entries  == [Bills -> [Lots -> Nat]]

LEMMA PaidOfInt ==
  ASSUME NEW py \in Payrolls, NEW ap \in Entries, NEW re \in Entries,
         NEW b \in Bills
  PROVE  PaidOf(py, ap, re, b) \in Int
<1> DEFINE f == [p \in Payments |-> py[p].alloc[b]]
           g == [l \in Lots |-> ap[b][l] - re[b][l]]
<1>1. \A i \in 1 .. NumPayments : f[i] \in Int
  BY DEF Payrolls, Payment, Payments
<1>2. \A i \in 1 .. NumPayments : g[i] \in Int
  <2>1. ap[b] \in [Lots -> Nat] /\ re[b] \in [Lots -> Nat]
    BY DEF Entries
  <2>2. \A l \in Lots : g[l] \in Int
    BY <2>1
  <2> QED BY <2>2 DEF Payments, Lots
<1>3. SumTo(f, NumPayments) \in Int /\ SumTo(g, NumPayments) \in Int
  <2> HIDE DEF f, g
  <2> QED BY <1>1, <1>2, SumInt, BoundsAssumption
<1> QED BY <1>3 DEF PaidOf

LEMMA RemainingOfInt ==
  ASSUME NEW py \in Payrolls, NEW ap \in Entries, NEW re \in Entries,
         NEW l \in Lots
  PROVE  RemainingOf(py, ap, re, l) \in Int
<1> DEFINE f == [p \in Payments |-> py[p].lot[l]]
           g == [b \in Bills |-> ap[b][l] - re[b][l]]
<1>1. \A i \in 1 .. NumPayments : f[i] \in Int
  BY DEF Payrolls, Payment, Payments, Lots
<1>2. \A i \in 1 .. NumBills : g[i] \in Int
  BY DEF Entries, Bills
<1>3. SumTo(f, NumPayments) \in Int /\ SumTo(g, NumBills) \in Int
  <2> HIDE DEF f, g
  <2> QED BY <1>1, <1>2, SumInt, BoundsAssumption
<1> QED BY <1>3 DEF RemainingOf

LEMMA DebtNat ==
  ASSUME NEW bl \in [Bills -> Bill], NEW paid, \A b \in Bills : paid[b] \in Int
  PROVE  Debt(bl, paid) \in [Bills -> Nat]
BY DEF Debt, Bill

LEMMA TakeNat ==
  ASSUME pay \in Payrolls, applied \in Entries,
         NEW bl \in [Bills -> Bill], NEW re \in Entries,
         NEW b \in Bills, NEW l \in Lots
  PROVE  Take(bl, re, b, l) \in Nat
<1> DEFINE paid == [c \in Bills |-> PaidOf(pay, applied, re, c)]
           debt == Debt(bl, paid)
           lots == [k \in Lots |-> RemainingOf(pay, applied, re, k)]
<1>1. \A c \in Bills : paid[c] \in Int
  BY PaidOfInt
<1>2. debt \in [Bills -> Nat]
  <2> HIDE DEF paid
  <2> QED BY <1>1, DebtNat
<1>3. \A k \in Lots : lots[k] \in Int
  BY RemainingOfInt
<1>4. ServedFrom(debt, b, lots, l) \in Nat
  <2> HIDE DEF debt, lots
  <2>1. \A i \in 1 .. NumBills : debt[i] \in Int
    BY <1>2 DEF Bills
  <2>2. \A j \in 1 .. NumPayments : lots[j] \in Int
    BY <1>3 DEF Lots, Payments
  <2>3. b \in 1 .. NumBills /\ l \in 1 .. NumPayments
    BY DEF Bills, Lots, Payments
  <2> QED BY <2>1, <2>2, <2>3, ServedFromNat, BoundsAssumption
<1> QED BY <1>4 DEF Take

(* What applyForPostedDebtTx leaves behind is of the right type, whatever  *)
(* bill table it is run on.                                                *)
LEMMA ApplyTypes ==
  ASSUME TypeOK, NEW bl \in [Bills -> Bill], NEW re \in Entries,
         ApplyForPostedDebt(bl, re)
  PROVE  TypeOK'
<1>1. pay \in Payrolls /\ applied \in Entries
  BY DEF TypeOK, Payrolls, Entries
<1>2. \A b \in Bills, l \in Lots : ApplyKey(bl, re, b, l) \in Nat
  BY <1>1, TakeNat DEF ApplyKey, Entries
<1>3. ASSUME NEW b \in Bills, NEW t
      PROVE  [bl[b] EXCEPT !.status = StatusFor(t, PaidOf(pay, applied', re, b))]
               \in Bill
  BY DEF StatusFor, Bill, Statuses
<1>4. CASE WalkQueue(bl, re)
  <2> DEFINE paid(b) == PaidOf(pay, applied, re, b)
             next(b) == [bl[b] EXCEPT !.status =
                     StatusFor(bl[b].total, PaidOf(pay, applied', re, b))]
  <2>1. applied' \in Entries
    BY <1>2, <1>4 DEF WalkQueue, Entries
  <2>2. bill' = [b \in Bills |-> IF bl[b].status \in Payable /\ bl[b].total > paid(b)
                                 THEN next(b) ELSE bl[b]]
    BY <1>4 DEF WalkQueue
  <2>3. \A b \in Bills : next(b) \in Bill
    BY <1>3
  <2>4. bill' \in [Bills -> Bill]
    <3> HIDE DEF paid, next
    <3> QED BY <2>2, <2>3
  <2> QED BY <2>1, <2>4 DEF TypeOK, ApplyForPostedDebt, Entries
<1>5. CASE bill' = bl /\ UNCHANGED applied
  BY <1>5 DEF TypeOK, ApplyForPostedDebt, Entries
<1> QED BY <1>4, <1>5 DEF ApplyForPostedDebt

LEMMA NoEntriesInt == NoEntries \in [Lots -> Int]
BY DEF NoEntries

LEMMA ReceiveTypes ==
  ASSUME TypeOK, NEW row \in Payment, Receive(row)
  PROVE  /\ made' \in 0 .. NumPayments
         /\ pay' \in [Payments -> Payment]
BY BoundsAssumption DEF TypeOK, Receive, Payments

-----------------------------------------------------------------------------
LEMMA TypesInit == Init => TypeOK
<1> SUFFICES ASSUME Init PROVE TypeOK
  OBVIOUS
<1>1. (CHOOSE a \in Accts : TRUE) \in Accts
  BY BoundsAssumption
<1>2. bill \in [Bills -> Bill]
  BY <1>1 DEF Init, Bill, Statuses
<1>3. pay \in [Payments -> Payment]
  BY BoundsAssumption DEF Init, Payment, NoPayment, NoAllocs, NoEntries
<1>4. applied \in [Bills -> [Lots -> Nat]] /\ restored \in [Bills -> [Lots -> Nat]]
  BY DEF Init, NoEntries
<1> QED BY <1>2, <1>3, <1>4, BoundsAssumption DEF Init, TypeOK

LEMMA TypesStep == TypeOK /\ [Next]_vars => TypeOK'
<1> SUFFICES ASSUME TypeOK, [Next]_vars PROVE TypeOK'
  OBVIOUS
<1>1. ASSUME NEW b \in Bills, NEW t \in 0 .. MaxAmount, NEW a \in Accts,
             GenerateBill(b, t, a)
      PROVE  TypeOK'
  <2>1. NewBill("DRAFT", t, TRUE, a) \in Bill
    BY BoundsAssumption DEF NewBill, Bill, Statuses
  <2> QED BY <1>1, <2>1 DEF GenerateBill, TypeOK
<1>2. ASSUME NEW b \in Bills, DiscardBill(b) PROVE TypeOK'
  <2>1. NewBill("NONE", 0, FALSE, bill[b].acct) \in Bill
    BY DEF NewBill, Bill, Statuses, TypeOK
  <2> QED BY <1>2, <2>1 DEF DiscardBill, TypeOK
<1>3. ASSUME NEW b \in Bills, PostBill(b) PROVE TypeOK'
  <2>1. [bill EXCEPT ![b].status = "POSTED"] \in [Bills -> Bill]
    BY DEF TypeOK, Bill, Statuses
  <2>2. restored \in Entries
    BY DEF TypeOK, Entries
  <2> QED BY <1>3, <2>1, <2>2, ApplyTypes DEF PostBill
<1>4. ASSUME NEW b \in Bills, NEW t \in -MaxAmount .. MaxAmount,
             NEW a \in Accts, Adjust(b, t, a)
      PROVE  TypeOK'
  <2>0. t \in Int
    BY BoundsAssumption
  <2> DEFINE posted == [bill EXCEPT ![b] = NewBill("POSTED", t, FALSE, a)]
  <2>1. posted \in [Bills -> Bill]
    BY <2>0 DEF TypeOK, NewBill, Bill, Statuses
  <2>2. restored \in Entries
    BY DEF TypeOK, Entries
  <2> HIDE DEF posted
  <2>3. CASE t > 0
    <3>1. ApplyForPostedDebt(posted, restored)
      BY <1>4, <2>3 DEF Adjust, posted
    <3> QED BY <2>1, <2>2, <3>1, ApplyTypes
  <2>4. CASE ~ (t > 0)
    <3>1. bill' = posted /\ UNCHANGED <<made, pay, applied, restored, closed>>
      BY <1>4, <2>4 DEF Adjust, posted
    <3> QED BY <2>1, <3>1 DEF TypeOK
  <2> QED BY <2>3, <2>4
<1>5. ASSUME NEW b \in Bills, ReverseBill(b) PROVE TypeOK'
  <2>1. [bill EXCEPT ![b].status = "REVERSED"] \in [Bills -> Bill]
    BY DEF TypeOK, Bill, Statuses
  <2>2. RestoreAll(b) \in [Bills -> [Lots -> Nat]]
    BY DEF TypeOK, RestoreAll
  <2> QED BY <1>5, <2>1, <2>2 DEF ReverseBill, TypeOK
<1>6. ASSUME NEW b \in Bills, NEW c \in Bills, NEW t \in 0 .. MaxAmount,
             ReplaceBill(b, c, t)
      PROVE  TypeOK'
  <2> DEFINE posted == [bill EXCEPT
                   ![b].status = "REVERSED",
                   ![c] = NewBill("POSTED", t, bill[b].due, bill[b].acct)]
  <2>1. posted \in [Bills -> Bill]
    <3>1. [bill EXCEPT ![b].status = "REVERSED"] \in [Bills -> Bill]
      BY DEF TypeOK, Bill, Statuses
    <3>2. NewBill("POSTED", t, bill[b].due, bill[b].acct) \in Bill
      BY BoundsAssumption DEF TypeOK, NewBill, Bill, Statuses
    <3> QED BY <3>1, <3>2
  <2>2. RestoreAll(b) \in Entries
    BY DEF TypeOK, RestoreAll, Entries
  <2> HIDE DEF posted
  <2>3. CASE t > 0
    <3>1. ApplyForPostedDebt(posted, RestoreAll(b))
      BY <1>6, <2>3 DEF ReplaceBill, posted
    <3> QED BY <2>1, <2>2, <3>1, ApplyTypes
  <2>4. CASE ~ (t > 0)
    <3>1. /\ bill' = posted /\ restored' = RestoreAll(b)
          /\ UNCHANGED <<made, pay, applied, closed>>
      BY <1>6, <2>4 DEF ReplaceBill, posted
    <3> QED BY <2>1, <2>2, <3>1 DEF TypeOK, Entries
  <2> QED BY <2>3, <2>4
<1>7. ASSUME NEW pen \in [Bills -> 0 .. MaxPenalty], AccruePenalty(pen)
      PROVE  TypeOK'
  <2>1. \A b \in Bills : Accrue(b, pen[b]) \in Bill
    <3> SUFFICES ASSUME NEW b \in Bills PROVE Accrue(b, pen[b]) \in Bill
      OBVIOUS
    <3>1. pen[b] \in Nat
      BY BoundsAssumption
    <3>2. /\ bill[b] \in Bill /\ bill[b].total \in Int
          /\ bill[b].penalty \in Nat
      BY DEF TypeOK, Bill
    <3> DEFINE t == bill[b].total + pen[b] - bill[b].penalty
    <3>3. Accrue(b, pen[b]) = [bill[b] EXCEPT !.total = t, !.penalty = pen[b]]
      BY <3>2 DEF Accrue, Bill
    <3>4. t \in Int
      BY <3>1, <3>2
    <3> HIDE DEF t
    <3> QED BY <3>1, <3>2, <3>3, <3>4 DEF Bill
  <2>2. bill' = [b \in Bills |-> Accrue(b, pen[b])]
    BY <1>7 DEF AccruePenalty
  <2> QED BY <1>7, <2>1, <2>2 DEF AccruePenalty, TypeOK
<1>8. ASSUME NEW a \in [Bills -> 0 .. MaxAmount], PayBills(a) PROVE TypeOK'
  <2> DEFINE row == [amount |-> SumTo(a, NumBills), alloc |-> a,
                     lot |-> NoEntries, reverses |-> 0]
  <2>1. \A i \in 1 .. NumBills : a[i] \in Int
    BY DEF Bills
  <2>2. SumTo(a, NumBills) \in Int
    BY <2>1, SumInt, BoundsAssumption
  <2>3. row \in Payment
    BY <2>2, BoundsAssumption DEF Payment, NoEntries, Bills
  <2>4. Receive(row)
    BY <1>8 DEF PayBills
  <2>5. made' \in 0 .. NumPayments /\ pay' \in [Payments -> Payment]
    <3> HIDE DEF row
    <3> QED BY <2>3, <2>4, ReceiveTypes
  <2>6. bill' \in [Bills -> Bill]
    <3> DEFINE s(b) == IF Paid(b) + a[b] >= bill[b].total
                       THEN "PAID" ELSE "PARTIAL_PAID"
    <3>1. bill' = [b \in Bills |-> IF a[b] > 0 THEN [bill[b] EXCEPT !.status = s(b)]
                                  ELSE bill[b]]
      BY <1>8 DEF PayBills
    <3>2. \A b \in Bills : s(b) \in Statuses
      BY DEF Statuses
    <3> HIDE DEF s
    <3> QED BY <3>1, <3>2 DEF TypeOK, Bill
  <2> QED BY <1>8, <2>5, <2>6 DEF PayBills, TypeOK
<1>9. ASSUME NEW amount \in Amounts, TopUp(amount) PROVE TypeOK'
  <2> DEFINE debt == Debt(bill, PaidNow)
             a    == [b \in Bills |-> Served(debt, b, amount)]
             rest == amount - SumTo(a, NumBills)
             row  == [amount |-> amount, alloc |-> a,
                      lot |-> [NoEntries EXCEPT ![made + 1] = rest],
                      reverses |-> 0]
  <2>0. amount \in Int
    BY BoundsAssumption DEF Amounts
  <2>1. debt \in [Bills -> Nat]
    <3>1. \A b \in Bills : PaidNow[b] \in Int
      BY PaidOfInt DEF PaidNow, Paid, TypeOK, Payrolls, Entries
    <3>2. bill \in [Bills -> Bill]
      BY DEF TypeOK
    <3> QED BY <3>1, <3>2, DebtNat
  <2>2. a \in [Bills -> Nat]
    <3> HIDE DEF debt
    <3>1. \A i \in 1 .. NumBills : debt[i] \in Int
      BY <2>1 DEF Bills
    <3> QED BY <2>0, <3>1, ServedNat, BoundsAssumption DEF Bills
  <2>3. rest \in Int
    <3> HIDE DEF a
    <3>1. \A i \in 1 .. NumBills : a[i] \in Int
      BY <2>2 DEF Bills
    <3>2. SumTo(a, NumBills) \in Int
      BY <3>1, SumInt, BoundsAssumption
    <3> QED BY <2>0, <3>2
  <2>4. row \in Payment
    <3> HIDE DEF a, rest
    <3>1. a \in [Bills -> Int]
      BY <2>2
    <3>2. [NoEntries EXCEPT ![made + 1] = rest] \in [Lots -> Int]
      BY <2>3, NoEntriesInt
    <3> QED BY <2>0, <3>1, <3>2, BoundsAssumption DEF Payment
  <2>5. Receive(row)
    BY <1>9 DEF TopUp
  <2>6. made' \in 0 .. NumPayments /\ pay' \in [Payments -> Payment]
    <3> HIDE DEF row
    <3> QED BY <2>4, <2>5, ReceiveTypes
  <2>7. bill' \in [Bills -> Bill]
    <3> DEFINE s(b) == StatusFor(bill[b].total, Paid(b) + a[b])
    <3>1. bill' = [b \in Bills |-> IF a[b] > 0 THEN [bill[b] EXCEPT !.status = s(b)]
                                  ELSE bill[b]]
      BY <1>9 DEF TopUp
    <3>2. \A b \in Bills : s(b) \in Statuses
      BY DEF Statuses, StatusFor
    <3> HIDE DEF s, a
    <3> QED BY <3>1, <3>2 DEF TypeOK, Bill
  <2> QED BY <1>9, <2>6, <2>7 DEF TopUp, TypeOK
<1>10. ASSUME NEW amount \in Amounts, Refund(amount) PROVE TypeOK'
  <2> DEFINE rem == [l \in Lots |-> Remaining(l)]
             e   == [l \in Lots |-> -Served(rem, l, amount)]
             row == [amount |-> -amount, alloc |-> NoAllocs, lot |-> e,
                     reverses |-> 0]
  <2>0. amount \in Int
    BY BoundsAssumption DEF Amounts
  <2>1. \A l \in Lots : rem[l] \in Int
    BY RemainingOfInt DEF Remaining, TypeOK, Payrolls, Entries
  <2>2. e \in [Lots -> Int]
    <3> HIDE DEF rem
    <3>1. \A i \in 1 .. NumPayments : rem[i] \in Int
      BY <2>1 DEF Lots, Payments
    <3>2. ASSUME NEW l \in Lots PROVE Served(rem, l, amount) \in Nat
      BY <2>0, <3>1, ServedNat, BoundsAssumption DEF Lots, Payments
    <3> QED BY <3>2
  <2>3. row \in Payment
    <3> HIDE DEF e
    <3> QED BY <2>0, <2>2, BoundsAssumption DEF Payment, NoAllocs
  <2>4. Receive(row)
    BY <1>10 DEF Refund
  <2>5. made' \in 0 .. NumPayments /\ pay' \in [Payments -> Payment]
    <3> HIDE DEF row
    <3> QED BY <2>3, <2>4, ReceiveTypes
  <2> QED BY <1>10, <2>5 DEF Refund, TypeOK
<1>11. ASSUME NEW p \in Payments, ReversePayment(p) PROVE TypeOK'
  <2>1. pay[p] \in Payment
    BY DEF TypeOK
  <2>2. TopUpOf(p) \in Int
    BY <2>1 DEF TopUpOf, Payment, Lots
  <2>3. Mirror(p) \in Payment
    <3>1. -pay[p].amount \in Int
      BY <2>1 DEF Payment
    <3>2. [b \in Bills |-> -pay[p].alloc[b]] \in [Bills -> Int]
      BY <2>1 DEF Payment
    <3> DEFINE out == -TopUpOf(p)
    <3>3. [NoEntries EXCEPT ![p] = out] \in [Lots -> Int]
      <4>1. out \in Int
        BY <2>2
      <4> HIDE DEF out
      <4> QED BY <4>1, NoEntriesInt
    <3>4. p \in 0 .. NumPayments
      BY BoundsAssumption DEF Payments
    <3> QED BY <3>1, <3>2, <3>3, <3>4 DEF Mirror, Payment
  <2>4. made' \in 0 .. NumPayments /\ pay' \in [Payments -> Payment]
    BY <1>11, <2>3, ReceiveTypes DEF ReversePayment
  <2>5. bill' \in [Bills -> Bill]
    <3> DEFINE s(b) == StatusAfterReversal(bill[b].total, Paid(b) - pay[p].alloc[b])
               moves(b) == pay[p].alloc[b] # 0 /\ bill[b].status \in Recomputed
    <3>1. bill' = [b \in Bills |-> IF moves(b) THEN [bill[b] EXCEPT !.status = s(b)]
                                  ELSE bill[b]]
      BY <1>11 DEF ReversePayment
    <3>2. \A b \in Bills : s(b) \in Statuses
      BY DEF Statuses, StatusFor, StatusAfterReversal
    <3> HIDE DEF s, moves
    <3> QED BY <3>1, <3>2 DEF TypeOK, Bill
  <2> QED BY <1>11, <2>4, <2>5 DEF ReversePayment, TypeOK
<1>12. ASSUME NEW a \in Accts, CloseAccount(a) PROVE TypeOK'
  BY <1>12 DEF CloseAccount, TypeOK
<1>13. CASE UNCHANGED vars
  BY <1>13 DEF TypeOK, vars
<1> QED BY <1>1, <1>2, <1>3, <1>4, <1>5, <1>6, <1>7, <1>8, <1>9, <1>10,
           <1>11, <1>12, <1>13 DEF Next, BillStep

(* Every reachable state is of the declared types: whatever is posted,     *)
(* taken, restored, refunded, reversed or accrued, an entry of the ledger  *)
(* is never negative and a penalty line never is.                          *)
THEOREM TypeCorrect == Spec => []TypeOK
BY TypesInit, TypesStep, PTL DEF Spec
-----------------------------------------------------------------------------
(* The ledger.  Solvent is the half of LotsSolvent that an operation could *)
(* break; the other half follows from what each row says by itself.        *)
Solvent   == \A l \in Lots : 0 <= Remaining(l)
LedgerInv == TypeOK /\ LedgerRows /\ Solvent

(* From a state function to the tables and back.                           *)
LEMMA Tables ==
  ASSUME TypeOK
  PROVE  /\ pay \in Payrolls /\ applied \in Entries /\ restored \in Entries
         /\ \A l \in Lots : Remaining(l) \in Int
BY RemainingOfInt DEF TypeOK, Payrolls, Entries, Remaining

LEMMA LotColumnInt ==
  ASSUME NEW py \in Payrolls, NEW l \in Lots
  PROVE  \A p \in 1 .. NumPayments :
           [q \in Payments |-> py[q].lot[l]][p] = py[p].lot[l] /\ py[p].lot[l] \in Int
BY DEF Payrolls, Payment, Payments, Lots

(* A lot holds at most what its top-up put in, because every other row     *)
(* only takes from it.                                                     *)
LEMMA RemainingAtMostTopUp ==
  ASSUME TypeOK, LedgerRows, NEW l \in Lots
  PROVE  Remaining(l) <= TopUpOf(l)
<1> DEFINE f == [p \in Payments |-> pay[p].lot[l]]
           e == [p \in Payments |-> IF p = l THEN pay[l].lot[l] ELSE 0]
           g == [b \in Bills |-> applied[b][l] - restored[b][l]]
<1>0. pay \in Payrolls /\ applied \in Entries /\ restored \in Entries
  BY Tables
<1>1. l \in 1 .. NumPayments /\ pay[l].lot[l] \in Int
  BY <1>0, LotColumnInt DEF Lots, Payments
<1>2. \A p \in 1 .. NumPayments : f[p] \in Int /\ e[p] \in Int /\ f[p] <= e[p]
  BY <1>0, <1>1, LotColumnInt DEF LedgerRows, RowSound, Payments, Lots
<1>3. SumTo(f, NumPayments) <= SumTo(e, NumPayments)
  <2> HIDE DEF f, e
  <2> QED BY <1>2, SumMono, BoundsAssumption
<1>4. SumTo(e, NumPayments) = pay[l].lot[l]
  <2>1. e[l] = pay[l].lot[l] /\ \A p \in 1 .. NumPayments : p # l => e[p] = 0
    BY DEF Payments, Lots
  <2> HIDE DEF e
  <2> QED BY <1>1, <2>1, SumSingle, BoundsAssumption
<1>5. SumTo(g, NumBills) \in Nat
  <2>1. \A b \in 1 .. NumBills : g[b] \in Nat
    BY <1>0 DEF LedgerRows, Bills, Entries
  <2> HIDE DEF g
  <2> QED BY <2>1, SumNonneg, BoundsAssumption
<1>6. SumTo(f, NumPayments) \in Int
  <2> HIDE DEF f
  <2> QED BY <1>2, SumInt, BoundsAssumption
<1>7. Remaining(l) = SumTo(f, NumPayments) - SumTo(g, NumBills)
  BY DEF Remaining, RemainingOf
<1>8. TopUpOf(l) = pay[l].lot[l]
  BY <1>1 DEF TopUpOf, LedgerRows, RowSound, Payments, Lots
<1> HIDE DEF f, e, g
<1> QED BY <1>1, <1>3, <1>4, <1>5, <1>6, <1>7, <1>8

(* A new payment row moves each lot by what it says.                       *)
LEMMA RemainingAfterReceive ==
  ASSUME TypeOK, LedgerRows, NEW row \in Payment, Receive(row),
         UNCHANGED <<applied, restored>>, NEW l \in Lots
  PROVE  Remaining(l)' = Remaining(l) + row.lot[l]
<1> DEFINE f == [p \in Payments |-> pay[p].lot[l]]
           g == [p \in Payments |-> pay'[p].lot[l]]
           out == SumTo([b \in Bills |-> applied[b][l] - restored[b][l]], NumBills)
           k == made + 1
<1>0. pay \in Payrolls /\ pay' \in Payrolls
  BY ReceiveTypes, Tables DEF Payrolls
<1>1. k \in 1 .. NumPayments /\ pay' = [pay EXCEPT ![k] = row] /\ k > made
  BY BoundsAssumption DEF Receive, TypeOK
<1>2. \A p \in 1 .. NumPayments : f[p] \in Int /\ g[p] \in Int
  BY <1>0, LotColumnInt
<1>3. \A p \in 1 .. NumPayments : p # k => g[p] = f[p]
  BY <1>1 DEF Payrolls, TypeOK, Payments
<1>4. f[k] = 0 /\ g[k] = row.lot[l]
  <2>1. pay[k] = NoPayment
    BY <1>1 DEF LedgerRows, Payments
  <2>2. pay'[k] = row
    BY <1>0, <1>1 DEF Payrolls, Payments, TypeOK
  <2> QED BY <1>1, <2>1, <2>2 DEF NoPayment, NoEntries, Payments
<1>5. SumTo(g, NumPayments) = SumTo(f, NumPayments) + g[k] - f[k]
  <2> HIDE DEF f, g, k
  <2> QED BY <1>1, <1>2, <1>3, SumUpdate, BoundsAssumption
<1>6. Remaining(l) = SumTo(f, NumPayments) - out
  BY DEF Remaining, RemainingOf
<1>7. Remaining(l)' = SumTo(g, NumPayments) - out
  BY DEF Remaining, RemainingOf
<1>8. SumTo(f, NumPayments) \in Int /\ row.lot[l] \in Int
  <2>1. row.lot[l] \in Int
    BY DEF Payment
  <2> HIDE DEF f
  <2> QED BY <1>2, <2>1, SumInt, BoundsAssumption
<1>9. out \in Int
  <2>1. Remaining(l) \in Int
    BY Tables
  <2> DEFINE h == [b \in Bills |-> applied[b][l] - restored[b][l]]
  <2>2. \A b \in 1 .. NumBills : h[b] \in Int
    BY DEF TypeOK, Bills
  <2>3. SumTo(h, NumBills) \in Int
    <3> HIDE DEF h
    <3> QED BY <2>2, SumInt, BoundsAssumption
  <2> QED BY <2>3
<1> HIDE DEF f, g, out
<1> QED BY <1>4, <1>5, <1>6, <1>7, <1>8, <1>9

(* The REVERSAL entries re of an operation: more than were there, none     *)
(* beyond its APPLY.                                                       *)
Restores(re) ==
    /\ re \in Entries
    /\ \A b \in Bills, l \in Lots :
         restored[b][l] <= re[b][l] /\ re[b][l] <= applied[b][l]

LEMMA RestoringFillsLots ==
  ASSUME TypeOK, NEW re, Restores(re), NEW l \in Lots
  PROVE  Remaining(l) <= RemainingOf(pay, applied, re, l)
<1> DEFINE g == [b \in Bills |-> applied[b][l] - restored[b][l]]
           h == [b \in Bills |-> applied[b][l] - re[b][l]]
           in == SumTo([p \in Payments |-> pay[p].lot[l]], NumPayments)
<1>0. pay \in Payrolls /\ applied \in Entries /\ restored \in Entries /\ re \in Entries
  BY Tables DEF Restores
<1>1. \A b \in 1 .. NumBills : h[b] \in Int /\ g[b] \in Int /\ h[b] <= g[b]
  BY <1>0 DEF Restores, Bills, Entries
<1>2. SumTo(h, NumBills) <= SumTo(g, NumBills)
  <2> HIDE DEF h, g
  <2> QED BY <1>1, SumMono, BoundsAssumption
<1>3. SumTo(h, NumBills) \in Int /\ SumTo(g, NumBills) \in Int
  <2> HIDE DEF h, g
  <2> QED BY <1>1, SumInt, BoundsAssumption
<1>4. in \in Int
  <2> DEFINE f == [p \in Payments |-> pay[p].lot[l]]
  <2>1. \A p \in 1 .. NumPayments : f[p] \in Int
    BY <1>0, LotColumnInt
  <2>2. SumTo(f, NumPayments) \in Int
    <3> HIDE DEF f
    <3> QED BY <2>1, SumInt, BoundsAssumption
  <2> QED BY <2>2
<1>5. /\ Remaining(l) = in - SumTo(g, NumBills)
      /\ RemainingOf(pay, applied, re, l) = in - SumTo(h, NumBills)
  BY DEF Remaining, RemainingOf
<1> HIDE DEF g, h, in
<1> QED BY <1>2, <1>3, <1>4, <1>5

(* Applying takes from a lot no more than it has left: an entry whose key  *)
(* exists is not written again, and the rest is the walk's own take.       *)
LEMMA ApplyKeepsLotsSolvent ==
  ASSUME TypeOK, LedgerRows, Solvent,
         NEW bl \in [Bills -> Bill], NEW re, Restores(re),
         ApplyForPostedDebt(bl, re), WalkQueue(bl, re)
  PROVE  /\ Solvent'
         /\ \A b \in Bills, l \in Lots : restored'[b][l] <= applied'[b][l]
<1>0. /\ pay \in Payrolls /\ applied \in Entries /\ re \in Entries
      /\ TypeOK' /\ applied' \in Entries
  BY Tables, ApplyTypes DEF Restores, TypeOK, Entries
<1> DEFINE paid == [c \in Bills |-> PaidOf(pay, applied, re, c)]
           debt == Debt(bl, paid)
           lots == [k \in Lots |-> RemainingOf(pay, applied, re, k)]
<1>1. \A b \in 1 .. NumBills : debt[b] \in Nat
  <2>1. \A c \in Bills : paid[c] \in Int
    BY <1>0, PaidOfInt
  <2>2. debt \in [Bills -> Nat]
    <3> HIDE DEF paid
    <3> QED BY <2>1, DebtNat
  <2> QED BY <2>2 DEF Bills
<1>2. \A l \in 1 .. NumPayments : lots[l] \in Nat
  <2> SUFFICES ASSUME NEW l \in Lots PROVE lots[l] \in Nat
    BY DEF Lots, Payments
  <2>1. RemainingOf(pay, applied, re, l) \in Int /\ Remaining(l) \in Int
    BY <1>0, RemainingOfInt, Tables
  <2>2. 0 <= Remaining(l) /\ Remaining(l) <= RemainingOf(pay, applied, re, l)
    BY RestoringFillsLots DEF Solvent
  <2> QED BY <2>1, <2>2
<1>3. \A b \in Bills, l \in Lots :
         /\ applied'[b][l] = IF applied[b][l] = 0 THEN ServedFrom(debt, b, lots, l)
                             ELSE applied[b][l]
         /\ ServedFrom(debt, b, lots, l) \in Nat
  BY <1>0, TakeNat DEF WalkQueue, ApplyKey, Take
<1>4. \A b \in Bills, l \in Lots : applied[b][l] <= applied'[b][l]
  <2> HIDE DEF debt, lots
  <2> QED BY <1>0, <1>3 DEF Entries
<1>5. \A b \in Bills, l \in Lots : restored'[b][l] <= applied'[b][l]
  BY <1>0, <1>4 DEF Restores, ApplyForPostedDebt, Entries
<1>6. ASSUME NEW l \in Lots PROVE 0 <= Remaining(l)'
  <2> DEFINE in  == SumTo([p \in Payments |-> pay[p].lot[l]], NumPayments)
             h   == [b \in Bills |-> applied[b][l] - re[b][l]]
             k   == [b \in Bills |-> applied'[b][l] - re[b][l]]
             inc == [b \in Bills |-> applied'[b][l] - applied[b][l]]
             t   == [b \in Bills |-> ServedFrom(debt, b, lots, l)]
  <2>1. \A b \in 1 .. NumBills :
           /\ h[b] \in Int /\ k[b] \in Int /\ inc[b] \in Int
           /\ k[b] = h[b] + inc[b]
    <3> SUFFICES ASSUME NEW b \in Bills
                 PROVE  /\ h[b] \in Int /\ k[b] \in Int /\ inc[b] \in Int
                        /\ k[b] = h[b] + inc[b]
      BY DEF Bills
    <3>1. applied[b][l] \in Int /\ applied'[b][l] \in Int /\ re[b][l] \in Int
      BY <1>0 DEF Entries
    <3> QED BY <3>1
  <2>2. \A b \in 1 .. NumBills :
           t[b] \in Int /\ inc[b] <= t[b] /\ t[b] = ServedFrom(debt, b, lots, l)
    <3> HIDE DEF debt, lots
    <3> QED BY <1>0, <1>3 DEF Bills, Entries
  <2>3. SumTo(k, NumBills) = SumTo(h, NumBills) + SumTo(inc, NumBills)
    <3> HIDE DEF k, h, inc
    <3> QED BY <2>1, SumPlus, BoundsAssumption
  <2>4. SumTo(inc, NumBills) <= SumTo(t, NumBills)
    <3> HIDE DEF inc, t
    <3> QED BY <2>1, <2>2, SumMono, BoundsAssumption
  <2>5. SumTo(t, NumBills) <= lots[l]
    <3>1. l \in 1 .. NumPayments
      BY DEF Lots, Payments
    <3> HIDE DEF debt, lots, t
    <3> QED BY <3>1, <1>1, <1>2, <2>2, ServedFromColumn, BoundsAssumption
  <2>6. /\ SumTo(h, NumBills) \in Int /\ SumTo(inc, NumBills) \in Int
        /\ SumTo(t, NumBills) \in Int
    <3> HIDE DEF h, inc, t
    <3> QED BY <2>1, <2>2, SumInt, BoundsAssumption
  <2>7. lots[l] = in - SumTo(h, NumBills)
    BY DEF RemainingOf
  <2>8. Remaining(l)' = in - SumTo(k, NumBills)
    BY DEF Remaining, RemainingOf, ApplyForPostedDebt
  <2>9. in \in Int
    <3> DEFINE f == [p \in Payments |-> pay[p].lot[l]]
    <3>1. \A p \in 1 .. NumPayments : f[p] \in Int
      BY <1>0, LotColumnInt
    <3>2. SumTo(f, NumPayments) \in Int
      <4> HIDE DEF f
      <4> QED BY <3>1, SumInt, BoundsAssumption
    <3> QED BY <3>2
  <2>10. lots[l] \in Int
    BY <1>2 DEF Lots, Payments
  <2> HIDE DEF in, h, k, inc, t, lots, debt
  <2> QED BY <2>3, <2>4, <2>5, <2>6, <2>7, <2>8, <2>9, <2>10
<1> QED BY <1>5, <1>6 DEF Solvent

LEMMA ReceivedRow ==
  ASSUME TypeOK, TypeOK', NEW row, Receive(row)
  PROVE  /\ row \in Payment /\ made + 1 \in 1 .. NumPayments /\ made + 1 \in Payments
         /\ made' = made + 1
         /\ \A p \in Payments : pay'[p] = IF p = made + 1 THEN row ELSE pay[p]
<1>1. made + 1 \in 1 .. NumPayments /\ made' = made + 1
  BY BoundsAssumption DEF Receive, TypeOK
<1>2. \A p \in Payments : pay'[p] = IF p = made + 1 THEN row ELSE pay[p]
  BY DEF Receive, TypeOK
<1>3. pay'[made + 1] \in Payment
  BY <1>1 DEF TypeOK, Payments
<1> QED BY <1>1, <1>2, <1>3 DEF Payments

(* A new payment keeps the ledger if its row is sound and no lot has to    *)
(* give more than it has left.                                             *)
LEMMA ReceiveKeepsLedger ==
  ASSUME LedgerInv, TypeOK', NEW row, Receive(row),
         UNCHANGED <<applied, restored>>,
         RowSound(row, made + 1),
         \A l \in Lots : 0 <= Remaining(l) + row.lot[l]
  PROVE  LedgerInv'
<1>0. TypeOK /\ LedgerRows /\ Solvent
  BY DEF LedgerInv
<1>1. /\ row \in Payment /\ made' = made + 1 /\ made \in Int
      /\ \A p \in Payments : pay'[p] = IF p = made + 1 THEN row ELSE pay[p]
  BY <1>0, ReceivedRow DEF TypeOK
<1>2. \A l \in Lots : Remaining(l)' = Remaining(l) + row.lot[l]
  BY <1>0, <1>1, RemainingAfterReceive
<1>3. Solvent'
  BY <1>2 DEF Solvent
<1>4. \A p \in Payments : RowSound(pay[p], p)'
  <2>1. \A p \in Payments : p # made + 1 => RowSound(pay'[p], p)
    BY <1>0, <1>1 DEF LedgerRows
  <2>2. \A p \in Payments : p = made + 1 => RowSound(pay'[p], p)
    BY <1>1
  <2> QED BY <2>1, <2>2 DEF RowSound
<1>5. \A p \in Payments : p > made' => pay'[p] = NoPayment
  BY <1>0, <1>1 DEF LedgerRows, Payments
<1>6. \A b \in Bills, l \in Lots : restored'[b][l] <= applied'[b][l]
  BY <1>0 DEF LedgerRows
<1> QED BY <1>3, <1>4, <1>5, <1>6 DEF LedgerInv, LedgerRows

LEMMA NoEntriesSum == SumTo(NoEntries, NumPayments) = 0
<1>1. \A l \in 1 .. NumPayments : NoEntries[l] = 0
  BY DEF NoEntries, Lots, Payments
<1> QED BY <1>1, SumZeros, BoundsAssumption

LEMMA OneEntrySum ==
  ASSUME NEW k \in Lots, NEW x \in Int
  PROVE  SumTo([NoEntries EXCEPT ![k] = x], NumPayments) = x
<1> DEFINE e == [NoEntries EXCEPT ![k] = x]
<1>1. /\ k \in 1 .. NumPayments /\ e[k] = x
      /\ \A l \in 1 .. NumPayments : l # k => e[l] = 0
  BY DEF NoEntries, Lots, Payments
<1> HIDE DEF e
<1>2. SumTo(e, NumPayments) = e[k]
  BY <1>1, SumSingle, BoundsAssumption
<1> QED BY <1>1, <1>2 DEF e

LEMMA PayBillsKeepsLedger ==
  ASSUME LedgerInv, TypeOK', NEW a \in [Bills -> 0 .. MaxAmount], PayBills(a)
  PROVE  LedgerInv'
<1> DEFINE row == [amount |-> SumTo(a, NumBills), alloc |-> a,
                   lot |-> NoEntries, reverses |-> 0]
<1>1. Receive(row) /\ UNCHANGED <<applied, restored>>
  BY DEF PayBills
<1>2. SumTo(a, NumBills) \in Int
  <2>1. \A i \in 1 .. NumBills : a[i] \in Int
    BY DEF Bills
  <2> QED BY <2>1, SumInt, BoundsAssumption
<1>3. RowSound(row, made + 1)
  <2>1. made + 1 \in Lots
    BY <1>1, BoundsAssumption DEF Receive, LedgerInv, TypeOK, Lots, Payments
  <2> QED BY <1>2, <2>1, NoEntriesSum DEF RowSound, NoEntries
<1>4. \A l \in Lots : 0 <= Remaining(l) + row.lot[l]
  BY Tables DEF LedgerInv, Solvent, NoEntries
<1> HIDE DEF row
<1> QED BY <1>1, <1>3, <1>4, ReceiveKeepsLedger

LEMMA TopUpKeepsLedger ==
  ASSUME LedgerInv, TypeOK', NEW amount \in Amounts, TopUp(amount)
  PROVE  LedgerInv'
<1> DEFINE debt == Debt(bill, PaidNow)
           a    == [b \in Bills |-> Served(debt, b, amount)]
           rest == amount - SumTo(a, NumBills)
           row  == [amount |-> amount, alloc |-> a,
                    lot |-> [NoEntries EXCEPT ![made + 1] = rest],
                    reverses |-> 0]
<1>0. amount \in Nat /\ TypeOK
  BY BoundsAssumption DEF Amounts, LedgerInv
<1>1. Receive(row) /\ UNCHANGED <<applied, restored>>
  BY DEF TopUp
<1>2. SumTo(a, NumBills) \in Int /\ SumTo(a, NumBills) <= amount
  <2>1. debt \in [Bills -> Nat]
    <3>1. \A b \in Bills : PaidNow[b] \in Int
      BY <1>0, PaidOfInt, Tables DEF PaidNow, Paid
    <3>2. bill \in [Bills -> Bill]
      BY <1>0 DEF TypeOK
    <3> QED BY <3>1, <3>2, DebtNat
  <2>2. \A i \in 1 .. NumBills : debt[i] \in Nat
    BY <2>1 DEF Bills
  <2>3. \A i \in 1 .. NumBills : a[i] = Served(debt, i, amount)
    BY DEF Bills
  <2> HIDE DEF debt, a
  <2>4. SumTo(a, NumBills) = IF amount < SumTo(debt, NumBills) THEN amount
                             ELSE SumTo(debt, NumBills)
    BY <1>0, <2>2, <2>3, ServedTotal, BoundsAssumption
  <2>5. SumTo(debt, NumBills) \in Nat
    BY <2>2, SumNonneg, BoundsAssumption
  <2> QED BY <1>0, <2>4, <2>5
<1>3. rest \in Nat
  <2> HIDE DEF a
  <2> QED BY <1>0, <1>2
<1>4. made + 1 \in Lots
  BY <1>0, <1>1, BoundsAssumption DEF Receive, TypeOK, Lots, Payments
<1>5. SumTo(row.lot, NumPayments) = rest
  <2> HIDE DEF rest
  <2> QED BY <1>3, <1>4, OneEntrySum
<1>6. \A l \in Lots : row.lot[l] = IF l = made + 1 THEN rest ELSE 0
  <2> HIDE DEF rest, a
  <2> QED BY DEF NoEntries
<1>7. row.amount = amount /\ row.alloc = a /\ row.reverses = 0
  OBVIOUS
<1> DEFINE total == SumTo(a, NumBills)
<1>8. rest = amount - total /\ total \in Int /\ total = SumTo(row.alloc, NumBills)
  BY <1>2, <1>7
<1> HIDE DEF row, rest, a, total
<1>9. RowSound(row, made + 1)
  BY <1>0, <1>3, <1>4, <1>5, <1>6, <1>7, <1>8 DEF RowSound
<1>10. \A l \in Lots : 0 <= Remaining(l) + row.lot[l]
  BY <1>0, <1>3, <1>6, Tables DEF LedgerInv, Solvent
<1> QED BY <1>1, <1>9, <1>10, ReceiveKeepsLedger

LEMMA RefundKeepsLedger ==
  ASSUME LedgerInv, TypeOK', NEW amount \in Amounts, Refund(amount)
  PROVE  LedgerInv'
<1> DEFINE rem == [l \in Lots |-> Remaining(l)]
           s   == [l \in Lots |-> Served(rem, l, amount)]
           out == [l \in Lots |-> -Served(rem, l, amount)]
           row == [amount |-> -amount, alloc |-> NoAllocs, lot |-> out,
                   reverses |-> 0]
<1>0. amount \in Nat /\ amount > 0 /\ TypeOK /\ LedgerRows
  BY BoundsAssumption DEF Amounts, LedgerInv
<1>1. Receive(row) /\ UNCHANGED <<applied, restored>> /\ amount <= Balance
  BY DEF Refund
<1>2. \A l \in 1 .. NumPayments : rem[l] \in Nat /\ rem[l] = Remaining(l)
  BY <1>0, Tables DEF LedgerInv, Solvent, Lots, Payments
<1>3. \A l \in 1 .. NumPayments :
         /\ s[l] \in Nat /\ s[l] <= Remaining(l)
         /\ out[l] = -s[l] /\ out[l] \in Int
  <2> HIDE DEF rem
  <2> QED BY <1>0, <1>2, ServedBounds, BoundsAssumption DEF Lots, Payments
<1>4. \A l \in 1 .. NumPayments : s[l] = Served(rem, l, amount)
  BY DEF Lots, Payments
<1>5. Balance = SumTo(rem, NumPayments)
  BY DEF Balance, BalanceOf, Remaining
<1>6. SumTo(s, NumPayments) = amount
  <2>1. SumTo(s, NumPayments) = IF amount < SumTo(rem, NumPayments) THEN amount
                                ELSE SumTo(rem, NumPayments)
    <3> HIDE DEF rem, s, out, row
    <3>1. \A l \in 1 .. NumPayments : rem[l] \in Nat
      BY <1>2
    <3> QED BY <1>0, <1>4, <3>1, ServedTotal, BoundsAssumption
  <2>2. SumTo(rem, NumPayments) \in Nat
    <3> HIDE DEF rem
    <3> QED BY <1>2, SumNonneg, BoundsAssumption
  <2> HIDE DEF rem, s
  <2> QED BY <1>0, <1>1, <1>5, <2>1, <2>2
<1>7. SumTo(out, NumPayments) = -amount
  <2> HIDE DEF out, s, rem, row
  <2> QED BY <1>3, <1>6, SumNegate, BoundsAssumption
<1>8. SumTo(NoAllocs, NumBills) = 0
  <2>1. \A b \in 1 .. NumBills : NoAllocs[b] = 0
    BY DEF NoAllocs, Bills
  <2> QED BY <2>1, SumZeros, BoundsAssumption
<1>9. made + 1 \in Lots /\ s[made + 1] = 0
  <2>1. made + 1 \in Lots /\ made + 1 > made
    BY <1>0, <1>1, BoundsAssumption DEF Receive, TypeOK, Lots, Payments
  <2>2. pay[made + 1] = NoPayment
    BY <1>0, <2>1 DEF LedgerRows, Lots
  <2>3. TopUpOf(made + 1) = 0
    BY <2>1, <2>2 DEF TopUpOf, NoPayment, NoEntries
  <2>4. Remaining(made + 1) <= 0 /\ Remaining(made + 1) \in Int
    BY <1>0, <2>1, <2>3, RemainingAtMostTopUp, Tables
  <2> HIDE DEF s, out, row, rem
  <2>5. s[made + 1] \in Nat /\ s[made + 1] <= Remaining(made + 1)
    BY <1>3, <2>1 DEF Lots, Payments
  <2> QED BY <2>1, <2>4, <2>5
<1>10. row.amount = -amount /\ row.alloc = NoAllocs /\ row.lot = out /\ row.reverses = 0
  OBVIOUS
<1> HIDE DEF row, out, s, rem
<1>11. RowSound(row, made + 1)
  <2>1. row.amount = SumTo(row.alloc, NumBills) + SumTo(row.lot, NumPayments)
    BY <1>0, <1>7, <1>8, <1>10
  <2>2. \A l \in Lots : row.lot[l] = -s[l] /\ s[l] \in Nat
    BY <1>3, <1>10 DEF Lots, Payments
  <2>3. ~ (0 <= row.amount)
    BY <1>0, <1>10
  <2> QED BY <1>9, <1>10, <2>1, <2>2, <2>3 DEF RowSound
<1>12. \A l \in Lots : 0 <= Remaining(l) + row.lot[l]
  <2> SUFFICES ASSUME NEW l \in Lots PROVE 0 <= Remaining(l) + row.lot[l]
    OBVIOUS
  <2>1. Remaining(l) \in Int /\ s[l] \in Nat /\ s[l] <= Remaining(l) /\ row.lot[l] = -s[l]
    BY <1>0, <1>3, <1>10, Tables DEF Lots, Payments
  <2> QED BY <2>1
<1> QED BY <1>1, <1>11, <1>12, ReceiveKeepsLedger

LEMMA ReversePaymentKeepsLedger ==
  ASSUME LedgerInv, TypeOK', NEW p \in Payments, ReversePayment(p)
  PROVE  LedgerInv'
<1> DEFINE row  == Mirror(p)
           put  == TopUpOf(p)
           none == [b \in Bills |-> -pay[p].alloc[b]]
           out  == -put
<1>0. TypeOK /\ LedgerRows /\ pay[p] \in Payment /\ p \in 1 .. NumPayments
  BY DEF LedgerInv, TypeOK, Payments
<1>1. Receive(row) /\ UNCHANGED <<applied, restored>> /\ p \in 1 .. made
  BY DEF ReversePayment
<1>2. /\ made + 1 \in Lots /\ p \in Lots /\ p # made + 1 /\ p # 0
  BY <1>0, <1>1, BoundsAssumption DEF Receive, TypeOK, Lots, Payments
<1>3. /\ pay[p].reverses = 0 /\ 0 <= pay[p].amount /\ pay[p].amount \in Int
      /\ put = pay[p].lot[p] /\ put \in Nat
  <2>1. pay[p].reverses = 0 /\ ~ (pay[p].amount < 0)
    BY DEF ReversePayment, IsRefund
  <2>2. pay[p].lot[p] \in Int /\ 0 <= pay[p].lot[p] /\ pay[p].amount \in Int
    BY <1>0, <1>2 DEF LedgerRows, RowSound, Payment
  <2> QED BY <2>1, <2>2 DEF TopUpOf
<1>4. SumTo(pay[p].lot, NumPayments) = put
  <2>1. \A l \in 1 .. NumPayments : l # p => pay[p].lot[l] = 0
    BY <1>0, <1>3 DEF LedgerRows, RowSound, Lots, Payments
  <2> HIDE DEF put
  <2> QED BY <1>0, <1>3, <2>1, SumSingle, BoundsAssumption
<1>5. /\ SumTo(none, NumBills) = -SumTo(pay[p].alloc, NumBills)
      /\ SumTo(pay[p].alloc, NumBills) \in Int
  <2>1. \A b \in 1 .. NumBills :
           pay[p].alloc[b] \in Int /\ none[b] = -pay[p].alloc[b]
    BY <1>0 DEF Payment, Bills
  <2> HIDE DEF none
  <2> QED BY <2>1, SumNegate, SumInt, BoundsAssumption
<1>6. pay[p].amount = SumTo(pay[p].alloc, NumBills) + put
  BY <1>0, <1>4 DEF LedgerRows, RowSound
<1>7. /\ row.amount = -pay[p].amount /\ row.alloc = none /\ row.reverses = p
      /\ row.lot = [NoEntries EXCEPT ![p] = out]
  BY DEF Mirror
<1>8. out = -put /\ out \in Int
  <2> HIDE DEF put
  <2> QED BY <1>3
<1>9. SumTo(row.lot, NumPayments) = out
  <2> HIDE DEF out, row
  <2> QED BY <1>2, <1>7, <1>8, OneEntrySum
<1>10. \A l \in Lots : row.lot[l] = IF l = p THEN out ELSE 0
  <2> HIDE DEF out, row
  <2> QED BY <1>7 DEF NoEntries
<1>11. put > 0 => put <= Remaining(p)
  BY <1>0, <1>2, Tables DEF ReversePayment, LotIntact
<1> HIDE DEF row, put, out, none
<1>12. RowSound(row, made + 1)
  <2>1. row.amount = SumTo(row.alloc, NumBills) + SumTo(row.lot, NumPayments)
    BY <1>3, <1>5, <1>6, <1>7, <1>8, <1>9
  <2>2. \A l \in Lots : row.lot[l] <= 0
    BY <1>3, <1>8, <1>10
  <2> QED BY <1>2, <1>7, <1>10, <2>1, <2>2 DEF RowSound
<1>13. \A l \in Lots : 0 <= Remaining(l) + row.lot[l]
  <2> SUFFICES ASSUME NEW l \in Lots PROVE 0 <= Remaining(l) + row.lot[l]
    OBVIOUS
  <2>1. Remaining(l) \in Int /\ 0 <= Remaining(l)
    BY <1>0, Tables DEF LedgerInv, Solvent
  <2> QED BY <2>1, <1>3, <1>8, <1>10, <1>11
<1> QED BY <1>1, <1>12, <1>13, ReceiveKeepsLedger

LEMMA RestoringKeepsLedger ==
  ASSUME LedgerInv, TypeOK', NEW re, Restores(re), restored' = re,
         UNCHANGED <<made, pay, applied>>
  PROVE  LedgerInv'
<1>1. Solvent'
  <2> SUFFICES ASSUME NEW l \in Lots PROVE 0 <= Remaining(l)'
    BY DEF Solvent
  <2>1. Remaining(l)' = RemainingOf(pay, applied, re, l)
    BY DEF Remaining, RemainingOf
  <2>2. Remaining(l) \in Int /\ RemainingOf(pay, applied, re, l) \in Int
    BY Tables, RemainingOfInt DEF LedgerInv, Restores
  <2>3. 0 <= Remaining(l) /\ Remaining(l) <= RemainingOf(pay, applied, re, l)
    BY RestoringFillsLots DEF LedgerInv, Solvent
  <2> QED BY <2>1, <2>2, <2>3
<1> QED BY <1>1 DEF LedgerInv, LedgerRows, RowSound, Restores

LEMMA ApplyKeepsLedger ==
  ASSUME LedgerInv, TypeOK', NEW bl \in [Bills -> Bill], NEW re, Restores(re),
         ApplyForPostedDebt(bl, re)
  PROVE  LedgerInv'
<1>0. restored' = re /\ UNCHANGED <<pay, made>>
  BY DEF ApplyForPostedDebt
<1>1. CASE WalkQueue(bl, re)
  <2>1. /\ Solvent'
        /\ \A b \in Bills, l \in Lots : restored'[b][l] <= applied'[b][l]
    BY <1>1, ApplyKeepsLotsSolvent DEF LedgerInv
  <2> QED BY <1>0, <2>1 DEF LedgerInv, LedgerRows, RowSound
<1>2. CASE UNCHANGED applied
  BY <1>0, <1>2, RestoringKeepsLedger
<1> QED BY <1>1, <1>2 DEF ApplyForPostedDebt

LEMMA RestoreAllRestores ==
  ASSUME LedgerInv, NEW b \in Bills
  PROVE  Restores(RestoreAll(b)) /\ Restores(restored)
<1>1. applied \in Entries /\ restored \in Entries
  BY DEF LedgerInv, TypeOK, Entries
<1>2. \A c \in Bills, l \in Lots :
         applied[c][l] \in Nat /\ restored[c][l] \in Nat
         /\ restored[c][l] <= applied[c][l]
  BY <1>1 DEF LedgerInv, LedgerRows, Entries
<1>3. RestoreAll(b) \in Entries
  BY <1>1 DEF RestoreAll, Entries
<1>4. \A c \in Bills, l \in Lots :
         RestoreAll(b)[c][l] = IF c = b THEN applied[c][l] ELSE restored[c][l]
  BY <1>1 DEF RestoreAll, Entries
<1> QED BY <1>1, <1>2, <1>3, <1>4 DEF Restores

LEMMA UntouchedLedger ==
  ASSUME LedgerInv, TypeOK', UNCHANGED <<made, pay, applied, restored>>
  PROVE  LedgerInv'
BY DEF LedgerInv, LedgerRows, RowSound, Solvent, Remaining, RemainingOf

LEMMA LedgerInit == Init => LedgerInv
<1> SUFFICES ASSUME Init PROVE LedgerInv
  OBVIOUS
<1>1. TypeOK
  BY TypesInit
<1>2. \A p \in Payments : pay[p] = NoPayment
  BY DEF Init
<1>3. \A p \in Payments : RowSound(pay[p], p)
  <2>1. SumTo(NoAllocs, NumBills) = 0
    <3>1. \A b \in 1 .. NumBills : NoAllocs[b] = 0
      BY DEF NoAllocs, Bills
    <3> QED BY <3>1, SumZeros, BoundsAssumption
  <2>2. \A l \in Lots : NoEntries[l] = 0
    BY DEF NoEntries
  <2> QED BY <1>2, <2>1, <2>2, NoEntriesSum DEF RowSound, NoPayment, Lots
<1>4. \A b \in Bills, l \in Lots : restored[b][l] = 0 /\ applied[b][l] = 0
  BY DEF Init, NoEntries
<1>5. Solvent
  <2> SUFFICES ASSUME NEW l \in Lots PROVE Remaining(l) = 0
    BY DEF Solvent
  <2> DEFINE f == [p \in Payments |-> pay[p].lot[l]]
             g == [b \in Bills |-> applied[b][l] - restored[b][l]]
  <2>1. \A p \in 1 .. NumPayments : f[p] = 0
    BY <1>2 DEF Payments, NoPayment, NoEntries
  <2>2. \A b \in 1 .. NumBills : g[b] = 0
    BY <1>4 DEF Bills
  <2>3. SumTo(f, NumPayments) = 0 /\ SumTo(g, NumBills) = 0
    <3> HIDE DEF f, g
    <3> QED BY <2>1, <2>2, SumZeros, BoundsAssumption
  <2>4. Remaining(l) = SumTo(f, NumPayments) - SumTo(g, NumBills)
    BY DEF Remaining, RemainingOf
  <2> HIDE DEF f, g
  <2> QED BY <2>3, <2>4
<1> QED BY <1>1, <1>2, <1>3, <1>4, <1>5 DEF LedgerInv, LedgerRows

(* The bill tables the applying operations are run on are bill tables.     *)
LEMMA NewBillInTable ==
  ASSUME NEW bl \in [Bills -> Bill], NEW b \in Bills, NEW t \in Int,
         NEW d \in BOOLEAN, NEW a \in Accts, NEW s \in Statuses
  PROVE  [bl EXCEPT ![b] = NewBill(s, t, d, a)] \in [Bills -> Bill]
BY DEF NewBill, Bill

LEMMA LedgerStep == LedgerInv /\ [Next]_vars => LedgerInv'
<1> SUFFICES ASSUME LedgerInv, [Next]_vars PROVE LedgerInv'
  OBVIOUS
<1>0. TypeOK /\ TypeOK' /\ bill \in [Bills -> Bill]
  BY TypesStep DEF LedgerInv, TypeOK
<1>1. ASSUME NEW b \in Bills, PostBill(b) PROVE LedgerInv'
  <2>1. [bill EXCEPT ![b].status = "POSTED"] \in [Bills -> Bill]
    BY <1>0 DEF Bill, Statuses
  <2> QED BY <1>0, <1>1, <2>1, RestoreAllRestores, ApplyKeepsLedger DEF PostBill
<1>2. ASSUME NEW b \in Bills, NEW t \in -MaxAmount .. MaxAmount, NEW a \in Accts,
             Adjust(b, t, a)
      PROVE  LedgerInv'
  <2> DEFINE posted == [bill EXCEPT ![b] = NewBill("POSTED", t, FALSE, a)]
  <2>1. posted \in [Bills -> Bill]
    <3>1. t \in Int /\ "POSTED" \in Statuses
      BY BoundsAssumption DEF Statuses
    <3> QED BY <1>0, <3>1, NewBillInTable
  <2>2. \/ ApplyForPostedDebt(posted, restored)
        \/ UNCHANGED <<made, pay, applied, restored>>
    BY <1>2 DEF Adjust
  <2> HIDE DEF posted
  <2> QED BY <1>0, <2>1, <2>2, RestoreAllRestores, ApplyKeepsLedger, UntouchedLedger
<1>3. ASSUME NEW b \in Bills, ReverseBill(b) PROVE LedgerInv'
  BY <1>0, <1>3, RestoreAllRestores, RestoringKeepsLedger DEF ReverseBill
<1>4. ASSUME NEW b \in Bills, NEW c \in Bills, NEW t \in 0 .. MaxAmount,
             ReplaceBill(b, c, t)
      PROVE  LedgerInv'
  <2> DEFINE old    == [bill EXCEPT ![b].status = "REVERSED"]
             posted == [bill EXCEPT
                   ![b].status = "REVERSED",
                   ![c] = NewBill("POSTED", t, bill[b].due, bill[b].acct)]
  <2>1. posted \in [Bills -> Bill]
    <3>1. old \in [Bills -> Bill]
      BY <1>0 DEF Bill, Statuses
    <3>2. bill[b].due \in BOOLEAN /\ bill[b].acct \in Accts /\ t \in Int
      BY <1>0, BoundsAssumption DEF Bill
    <3> QED BY <3>1, <3>2, NewBillInTable DEF Statuses
  <2>2. \/ ApplyForPostedDebt(posted, RestoreAll(b))
        \/ restored' = RestoreAll(b) /\ UNCHANGED <<made, pay, applied>>
    BY <1>4 DEF ReplaceBill
  <2> HIDE DEF posted
  <2> QED BY <1>0, <2>1, <2>2, RestoreAllRestores, ApplyKeepsLedger,
             RestoringKeepsLedger
<1>5. ASSUME NEW a \in [Bills -> 0 .. MaxAmount], PayBills(a) PROVE LedgerInv'
  BY <1>0, <1>5, PayBillsKeepsLedger
<1>6. ASSUME NEW amount \in Amounts, TopUp(amount) PROVE LedgerInv'
  BY <1>0, <1>6, TopUpKeepsLedger
<1>7. ASSUME NEW amount \in Amounts, Refund(amount) PROVE LedgerInv'
  BY <1>0, <1>7, RefundKeepsLedger
<1>8. ASSUME NEW p \in Payments, ReversePayment(p) PROVE LedgerInv'
  BY <1>0, <1>8, ReversePaymentKeepsLedger
<1>9. ASSUME \/ \E b \in Bills : DiscardBill(b)
             \/ \E b \in Bills, t \in 0 .. MaxAmount, a \in Accts : GenerateBill(b, t, a)
             \/ \E pen \in [Bills -> 0 .. MaxPenalty] : AccruePenalty(pen)
             \/ \E a \in Accts : CloseAccount(a)
             \/ UNCHANGED vars
      PROVE  LedgerInv'
  <2>1. UNCHANGED <<made, pay, applied, restored>>
    BY <1>9 DEF DiscardBill, GenerateBill, AccruePenalty, CloseAccount, vars
  <2> QED BY <1>0, <2>1, UntouchedLedger
<1> QED BY <1>1, <1>2, <1>3, <1>4, <1>5, <1>6, <1>7, <1>8, <1>9 DEF Next, BillStep

LEMMA LedgerHolds == Spec => []LedgerInv
BY LedgerInit, LedgerStep, PTL DEF Spec

(* Every row of the payments and of the ledger is sound, whatever wrote it *)
(* and in whatever order.                                                  *)
THEOREM RowsAreSound == Spec => []LedgerRows
BY LedgerHolds, PTL DEF LedgerInv

(* No sequence of top-ups, applications, corrections, restores, refunds    *)
(* and payment reversals overdraws a lot or fills it beyond its top-up.    *)
THEOREM LotsStaySolvent == Spec => []LotsSolvent
<1>1. LedgerInv => LotsSolvent
  BY RemainingAtMostTopUp DEF LedgerInv, Solvent, LotsSolvent
<1> QED BY <1>1, LedgerHolds, PTL
-----------------------------------------------------------------------------
(* Cash.  Sum the payment rows by column: what each bill and each lot got; *)
(* the APPLY and REVERSAL entries move money from the lots to the bills.   *)
LEMMA SoundRowsExplainCash ==
  ASSUME TypeOK, LedgerRows
  PROVE  CashExplained
<1> DEFINE amounts  == [p \in Payments |-> pay[p].amount]
           allocs   == [p \in Payments |-> pay[p].alloc]
           lots     == [p \in Payments |-> pay[p].lot]
           rowAlloc == [p \in Payments |-> SumTo(pay[p].alloc, NumBills)]
           rowLot   == [p \in Payments |-> SumTo(pay[p].lot, NumPayments)]
           colAlloc == [b \in Bills |-> SumTo([p \in Payments |-> pay[p].alloc[b]],
                                              NumPayments)]
           colLot   == [l \in Lots |-> SumTo([p \in Payments |-> pay[p].lot[l]],
                                             NumPayments)]
           moved    == [b \in Bills |-> [l \in Lots |-> applied[b][l] - restored[b][l]]]
           toBill   == [b \in Bills |-> SumTo(moved[b], NumPayments)]
           fromLot  == [l \in Lots |-> SumTo([b \in Bills |-> moved[b][l]], NumBills)]
           remain   == [l \in Lots |-> Remaining(l)]
<1>1. /\ \A p \in Payments : pay[p] \in Payment
      /\ \A b \in Bills, l \in Lots : moved[b][l] \in Int
  BY DEF TypeOK
<1>2. SumTo(amounts, NumPayments)
        = SumTo(rowAlloc, NumPayments) + SumTo(rowLot, NumPayments)
  <2>1. \A p \in 1 .. NumPayments : rowAlloc[p] \in Int /\ rowLot[p] \in Int
    <3> SUFFICES ASSUME NEW p \in Payments
                 PROVE  rowAlloc[p] \in Int /\ rowLot[p] \in Int
      BY DEF Payments
    <3>1. /\ \A b \in 1 .. NumBills : pay[p].alloc[b] \in Int
          /\ \A l \in 1 .. NumPayments : pay[p].lot[l] \in Int
      BY <1>1 DEF Payment, Bills, Lots, Payments
    <3> QED BY <3>1, SumInt, BoundsAssumption
  <2>2. \A p \in 1 .. NumPayments : amounts[p] = rowAlloc[p] + rowLot[p]
    BY DEF LedgerRows, RowSound, Payments
  <2> HIDE DEF amounts, rowAlloc, rowLot
  <2> QED BY <2>1, <2>2, SumPlus, BoundsAssumption
<1>3. SumTo(rowAlloc, NumPayments) = SumTo(colAlloc, NumBills)
  <2>1. \A p \in 1 .. NumPayments, b \in 1 .. NumBills : allocs[p][b] \in Int
    BY <1>1 DEF Payment, Bills, Payments
  <2>2. SumTo([p \in 1 .. NumPayments |->
                 SumTo([b \in 1 .. NumBills |-> allocs[p][b]], NumBills)], NumPayments)
        = SumTo([b \in 1 .. NumBills |->
                 SumTo([p \in 1 .. NumPayments |-> allocs[p][b]], NumPayments)], NumBills)
    <3> HIDE DEF allocs
    <3> QED BY <2>1, SumSwap, BoundsAssumption
  <2>3. \A p \in 1 .. NumPayments : [b \in 1 .. NumBills |-> allocs[p][b]] = pay[p].alloc
    BY <1>1 DEF Payment, Bills, Payments
  <2>4. \A b \in Bills : [p \in 1 .. NumPayments |-> allocs[p][b]]
                            = [p \in Payments |-> pay[p].alloc[b]]
    BY DEF Payments
  <2>5. rowAlloc = [p \in 1 .. NumPayments |->
                      SumTo([b \in 1 .. NumBills |-> allocs[p][b]], NumBills)]
    BY <2>3 DEF Payments
  <2>6. colAlloc = [b \in 1 .. NumBills |->
                      SumTo([p \in 1 .. NumPayments |-> allocs[p][b]], NumPayments)]
    BY <2>4 DEF Bills
  <2> HIDE DEF rowAlloc, colAlloc, allocs
  <2> QED BY <2>2, <2>5, <2>6
<1>4. SumTo(rowLot, NumPayments) = SumTo(colLot, NumPayments)
  <2>1. \A p \in 1 .. NumPayments, l \in 1 .. NumPayments : lots[p][l] \in Int
    BY <1>1 DEF Payment, Lots, Payments
  <2>2. SumTo([p \in 1 .. NumPayments |->
                 SumTo([l \in 1 .. NumPayments |-> lots[p][l]], NumPayments)], NumPayments)
        = SumTo([l \in 1 .. NumPayments |->
                 SumTo([p \in 1 .. NumPayments |-> lots[p][l]], NumPayments)], NumPayments)
    <3> HIDE DEF lots
    <3> QED BY <2>1, SumSwap, BoundsAssumption
  <2>3. \A p \in 1 .. NumPayments : [l \in 1 .. NumPayments |-> lots[p][l]] = pay[p].lot
    BY <1>1 DEF Payment, Lots, Payments
  <2>4. \A l \in Lots : [p \in 1 .. NumPayments |-> lots[p][l]]
                           = [p \in Payments |-> pay[p].lot[l]]
    BY DEF Payments
  <2>5. rowLot = [p \in 1 .. NumPayments |->
                    SumTo([l \in 1 .. NumPayments |-> lots[p][l]], NumPayments)]
    BY <2>3 DEF Payments
  <2>6. colLot = [l \in 1 .. NumPayments |->
                    SumTo([p \in 1 .. NumPayments |-> lots[p][l]], NumPayments)]
    BY <2>4 DEF Lots, Payments
  <2> HIDE DEF rowLot, colLot, lots
  <2> QED BY <2>2, <2>5, <2>6
<1>5. SumTo(toBill, NumBills) = SumTo(fromLot, NumPayments)
  <2>1. \A b \in 1 .. NumBills, l \in 1 .. NumPayments : moved[b][l] \in Int
    BY <1>1 DEF Bills, Lots, Payments
  <2>2. SumTo([b \in 1 .. NumBills |->
                 SumTo([l \in 1 .. NumPayments |-> moved[b][l]], NumPayments)], NumBills)
        = SumTo([l \in 1 .. NumPayments |->
                 SumTo([b \in 1 .. NumBills |-> moved[b][l]], NumBills)], NumPayments)
    <3> HIDE DEF moved
    <3> QED BY <2>1, SumSwap, BoundsAssumption
  <2>3. \A b \in 1 .. NumBills : [l \in 1 .. NumPayments |-> moved[b][l]] = moved[b]
    BY DEF Bills, Lots, Payments
  <2>4. toBill = [b \in 1 .. NumBills |->
                    SumTo([l \in 1 .. NumPayments |-> moved[b][l]], NumPayments)]
    BY <2>3 DEF Bills
  <2>5. fromLot = [l \in 1 .. NumPayments |->
                     SumTo([b \in 1 .. NumBills |-> moved[b][l]], NumBills)]
    BY DEF Bills, Lots, Payments
  <2> HIDE DEF toBill, fromLot, moved
  <2> QED BY <2>2, <2>4, <2>5
<1>6. /\ \A b \in 1 .. NumBills : colAlloc[b] \in Int /\ toBill[b] \in Int
      /\ \A l \in 1 .. NumPayments : colLot[l] \in Int /\ fromLot[l] \in Int
  <2>1. ASSUME NEW b \in Bills PROVE colAlloc[b] \in Int /\ toBill[b] \in Int
    <3>1. /\ \A p \in 1 .. NumPayments : [q \in Payments |-> pay[q].alloc[b]][p] \in Int
          /\ \A l \in 1 .. NumPayments : moved[b][l] \in Int
      BY <1>1 DEF Payment, Payments, Lots
    <3> HIDE DEF moved
    <3> QED BY <3>1, SumInt, BoundsAssumption
  <2>2. ASSUME NEW l \in Lots PROVE colLot[l] \in Int /\ fromLot[l] \in Int
    <3>1. /\ \A p \in 1 .. NumPayments : [q \in Payments |-> pay[q].lot[l]][p] \in Int
          /\ \A b \in 1 .. NumBills : [c \in Bills |-> moved[c][l]][b] \in Int
      BY <1>1 DEF Payment, Payments, Lots, Bills
    <3> HIDE DEF moved
    <3> QED BY <3>1, SumInt, BoundsAssumption
  <2> QED BY <2>1, <2>2 DEF Bills, Lots, Payments
<1>7. SumTo(PaidNow, NumBills) = SumTo(colAlloc, NumBills) + SumTo(toBill, NumBills)
  <2>1. \A b \in 1 .. NumBills : PaidNow[b] = colAlloc[b] + toBill[b]
    BY DEF PaidNow, Paid, PaidOf, Bills
  <2> HIDE DEF colAlloc, toBill
  <2> QED BY <1>6, <2>1, SumPlus, BoundsAssumption
<1>8. SumTo(colLot, NumPayments) = SumTo(remain, NumPayments) + SumTo(fromLot, NumPayments)
  <2>1. \A l \in 1 .. NumPayments : remain[l] = colLot[l] - fromLot[l]
    <3>1. ASSUME NEW l \in Lots PROVE Remaining(l) = colLot[l] - fromLot[l]
      <4>1. [b \in Bills |-> moved[b][l]] = [b \in Bills |-> applied[b][l] - restored[b][l]]
        OBVIOUS
      <4> QED BY <4>1 DEF Remaining, RemainingOf
    <3> QED BY <3>1 DEF Lots, Payments
  <2> HIDE DEF colLot, fromLot, remain, colAlloc, toBill, moved
  <2>2. \A l \in 1 .. NumPayments : remain[l] \in Int /\ colLot[l] = remain[l] + fromLot[l]
    <3> SUFFICES ASSUME NEW l \in 1 .. NumPayments
                 PROVE  remain[l] \in Int /\ colLot[l] = remain[l] + fromLot[l]
      OBVIOUS
    <3>1. colLot[l] \in Int /\ fromLot[l] \in Int /\ remain[l] = colLot[l] - fromLot[l]
      BY <1>6, <2>1
    <3> QED BY <3>1
  <2> QED BY <1>6, <2>2, SumPlus, BoundsAssumption
<1>9. Balance = SumTo(remain, NumPayments)
  BY DEF Balance, BalanceOf, Remaining
<1>10. /\ SumTo(colAlloc, NumBills) \in Int /\ SumTo(toBill, NumBills) \in Int
       /\ SumTo(colLot, NumPayments) \in Int /\ SumTo(fromLot, NumPayments) \in Int
       /\ SumTo(remain, NumPayments) \in Int
  <2>1. \A l \in 1 .. NumPayments : remain[l] \in Int
    BY Tables DEF Lots, Payments
  <2> HIDE DEF colAlloc, toBill, colLot, fromLot, remain
  <2> QED BY <1>6, <2>1, SumInt, BoundsAssumption
<1>11. CashExplained <=> SumTo(amounts, NumPayments) = SumTo(PaidNow, NumBills) + Balance
  BY DEF CashExplained
<1> HIDE DEF amounts, rowAlloc, rowLot, colAlloc, colLot, toBill, fromLot, remain, moved
<1> QED BY <1>2, <1>3, <1>4, <1>5, <1>7, <1>8, <1>9, <1>10, <1>11

(* Conservation: every cent ever taken is on a bill, in a lot, or has been *)
(* paid back, for any number of bills, payments and operations.            *)
THEOREM CashIsExplained == Spec => []CashExplained
<1>1. LedgerInv => CashExplained
  BY SoundRowsExplainCash DEF LedgerInv
<1> QED BY <1>1, LedgerHolds, PTL
-----------------------------------------------------------------------------
(* Bills.  What is allocated to a bill is what its live payments say, those *)
(* that neither reverse another nor are reversed; no term of that sum is    *)
(* negative.  With it the status of a bill can be kept step by step.        *)
AllocSum(b) == SumTo([p \in Payments |-> pay[p].alloc[b]], NumPayments)
Live(p)     == pay[p].reverses = 0 /\ \A q \in Payments : pay[q].reverses # p
LiveSum(b)  == SumTo([p \in Payments |-> IF Live(p) THEN pay[p].alloc[b] ELSE 0],
                     NumPayments)
MovedSum(ap, re, b) == SumTo([l \in Lots |-> ap[b][l] - re[b][l]], NumPayments)

AllocInv ==
    /\ \A p \in Payments : pay[p].reverses <= made
    /\ \A p \in Payments, b \in Bills :
          pay[p].reverses = 0 => 0 <= pay[p].alloc[b]
    /\ \A b \in Bills : AllocSum(b) = LiveSum(b)

(* What a status says of a bill with total t to which p is allocated.      *)
Honest(status, t, p) ==
    /\ 0 <= p
    /\ status = "POSTED" => p = 0
    /\ status = "PARTIAL_PAID" => 0 < p /\ p < t
    /\ status = "PAID" => p = t
    /\ status \in {"NONE", "DRAFT"} => p = 0

HonestBills == \A b \in Bills : Honest(bill[b].status, bill[b].total, Paid(b))
FundsInv == LedgerInv /\ AllocInv /\ HonestBills

LEMMA AllocTerms ==
  ASSUME TypeOK, NEW b \in Bills
  PROVE  /\ \A p \in 1 .. NumPayments :
              /\ p \in Payments /\ pay[p].alloc[b] \in Int
              /\ [q \in Payments |-> pay[q].alloc[b]][p] = pay[p].alloc[b]
         /\ AllocSum(b) \in Int
<1> DEFINE f == [q \in Payments |-> pay[q].alloc[b]]
<1>1. \A p \in 1 .. NumPayments :
         p \in Payments /\ pay[p].alloc[b] \in Int /\ f[p] = pay[p].alloc[b]
  BY DEF TypeOK, Payment, Payments
<1>2. SumTo(f, NumPayments) \in Int
  <2> HIDE DEF f
  <2> QED BY <1>1, SumInt, BoundsAssumption
<1> QED BY <1>1, <1>2 DEF AllocSum

LEMMA RestoredRestores ==
  ASSUME TypeOK, LedgerRows
  PROVE  Restores(restored)
<1>1. \A b \in Bills, l \in Lots : restored[b][l] \in Nat
  BY DEF TypeOK
<1> QED BY <1>1, Tables DEF LedgerRows, Restores

LEMMA MovedNat ==
  ASSUME TypeOK, NEW re, Restores(re), NEW b \in Bills
  PROVE  MovedSum(applied, re, b) \in Nat
<1> DEFINE g == [l \in Lots |-> applied[b][l] - re[b][l]]
<1>1. \A l \in 1 .. NumPayments : g[l] \in Nat
  <2> SUFFICES ASSUME NEW l \in Lots PROVE g[l] \in Nat
    BY DEF Lots, Payments
  <2>1. applied[b][l] \in Nat /\ re[b][l] \in Nat /\ re[b][l] <= applied[b][l]
    BY Tables DEF Restores, Entries
  <2> QED BY <2>1
<1>2. SumTo(g, NumPayments) \in Nat
  <2> HIDE DEF g
  <2> QED BY <1>1, SumNonneg, BoundsAssumption
<1> QED BY <1>2 DEF MovedSum

(* A bill has at least what any one live payment gave it.                  *)
LEMMA LiveIsCounted ==
  ASSUME LedgerInv, AllocInv, NEW b \in Bills, NEW re, Restores(re)
  PROVE  /\ PaidOf(pay, applied, re, b) \in Nat
         /\ \A p \in Payments : Live(p) =>
              0 <= pay[p].alloc[b] /\ pay[p].alloc[b] <= PaidOf(pay, applied, re, b)
<1> DEFINE f == [p \in Payments |-> IF Live(p) THEN pay[p].alloc[b] ELSE 0]
<1>0. TypeOK
  BY DEF LedgerInv
<1>1. \A p \in 1 .. NumPayments :
         p \in Payments /\ f[p] \in Nat /\ (Live(p) => f[p] = pay[p].alloc[b])
  <2> SUFFICES ASSUME NEW p \in Payments
               PROVE  f[p] \in Nat /\ (Live(p) => f[p] = pay[p].alloc[b])
    BY DEF Payments
  <2>1. pay[p].alloc[b] \in Int
    BY <1>0, AllocTerms DEF Payments
  <2>2. pay[p].reverses = 0 => 0 <= pay[p].alloc[b]
    BY DEF AllocInv
  <2>3. CASE Live(p)
    <3>1. pay[p].reverses = 0
      BY <2>3 DEF Live
    <3> QED BY <2>1, <2>2, <2>3, <3>1
  <2>4. CASE ~ Live(p)
    BY <2>4
  <2> QED BY <2>3, <2>4
<1>2. LiveSum(b) = SumTo(f, NumPayments)
  BY DEF LiveSum
<1> HIDE DEF f
<1>3. SumTo(f, NumPayments) \in Nat
  BY <1>1, SumNonneg, BoundsAssumption
<1>4. PaidOf(pay, applied, re, b) = SumTo(f, NumPayments) + MovedSum(applied, re, b)
  BY <1>2 DEF PaidOf, AllocInv, AllocSum, MovedSum
<1>5. MovedSum(applied, re, b) \in Nat
  BY <1>0, MovedNat
<1>6. ASSUME NEW p \in Payments, Live(p)
      PROVE  0 <= pay[p].alloc[b] /\ pay[p].alloc[b] <= SumTo(f, NumPayments)
  <2>1. p \in 1 .. NumPayments /\ f[p] \in Nat /\ f[p] = pay[p].alloc[b]
    BY <1>1, <1>6 DEF Payments
  <2>2. f[p] <= SumTo(f, NumPayments)
    <3>1. \A i \in 1 .. NumPayments : f[i] \in Nat
      BY <1>1
    <3> QED BY <2>1, <3>1, SumTerm, BoundsAssumption
  <2> QED BY <2>1, <2>2
<1> QED
  <2>1. PaidOf(pay, applied, re, b) \in Nat
    BY <1>3, <1>4, <1>5
  <2>2. ASSUME NEW p \in Payments, Live(p)
        PROVE  pay[p].alloc[b] <= PaidOf(pay, applied, re, b)
    <3>1. pay[p].alloc[b] \in Int
      BY <1>0, AllocTerms DEF Payments
    <3> QED BY <1>3, <1>4, <1>5, <1>6, <2>2, <3>1
  <2> QED BY <1>6, <2>1, <2>2

(* A new payment row gives each bill what it says.                         *)
LEMMA AllocAfterReceive ==
  ASSUME TypeOK, TypeOK', LedgerRows, NEW row, Receive(row), NEW b \in Bills
  PROVE  AllocSum(b)' = AllocSum(b) + row.alloc[b]
<1> DEFINE f == [p \in Payments |-> pay[p].alloc[b]]
           g == [p \in Payments |-> pay'[p].alloc[b]]
           k == made + 1
<1>1. /\ k \in 1 .. NumPayments /\ k \in Payments /\ row \in Payment
      /\ \A p \in Payments : pay'[p] = IF p = k THEN row ELSE pay[p]
  BY ReceivedRow
<1>2. pay[k] = NoPayment
  BY <1>1 DEF LedgerRows, TypeOK
<1>3. \A p \in 1 .. NumPayments : f[p] \in Int /\ g[p] \in Int /\ (p # k => g[p] = f[p])
  <2> SUFFICES ASSUME NEW p \in Payments
               PROVE  f[p] \in Int /\ g[p] \in Int /\ (p # k => g[p] = f[p])
    BY DEF Payments
  <2>1. pay[p] \in Payment /\ pay'[p] \in Payment
    BY DEF TypeOK
  <2> QED BY <1>1, <2>1 DEF Payment
<1>4. f[k] = 0 /\ g[k] = row.alloc[b] /\ row.alloc[b] \in Int
  BY <1>1, <1>2 DEF NoPayment, NoAllocs, Payment
<1>5. AllocSum(b) = SumTo(f, NumPayments) /\ AllocSum(b)' = SumTo(g, NumPayments)
  BY DEF AllocSum
<1>6. AllocSum(b) \in Int
  BY AllocTerms
<1> HIDE DEF f, g, k
<1>7. SumTo(g, NumPayments) = SumTo(f, NumPayments) + g[k] - f[k]
  BY <1>1, <1>3, SumUpdate, BoundsAssumption
<1> QED BY <1>4, <1>5, <1>6, <1>7

LEMMA PaidAfterReceive ==
  ASSUME TypeOK, TypeOK', LedgerRows, NEW row, Receive(row),
         UNCHANGED <<applied, restored>>, NEW b \in Bills
  PROVE  Paid(b)' = Paid(b) + row.alloc[b] /\ Paid(b) \in Int /\ row.alloc[b] \in Int
<1>1. /\ Paid(b) = AllocSum(b) + MovedSum(applied, restored, b)
      /\ Paid(b)' = AllocSum(b)' + MovedSum(applied, restored, b)
  BY DEF Paid, PaidOf, AllocSum, MovedSum
<1>2. AllocSum(b) \in Int /\ Paid(b) \in Int
  BY AllocTerms, PaidOfInt, Tables DEF Paid
<1>3. row.alloc[b] \in Int
  BY ReceivedRow DEF Payment
<1>4. MovedSum(applied, restored, b) \in Nat
  BY MovedNat, RestoredRestores
<1> QED BY <1>1, <1>2, <1>3, <1>4, AllocAfterReceive

LEMMA UntouchedAllocs ==
  ASSUME AllocInv, UNCHANGED <<made, pay>>
  PROVE  AllocInv'
BY DEF AllocInv, AllocSum, LiveSum, Live

(* A payment that reverses nothing is live and takes nothing.              *)
LEMMA ReceiveKeepsAllocs ==
  ASSUME TypeOK, TypeOK', LedgerRows, AllocInv, NEW row, Receive(row),
         row.reverses = 0, \A b \in Bills : 0 <= row.alloc[b]
  PROVE  AllocInv'
<1> DEFINE k == made + 1
<1>1. /\ k \in 1 .. NumPayments /\ k \in Payments /\ row \in Payment
      /\ made' = made + 1 /\ made \in Nat
      /\ \A p \in Payments : pay'[p] = IF p = k THEN row ELSE pay[p]
  BY ReceivedRow DEF TypeOK
<1>2. pay[k] = NoPayment
  BY <1>1 DEF LedgerRows
<1>3. \A p \in Payments : pay[p].reverses \in Nat /\ pay[p].reverses <= made
  BY BoundsAssumption DEF AllocInv, TypeOK, Payment
<1>4. \A p \in Payments : pay'[p].reverses = pay[p].reverses
  BY <1>1, <1>2 DEF NoPayment
<1>5. \A p \in Payments : Live(p)' <=> Live(p)
  BY <1>4 DEF Live
<1>6. ASSUME NEW b \in Bills PROVE LiveSum(b)' = LiveSum(b) + row.alloc[b]
  <2> DEFINE f == [p \in Payments |-> IF Live(p) THEN pay[p].alloc[b] ELSE 0]
             g == [p \in Payments |-> IF Live(p)' THEN pay'[p].alloc[b] ELSE 0]
  <2>1. \A p \in 1 .. NumPayments : f[p] \in Int /\ g[p] \in Int /\ (p # k => g[p] = f[p])
    <3> SUFFICES ASSUME NEW p \in Payments
                 PROVE  f[p] \in Int /\ g[p] \in Int /\ (p # k => g[p] = f[p])
      BY DEF Payments
    <3>1. pay[p].alloc[b] \in Int /\ pay'[p].alloc[b] \in Int
      BY DEF TypeOK, Payment
    <3>2. p # k => pay'[p] = pay[p]
      BY <1>1
    <3> QED BY <1>5, <3>1, <3>2
  <2>2. f[k] = 0
    BY <1>1, <1>2 DEF NoPayment, NoAllocs
  <2>3. Live(k)
    <3>1. pay[k].reverses = 0
      BY <1>2 DEF NoPayment
    <3>2. \A q \in Payments : pay[q].reverses # k
      BY <1>1, <1>3
    <3> QED BY <3>1, <3>2 DEF Live
  <2>4. g[k] = row.alloc[b] /\ row.alloc[b] \in Int
    BY <1>1, <1>5, <2>3 DEF Payment
  <2>5. LiveSum(b) = SumTo(f, NumPayments) /\ LiveSum(b)' = SumTo(g, NumPayments)
    BY DEF LiveSum
  <2> HIDE DEF f, g, k
  <2>6. SumTo(g, NumPayments) = SumTo(f, NumPayments) + g[k] - f[k]
    BY <1>1, <2>1, SumUpdate, BoundsAssumption
  <2>7. SumTo(f, NumPayments) \in Int
    BY <2>1, SumInt, BoundsAssumption
  <2> QED BY <2>2, <2>4, <2>5, <2>6, <2>7
<1>7. \A b \in Bills : AllocSum(b)' = LiveSum(b)'
  BY <1>6, AllocAfterReceive DEF AllocInv
<1>8. \A p \in Payments : pay'[p].reverses <= made'
  BY <1>1, <1>3, <1>4
<1>9. \A p \in Payments, b \in Bills : pay'[p].reverses = 0 => 0 <= pay'[p].alloc[b]
  BY <1>1 DEF AllocInv
<1> QED BY <1>7, <1>8, <1>9 DEF AllocInv

(* A reversal ends the life of one payment and takes what that one gave.   *)
LEMMA ReversalKeepsAllocs ==
  ASSUME TypeOK, TypeOK', LedgerRows, AllocInv,
         NEW p \in Payments, ReversePayment(p)
  PROVE  AllocInv'
<1> DEFINE k == made + 1
           row == Mirror(p)
<1>0. Receive(row) /\ Live(p) /\ p \in 1 .. made
  BY DEF ReversePayment, Live
<1>1. /\ k \in 1 .. NumPayments /\ k \in Payments /\ row \in Payment
      /\ made' = made + 1 /\ made \in Nat
      /\ \A q \in Payments : pay'[q] = IF q = k THEN row ELSE pay[q]
  BY <1>0, ReceivedRow DEF TypeOK
<1>2. pay[k] = NoPayment
  BY <1>1 DEF LedgerRows
<1>3. p # k /\ p # 0 /\ p \in 1 .. NumPayments
  BY <1>0, <1>1 DEF Payments
<1>4. row.reverses = p /\ \A b \in Bills : row.alloc[b] = -pay[p].alloc[b]
  BY DEF Mirror
<1>5. \A q \in Payments : Live(q)' <=> (Live(q) /\ q # p /\ q # k)
  <2> SUFFICES ASSUME NEW q \in Payments
               PROVE  Live(q)' <=> (Live(q) /\ q # p /\ q # k)
    OBVIOUS
  <2>1. pay'[k].reverses = p /\ pay[k].reverses = 0
    BY <1>1, <1>2, <1>4 DEF NoPayment
  <2>2. \A r \in Payments \ {k} : pay'[r].reverses = pay[r].reverses
    BY <1>1
  <2>3. CASE q = k
    BY <1>3, <2>1, <2>3 DEF Live
  <2>4. CASE q = p
    BY <1>1, <2>1, <2>4 DEF Live
  <2>5. CASE q # p /\ q # k
    <3>1. q # 0
      BY DEF Payments
    <3> QED BY <1>1, <2>1, <2>2, <2>5, <3>1 DEF Live
  <2> QED BY <2>3, <2>4, <2>5
<1>6. ASSUME NEW b \in Bills PROVE LiveSum(b)' = LiveSum(b) + row.alloc[b]
  <2> DEFINE f == [q \in Payments |-> IF Live(q) THEN pay[q].alloc[b] ELSE 0]
             g == [q \in Payments |-> IF Live(q)' THEN pay'[q].alloc[b] ELSE 0]
  <2>1. \A q \in 1 .. NumPayments : f[q] \in Int /\ g[q] \in Int /\ (q # p => g[q] = f[q])
    <3> SUFFICES ASSUME NEW q \in Payments
                 PROVE  f[q] \in Int /\ g[q] \in Int /\ (q # p => g[q] = f[q])
      BY DEF Payments
    <3>1. pay[q].alloc[b] \in Int /\ pay'[q].alloc[b] \in Int
      BY DEF TypeOK, Payment
    <3>2. q # k => pay'[q] = pay[q]
      BY <1>1
    <3>3. q = k => pay[q].alloc[b] = 0
      BY <1>2 DEF NoPayment, NoAllocs
    <3> QED BY <1>5, <3>1, <3>2, <3>3
  <2>2. f[p] = pay[p].alloc[b] /\ pay[p].alloc[b] \in Int
    BY <1>0 DEF TypeOK, Payment
  <2>3. g[p] = 0
    BY <1>5
  <2>4. LiveSum(b) = SumTo(f, NumPayments) /\ LiveSum(b)' = SumTo(g, NumPayments)
    BY DEF LiveSum
  <2> HIDE DEF f, g, k, row
  <2>5. SumTo(g, NumPayments) = SumTo(f, NumPayments) + g[p] - f[p]
    BY <1>3, <2>1, SumUpdate, BoundsAssumption
  <2>6. SumTo(f, NumPayments) \in Int
    BY <2>1, SumInt, BoundsAssumption
  <2> QED BY <1>4, <2>2, <2>3, <2>4, <2>5, <2>6
<1>7. \A b \in Bills : AllocSum(b)' = LiveSum(b)'
  <2> HIDE DEF row
  <2> QED BY <1>0, <1>6, AllocAfterReceive DEF AllocInv
<1>8. \A q \in Payments : pay'[q].reverses <= made'
  <2> SUFFICES ASSUME NEW q \in Payments PROVE pay'[q].reverses <= made + 1
    BY <1>1
  <2>1. pay[q].reverses \in Nat /\ pay[q].reverses <= made
    BY BoundsAssumption DEF AllocInv, TypeOK, Payment
  <2>2. pay'[q].reverses = IF q = k THEN p ELSE pay[q].reverses
    BY <1>1, <1>4
  <2> QED BY <1>0, <1>1, <2>1, <2>2
<1>9. \A q \in Payments, b \in Bills : pay'[q].reverses = 0 => 0 <= pay'[q].alloc[b]
  <2> HIDE DEF row, k
  <2> QED BY <1>1, <1>3, <1>4 DEF AllocInv
<1> QED BY <1>7, <1>8, <1>9 DEF AllocInv

(* A recomputed status is honest: never more than the total is on it.      *)
LEMMA StatusForHonest ==
  ASSUME NEW t \in Int, NEW p \in Int, 0 <= p, p <= t
  PROVE  Honest(StatusFor(t, p), t, p)
BY DEF Honest, StatusFor

(* What an operation that reads the tables half-way finds on the bills.    *)
HonestOver(bl, re) ==
    \A b \in Bills : Honest(bl[b].status, bl[b].total, PaidOf(pay, applied, re, b))

(* The walk gives a bill no more than it owes, and its status says so.     *)
LEMMA WalkKeepsHonest ==
  ASSUME LedgerInv, AllocInv, TypeOK', NEW bl \in [Bills -> Bill],
         NEW re, Restores(re), restored' = re, UNCHANGED pay,
         WalkQueue(bl, re), HonestOver(bl, re)
  PROVE  HonestBills'
<1>0. /\ pay \in Payrolls /\ applied \in Entries /\ re \in Entries
      /\ applied' \in Entries /\ TypeOK
  BY Tables DEF Restores, LedgerInv, TypeOK, Entries
<1> DEFINE paid == [c \in Bills |-> PaidOf(pay, applied, re, c)]
           debt == Debt(bl, paid)
           lots == [k \in Lots |-> RemainingOf(pay, applied, re, k)]
<1>1. \A c \in Bills : paid[c] \in Nat /\ paid[c] = PaidOf(pay, applied, re, c)
  BY LiveIsCounted
<1>2. \A b \in 1 .. NumBills :
         debt[b] \in Nat /\ debt[b] = IF bl[b].status \in Payable /\ bl[b].total > paid[b]
                                     THEN bl[b].total - paid[b] ELSE 0
  <2>1. \A c \in Bills : bl[c].total \in Int
    BY DEF Bill
  <2> HIDE DEF paid
  <2> QED BY <1>1, <2>1 DEF Debt, Bills
<1>3. \A l \in 1 .. NumPayments : lots[l] \in Nat
  <2> SUFFICES ASSUME NEW l \in Lots PROVE lots[l] \in Nat
    BY DEF Lots, Payments
  <2>1. RemainingOf(pay, applied, re, l) \in Int /\ Remaining(l) \in Int
    BY <1>0, RemainingOfInt, Tables
  <2>2. 0 <= Remaining(l) /\ Remaining(l) <= RemainingOf(pay, applied, re, l)
    BY <1>0, RestoringFillsLots DEF LedgerInv, Solvent
  <2> QED BY <2>1, <2>2
<1>4. \A b \in Bills, l \in Lots :
         /\ applied'[b][l] = IF applied[b][l] = 0 THEN ServedFrom(debt, b, lots, l)
                             ELSE applied[b][l]
         /\ ServedFrom(debt, b, lots, l) \in Nat
  BY <1>0, TakeNat DEF WalkQueue, ApplyKey, Take
<1>5. ASSUME NEW b \in Bills
      PROVE  /\ Paid(b)' \in Int /\ paid[b] <= Paid(b)'
             /\ Paid(b)' <= paid[b] + debt[b]
  <2> DEFINE f   == [p \in Payments |-> pay[p].alloc[b]]
             h   == [l \in Lots |-> applied[b][l] - re[b][l]]
             k   == [l \in Lots |-> applied'[b][l] - re[b][l]]
             inc == [l \in Lots |-> applied'[b][l] - applied[b][l]]
             t   == [l \in Lots |-> ServedFrom(debt, b, lots, l)]
  <2>1. \A l \in 1 .. NumPayments :
           /\ h[l] \in Int /\ inc[l] \in Nat /\ k[l] = h[l] + inc[l]
           /\ t[l] \in Int /\ inc[l] <= t[l] /\ t[l] = ServedFrom(debt, b, lots, l)
    <3> SUFFICES ASSUME NEW l \in Lots
                 PROVE  /\ h[l] \in Int /\ inc[l] \in Nat /\ k[l] = h[l] + inc[l]
                        /\ t[l] \in Int /\ inc[l] <= t[l]
      BY DEF Lots, Payments
    <3>1. applied[b][l] \in Nat /\ applied'[b][l] \in Nat /\ re[b][l] \in Nat
      BY <1>0 DEF Entries
    <3> HIDE DEF debt, lots
    <3> QED BY <1>4, <3>1
  <2>2. SumTo(k, NumPayments) = SumTo(h, NumPayments) + SumTo(inc, NumPayments)
    <3> HIDE DEF k, h, inc, t, debt, lots
    <3> QED BY <2>1, SumPlus, BoundsAssumption
  <2>3. SumTo(inc, NumPayments) <= SumTo(t, NumPayments)
    <3> HIDE DEF k, h, inc, t, debt, lots
    <3> QED BY <2>1, SumMono, BoundsAssumption
  <2>4. SumTo(t, NumPayments) <= debt[b]
    <3>1. b \in 1 .. NumBills /\ \A i \in 1 .. NumBills : debt[i] \in Nat
      BY <1>2 DEF Bills
    <3>2. \A l \in 1 .. NumPayments : t[l] = ServedFrom(debt, b, lots, l)
      BY <2>1
    <3> HIDE DEF debt, lots, t, paid
    <3> QED BY <1>3, <3>1, <3>2, ServedFromRow, BoundsAssumption
  <2>5. /\ SumTo(h, NumPayments) \in Int /\ SumTo(inc, NumPayments) \in Nat
        /\ SumTo(t, NumPayments) \in Int
    <3> HIDE DEF k, h, inc, t, debt, lots
    <3> QED BY <2>1, SumInt, SumNonneg, BoundsAssumption
  <2>6. /\ paid[b] = SumTo(f, NumPayments) + SumTo(h, NumPayments)
        /\ Paid(b)' = SumTo(f, NumPayments) + SumTo(k, NumPayments)
    BY DEF Paid, PaidOf
  <2>7. SumTo(f, NumPayments) \in Int
    BY <1>0, AllocTerms DEF AllocSum
  <2>8. debt[b] \in Nat
    BY <1>2 DEF Bills
  <2> HIDE DEF f, h, k, inc, t, debt, lots, paid
  <2> QED BY <2>2, <2>3, <2>4, <2>5, <2>6, <2>7, <2>8
<1>6. \A b \in Bills :
         bill'[b] = IF bl[b].status \in Payable /\ bl[b].total > paid[b]
                    THEN [bl[b] EXCEPT !.status = StatusFor(bl[b].total, Paid(b)')]
                    ELSE bl[b]
  BY DEF WalkQueue, Paid
<1> SUFFICES ASSUME NEW b \in Bills
             PROVE  Honest(bill'[b].status, bill'[b].total, Paid(b)')
  BY DEF HonestBills
<1>7. bl[b] \in Bill /\ bl[b].total \in Int
  BY DEF Bill
<1>8. /\ paid[b] \in Nat
      /\ Honest(bl[b].status, bl[b].total, paid[b])
      /\ debt[b] \in Nat
      /\ debt[b] = IF bl[b].status \in Payable /\ bl[b].total > paid[b]
                   THEN bl[b].total - paid[b] ELSE 0
  BY <1>1, <1>2 DEF HonestOver, Bills
<1> HIDE DEF paid, debt, lots
<1>9. CASE bl[b].status \in Payable /\ bl[b].total > paid[b]
  <2>1. 0 <= Paid(b)' /\ Paid(b)' <= bl[b].total
    BY <1>5, <1>7, <1>8, <1>9
  <2>2. /\ bill'[b].status = StatusFor(bl[b].total, Paid(b)')
        /\ bill'[b].total = bl[b].total
    BY <1>6, <1>7, <1>9 DEF Bill
  <2> QED BY <1>5, <1>7, <2>1, <2>2, StatusForHonest
<1>10. CASE ~ (bl[b].status \in Payable /\ bl[b].total > paid[b])
  <2>1. Paid(b)' = paid[b]
    BY <1>5, <1>8, <1>10
  <2> QED BY <1>6, <1>8, <1>10, <2>1
<1> QED BY <1>9, <1>10

LEMMA ApplyKeepsHonest ==
  ASSUME LedgerInv, AllocInv, TypeOK', NEW bl \in [Bills -> Bill],
         NEW re, Restores(re), ApplyForPostedDebt(bl, re), HonestOver(bl, re)
  PROVE  HonestBills'
<1>1. restored' = re /\ UNCHANGED pay
  BY DEF ApplyForPostedDebt
<1>2. CASE WalkQueue(bl, re)
  BY <1>1, <1>2, WalkKeepsHonest
<1>3. CASE bill' = bl /\ UNCHANGED applied
  BY <1>1, <1>3 DEF HonestBills, HonestOver, Paid
<1> QED BY <1>2, <1>3 DEF ApplyForPostedDebt

LEMMA PaidNat ==
  ASSUME LedgerInv, AllocInv, NEW b \in Bills
  PROVE  /\ Paid(b) \in Nat /\ bill[b] \in Bill
         /\ \A p \in Payments : Live(p) =>
              0 <= pay[p].alloc[b] /\ pay[p].alloc[b] <= Paid(b)
BY LiveIsCounted, RestoredRestores DEF Paid, LedgerInv, TypeOK

(* Restoring what was applied to bill b leaves the other bills alone.      *)
LEMMA RestoringSpares ==
  ASSUME LedgerInv, NEW b \in Bills, NEW c \in Bills, c # b
  PROVE  PaidOf(pay, applied, RestoreAll(b), c) = Paid(c)
<1>1. RestoreAll(b)[c] = restored[c]
  BY DEF RestoreAll, LedgerInv, TypeOK
<1> QED BY <1>1 DEF PaidOf, Paid

LEMMA ReversedIsHonest ==
  ASSUME FundsInv, NEW b \in Bills,
         NEW bl \in [Bills -> Bill], bl[b].status = "REVERSED",
         \A c \in Bills \ {b} : Honest(bl[c].status, bl[c].total, Paid(c))
  PROVE  HonestOver(bl, RestoreAll(b))
<1>1. LedgerInv /\ AllocInv /\ Restores(RestoreAll(b))
  BY RestoreAllRestores DEF FundsInv
<1>2. PaidOf(pay, applied, RestoreAll(b), b) \in Nat
  BY <1>1, LiveIsCounted
<1>3. Honest(bl[b].status, bl[b].total, PaidOf(pay, applied, RestoreAll(b), b))
  BY <1>2 DEF Honest
<1>4. \A c \in Bills \ {b} : PaidOf(pay, applied, RestoreAll(b), c) = Paid(c)
  BY <1>1, RestoringSpares
<1> QED BY <1>3, <1>4 DEF HonestOver

LEMMA NewBillIsHonest ==
  ASSUME FundsInv, NEW b \in Bills, bill[b].status \in {"NONE", "DRAFT"},
         NEW s \in {"NONE", "DRAFT", "POSTED"}, NEW t
  PROVE  Honest(s, t, Paid(b))
BY DEF FundsInv, HonestBills, Honest

(* An operation on the bill table alone keeps the bills honest if it       *)
(* leaves it honest over the tables as they are.                           *)
LEMMA BillsOnly ==
  ASSUME HonestOver(bill', restored), UNCHANGED <<pay, applied, restored>>
  PROVE  HonestBills'
BY DEF HonestOver, HonestBills, Paid

LEMMA PostKeepsHonest ==
  ASSUME FundsInv, TypeOK', NEW b \in Bills, PostBill(b)
  PROVE  HonestBills'
<1> DEFINE posted == [bill EXCEPT ![b].status = "POSTED"]
<1>0. LedgerInv /\ AllocInv /\ bill \in [Bills -> Bill] /\ Restores(restored)
  BY RestoreAllRestores DEF FundsInv, LedgerInv, TypeOK
<1>1. posted \in [Bills -> Bill] /\ ApplyForPostedDebt(posted, restored)
  BY <1>0 DEF PostBill, Bill, Statuses
<1>2. \A c \in Bills :
         /\ posted[c].total = bill[c].total
         /\ posted[c].status = IF c = b THEN "POSTED" ELSE bill[c].status
  BY <1>0 DEF Bill
<1> HIDE DEF posted
<1>3. Honest("POSTED", bill[b].total, Paid(b))
  BY NewBillIsHonest DEF PostBill
<1>4. HonestOver(posted, restored)
  BY <1>2, <1>3 DEF HonestOver, Paid, FundsInv, HonestBills
<1> QED BY <1>0, <1>1, <1>4, ApplyKeepsHonest

LEMMA AdjustKeepsHonest ==
  ASSUME FundsInv, TypeOK', NEW b \in Bills, NEW t \in -MaxAmount .. MaxAmount,
         NEW a \in Accts, Adjust(b, t, a)
  PROVE  HonestBills'
<1> DEFINE posted == [bill EXCEPT ![b] = NewBill("POSTED", t, FALSE, a)]
<1>0. LedgerInv /\ AllocInv /\ bill \in [Bills -> Bill] /\ Restores(restored)
  BY RestoreAllRestores DEF FundsInv, LedgerInv, TypeOK
<1>1. posted \in [Bills -> Bill]
  <2>1. t \in Int /\ "POSTED" \in Statuses
    BY BoundsAssumption DEF Statuses
  <2> QED BY <1>0, <2>1, NewBillInTable
<1>2. /\ posted[b].status = "POSTED"
      /\ \A c \in Bills \ {b} : posted[c] = bill[c]
  BY <1>0 DEF NewBill
<1>3. \/ ApplyForPostedDebt(posted, restored)
      \/ bill' = posted /\ UNCHANGED <<pay, applied, restored>>
  BY DEF Adjust
<1> HIDE DEF posted
<1>4. Honest("POSTED", posted[b].total, Paid(b))
  BY NewBillIsHonest DEF Adjust
<1>5. HonestOver(posted, restored)
  BY <1>2, <1>4 DEF HonestOver, Paid, FundsInv, HonestBills
<1> QED BY <1>0, <1>1, <1>3, <1>5, ApplyKeepsHonest, BillsOnly

LEMMA ReverseBillKeepsHonest ==
  ASSUME FundsInv, TypeOK', NEW b \in Bills, ReverseBill(b)
  PROVE  HonestBills'
<1>1. bill' \in [Bills -> Bill] /\ bill \in [Bills -> Bill]
  BY DEF TypeOK, FundsInv, LedgerInv
<1>2. /\ bill'[b].status = "REVERSED"
      /\ \A c \in Bills \ {b} : bill'[c] = bill[c]
  BY <1>1 DEF ReverseBill, Bill
<1>3. HonestOver(bill', RestoreAll(b))
  BY <1>1, <1>2, ReversedIsHonest DEF FundsInv, HonestBills
<1> QED BY <1>3 DEF ReverseBill, HonestOver, HonestBills, Paid

LEMMA ReplaceKeepsHonest ==
  ASSUME FundsInv, TypeOK', NEW b \in Bills, NEW c \in Bills,
         NEW t \in 0 .. MaxAmount, ReplaceBill(b, c, t)
  PROVE  HonestBills'
<1> DEFINE old    == [bill EXCEPT ![b].status = "REVERSED"]
           posted == [bill EXCEPT
                 ![b].status = "REVERSED",
                 ![c] = NewBill("POSTED", t, bill[b].due, bill[b].acct)]
<1>0. LedgerInv /\ AllocInv /\ bill \in [Bills -> Bill] /\ Restores(RestoreAll(b))
  BY RestoreAllRestores DEF FundsInv, LedgerInv, TypeOK
<1>1. b # c /\ bill[c].status = "NONE"
  BY DEF ReplaceBill, Correctable, Payable
<1>2. posted \in [Bills -> Bill]
  <2>1. old \in [Bills -> Bill]
    BY <1>0 DEF Bill, Statuses
  <2>2. bill[b].due \in BOOLEAN /\ bill[b].acct \in Accts /\ t \in Int
    BY <1>0, BoundsAssumption DEF Bill
  <2> QED BY <2>1, <2>2, NewBillInTable DEF Statuses
<1>3. /\ posted[b].status = "REVERSED" /\ posted[c].status = "POSTED"
      /\ \A d \in Bills \ {b, c} : posted[d] = bill[d]
  BY <1>0, <1>1 DEF NewBill, Bill
<1>4. \/ ApplyForPostedDebt(posted, RestoreAll(b))
      \/ bill' = posted /\ restored' = RestoreAll(b) /\ UNCHANGED <<pay, applied>>
  BY DEF ReplaceBill
<1> HIDE DEF posted
<1>5. Honest("POSTED", posted[c].total, Paid(c))
  BY <1>1, NewBillIsHonest
<1>6. \A d \in Bills \ {b} : Honest(posted[d].status, posted[d].total, Paid(d))
  BY <1>3, <1>5 DEF FundsInv, HonestBills
<1>7. HonestOver(posted, RestoreAll(b))
  BY <1>2, <1>3, <1>6, ReversedIsHonest
<1>8. CASE ApplyForPostedDebt(posted, RestoreAll(b))
  BY <1>0, <1>2, <1>7, <1>8, ApplyKeepsHonest
<1>9. CASE bill' = posted /\ restored' = RestoreAll(b) /\ UNCHANGED <<pay, applied>>
  BY <1>7, <1>9 DEF HonestOver, HonestBills, Paid
<1> QED BY <1>4, <1>8, <1>9

(* The scan raises only a bill with principal left: it stays short of its  *)
(* total.                                                                  *)
LEMMA AccrueKeepsHonest ==
  ASSUME FundsInv, NEW pen \in [Bills -> 0 .. MaxPenalty], AccruePenalty(pen)
  PROVE  HonestBills'
<1> SUFFICES ASSUME NEW b \in Bills
             PROVE  Honest(bill'[b].status, bill'[b].total, Paid(b))
  BY BillsOnly DEF AccruePenalty, HonestOver, Paid
<1>1. Honest(bill[b].status, bill[b].total, Paid(b)) /\ Paid(b) \in Nat
  BY PaidNat DEF FundsInv, HonestBills
<1>2. bill[b] \in Bill /\ bill[b].total \in Int /\ bill[b].penalty \in Nat
  BY DEF FundsInv, LedgerInv, TypeOK, Bill
<1>3. /\ bill'[b].status = bill[b].status
      /\ bill'[b].total = bill[b].total + pen[b] - bill[b].penalty
  BY <1>2 DEF AccruePenalty, Accrue, Bill
<1>4. pen[b] \in Nat
  BY BoundsAssumption
<1>5. CASE Accruable(b)
  <2>1. bill[b].total - bill[b].penalty - Paid(b) > 0
    BY <1>5 DEF Accruable, Principal
  <2>2. bill'[b].status \in Payable
    BY <1>3, <1>5 DEF Accruable
  <2>3. Paid(b) < bill'[b].total
    BY <1>1, <1>2, <1>3, <1>4, <2>1
  <2> QED BY <1>1, <1>3, <2>2, <2>3 DEF Honest, Payable
<1>6. CASE ~ Accruable(b)
  <2>1. pen[b] = bill[b].penalty
    BY <1>6 DEF AccruePenalty
  <2> QED BY <1>1, <1>2, <1>3, <2>1
<1> QED BY <1>5, <1>6

LEMMA PayBillsKeepsHonest ==
  ASSUME FundsInv, TypeOK', NEW a \in [Bills -> 0 .. MaxAmount], PayBills(a)
  PROVE  AllocInv' /\ HonestBills'
<1> DEFINE row == [amount |-> SumTo(a, NumBills), alloc |-> a,
                   lot |-> NoEntries, reverses |-> 0]
<1>0. LedgerInv /\ AllocInv /\ TypeOK /\ LedgerRows
  BY DEF FundsInv, LedgerInv
<1>1. /\ Receive(row) /\ UNCHANGED <<applied, restored>>
      /\ row.alloc = a /\ row.reverses = 0
  BY DEF PayBills
<1>2. \A b \in Bills : a[b] \in Nat
  BY BoundsAssumption
<1> HIDE DEF row
<1>3. AllocInv'
  BY <1>0, <1>1, <1>2, ReceiveKeepsAllocs
<1>4. ASSUME NEW b \in Bills
      PROVE  Honest(bill'[b].status, bill'[b].total, Paid(b)')
  <2>1. Paid(b)' = Paid(b) + a[b]
    BY <1>0, <1>1, PaidAfterReceive
  <2>2. /\ Honest(bill[b].status, bill[b].total, Paid(b)) /\ Paid(b) \in Nat
        /\ bill[b] \in Bill /\ bill[b].total \in Int /\ a[b] \in Nat
    BY <1>0, <1>2, PaidNat DEF FundsInv, HonestBills, Bill
  <2>3. CASE a[b] > 0
    <3>1. /\ bill'[b].total = bill[b].total
          /\ bill'[b].status = IF Paid(b) + a[b] >= bill[b].total
                               THEN "PAID" ELSE "PARTIAL_PAID"
      BY <2>2, <2>3 DEF PayBills, Bill
    <3>2. a[b] <= bill[b].total - Paid(b)
      BY <2>3 DEF PayBills, Fits
    <3> QED BY <2>1, <2>2, <2>3, <3>1, <3>2 DEF Honest
  <2>4. CASE ~ (a[b] > 0)
    <3>1. bill'[b] = bill[b] /\ Paid(b)' = Paid(b)
      BY <2>1, <2>2, <2>4 DEF PayBills
    <3> QED BY <2>2, <3>1
  <2> QED BY <2>3, <2>4
<1> QED BY <1>3, <1>4 DEF HonestBills

LEMMA TopUpKeepsHonest ==
  ASSUME FundsInv, TypeOK', NEW amount \in Amounts, TopUp(amount)
  PROVE  AllocInv' /\ HonestBills'
<1> DEFINE debt == Debt(bill, PaidNow)
           a    == [b \in Bills |-> Served(debt, b, amount)]
           rest == amount - SumTo(a, NumBills)
           row  == [amount |-> amount, alloc |-> a,
                    lot |-> [NoEntries EXCEPT ![made + 1] = rest],
                    reverses |-> 0]
<1>0. LedgerInv /\ AllocInv /\ TypeOK /\ LedgerRows /\ amount \in Nat
  BY BoundsAssumption DEF FundsInv, LedgerInv, Amounts
<1>1. /\ Receive(row) /\ UNCHANGED <<applied, restored>>
      /\ row.alloc = a /\ row.reverses = 0
  BY DEF TopUp
<1>2. \A b \in 1 .. NumBills :
         debt[b] \in Nat /\ debt[b] = IF bill[b].status \in Payable /\ bill[b].total > Paid(b)
                                     THEN bill[b].total - Paid(b) ELSE 0
  <2> SUFFICES ASSUME NEW b \in Bills
               PROVE  debt[b] \in Nat
                      /\ debt[b] = IF bill[b].status \in Payable /\ bill[b].total > Paid(b)
                                   THEN bill[b].total - Paid(b) ELSE 0
    BY DEF Bills
  <2>1. bill[b].total \in Int /\ Paid(b) \in Nat
    BY <1>0, PaidNat DEF Bill
  <2> QED BY <2>1 DEF Debt, PaidNow
<1>3. \A b \in Bills : a[b] \in Nat /\ a[b] <= debt[b]
  <2>1. \A b \in 1 .. NumBills : debt[b] \in Nat
    BY <1>2
  <2> HIDE DEF debt
  <2> QED BY <1>0, <2>1, ServedBounds, BoundsAssumption DEF Bills
<1>4. \A b \in Bills :
         bill'[b] = IF a[b] > 0
                    THEN [bill[b] EXCEPT !.status =
                            StatusFor(bill[b].total, Paid(b) + a[b])]
                    ELSE bill[b]
  BY DEF TopUp
<1> HIDE DEF row, rest, a, debt
<1>5. AllocInv'
  BY <1>0, <1>1, <1>3, ReceiveKeepsAllocs
<1>6. ASSUME NEW b \in Bills
      PROVE  Honest(bill'[b].status, bill'[b].total, Paid(b)')
  <2>1. Paid(b)' = Paid(b) + a[b]
    BY <1>0, <1>1, PaidAfterReceive
  <2>2. /\ Honest(bill[b].status, bill[b].total, Paid(b)) /\ Paid(b) \in Nat
        /\ bill[b] \in Bill /\ bill[b].total \in Int
        /\ a[b] \in Nat /\ a[b] <= debt[b]
    BY <1>0, <1>3, PaidNat DEF FundsInv, HonestBills, Bill
  <2>3. debt[b] \in Nat /\ debt[b] = IF bill[b].status \in Payable /\ bill[b].total > Paid(b)
                                    THEN bill[b].total - Paid(b) ELSE 0
    BY <1>2 DEF Bills
  <2>4. CASE a[b] > 0
    <3>1. /\ bill'[b].total = bill[b].total
          /\ bill'[b].status = StatusFor(bill[b].total, Paid(b) + a[b])
      BY <1>4, <2>2, <2>4 DEF Bill
    <3>2. Paid(b) + a[b] \in Int /\ 0 <= Paid(b) + a[b] /\ Paid(b) + a[b] <= bill[b].total
      BY <2>2, <2>3, <2>4
    <3>3. Honest(StatusFor(bill[b].total, Paid(b) + a[b]), bill[b].total, Paid(b) + a[b])
      BY <2>2, <3>2, StatusForHonest
    <3> QED BY <2>1, <3>1, <3>3
  <2>5. CASE ~ (a[b] > 0)
    <3>1. bill'[b] = bill[b]
      BY <1>4, <2>5
    <3>2. a[b] = 0
      BY <2>2, <2>5
    <3>3. Paid(b)' = Paid(b)
      BY <2>1, <2>2, <3>2
    <3> QED BY <2>2, <3>1, <3>3
  <2> QED BY <2>4, <2>5
<1> QED BY <1>5, <1>6 DEF HonestBills

LEMMA RefundKeepsHonest ==
  ASSUME FundsInv, TypeOK', NEW amount \in Amounts, Refund(amount)
  PROVE  AllocInv' /\ HonestBills'
<1> DEFINE rem == [l \in Lots |-> Remaining(l)]
           row == [amount |-> -amount, alloc |-> NoAllocs,
                   lot |-> [l \in Lots |-> -Served(rem, l, amount)],
                   reverses |-> 0]
<1>0. LedgerInv /\ AllocInv /\ TypeOK /\ LedgerRows
  BY DEF FundsInv, LedgerInv
<1>1. /\ Receive(row) /\ UNCHANGED <<bill, applied, restored>>
      /\ row.reverses = 0 /\ \A b \in Bills : row.alloc[b] = 0
  BY DEF Refund, NoAllocs
<1> HIDE DEF row
<1>2. AllocInv'
  BY <1>0, <1>1, ReceiveKeepsAllocs
<1>3. \A b \in Bills : Paid(b)' = Paid(b)
  BY <1>0, <1>1, PaidAfterReceive
<1> QED BY <1>1, <1>2, <1>3 DEF FundsInv, HonestBills

(* What a live payment gave is on the bill: taking it back leaves between  *)
(* nothing and what was there.                                             *)
LEMMA ReversePaymentKeepsHonest ==
  ASSUME FundsInv, TypeOK', NEW p \in Payments, ReversePayment(p)
  PROVE  AllocInv' /\ HonestBills'
<1>0. /\ LedgerInv /\ AllocInv /\ TypeOK /\ LedgerRows /\ Live(p)
      /\ Receive(Mirror(p)) /\ UNCHANGED <<applied, restored>>
  BY DEF FundsInv, LedgerInv, ReversePayment, Live
<1>1. AllocInv'
  BY <1>0, ReversalKeepsAllocs
<1>2. ASSUME NEW b \in Bills
      PROVE  Honest(bill'[b].status, bill'[b].total, Paid(b)')
  <2> DEFINE x == pay[p].alloc[b]
  <2>1. Paid(b)' = Paid(b) + Mirror(p).alloc[b]
    BY <1>0, PaidAfterReceive
  <2>2. Mirror(p).alloc[b] = -x
    BY DEF Mirror
  <2>3. /\ Honest(bill[b].status, bill[b].total, Paid(b)) /\ Paid(b) \in Nat
        /\ bill[b] \in Bill /\ bill[b].total \in Int /\ bill[b].status \in Statuses
        /\ x \in Int /\ 0 <= x /\ x <= Paid(b)
    BY <1>0, PaidNat DEF FundsInv, HonestBills, Bill, TypeOK, Payment
  <2>4. /\ bill'[b] = IF x # 0 /\ bill[b].status \in Recomputed
                      THEN [bill[b] EXCEPT !.status =
                              StatusAfterReversal(bill[b].total, Paid(b) - x)]
                      ELSE bill[b]
    BY DEF ReversePayment
  <2> HIDE DEF x
  <2>5. Paid(b)' = Paid(b) - x
    BY <2>1, <2>2, <2>3
  <2>6. CASE x # 0 /\ bill[b].status \in Recomputed
    <3>1. /\ bill'[b].total = bill[b].total
          /\ bill'[b].status = StatusAfterReversal(bill[b].total, Paid(b) - x)
      BY <2>3, <2>4, <2>6 DEF Bill
    <3>2. Paid(b) <= bill[b].total
      BY <2>3, <2>6 DEF Honest, Recomputed
    <3>3. Honest(StatusAfterReversal(bill[b].total, Paid(b) - x), bill[b].total, Paid(b) - x)
      BY <2>3, <3>2 DEF Honest, StatusAfterReversal, StatusFor
    <3> QED BY <2>5, <3>1, <3>3
  <2>7. CASE x = 0
    BY <2>3, <2>4, <2>5, <2>7
  <2>8. CASE x # 0 /\ bill[b].status \notin Recomputed
    <3>1. bill[b].status = "REVERSED"
      BY <2>3, <2>8 DEF Honest, Recomputed, Statuses
    <3>2. bill'[b] = bill[b]
      BY <2>4, <2>8
    <3> QED BY <2>3, <2>5, <3>1, <3>2 DEF Honest
  <2> QED BY <2>6, <2>7, <2>8
<1> QED BY <1>1, <1>2 DEF HonestBills

LEMMA FundsInit == Init => FundsInv
<1> SUFFICES ASSUME Init PROVE FundsInv
  OBVIOUS
<1>0. LedgerInv /\ TypeOK
  BY LedgerInit DEF LedgerInv
<1>1. \A p \in Payments : pay[p].reverses = 0 /\ \A b \in Bills : pay[p].alloc[b] = 0
  BY DEF Init, NoPayment, NoAllocs
<1>2. ASSUME NEW b \in Bills PROVE AllocSum(b) = 0 /\ LiveSum(b) = 0
  <2> DEFINE f == [p \in Payments |-> pay[p].alloc[b]]
             g == [p \in Payments |-> IF Live(p) THEN pay[p].alloc[b] ELSE 0]
  <2>1. \A p \in 1 .. NumPayments : f[p] = 0 /\ g[p] = 0
    BY <1>1 DEF Payments
  <2> HIDE DEF f, g
  <2>2. SumTo(f, NumPayments) = 0 /\ SumTo(g, NumPayments) = 0
    BY <2>1, SumZeros, BoundsAssumption
  <2> QED BY <2>2 DEF f, g, AllocSum, LiveSum
<1>3. AllocInv
  BY <1>1, <1>2 DEF AllocInv, Init
<1>4. ASSUME NEW b \in Bills PROVE Paid(b) = 0
  <2> DEFINE g == [l \in Lots |-> applied[b][l] - restored[b][l]]
  <2>1. \A l \in 1 .. NumPayments : g[l] = 0
    BY DEF Init, NoEntries, Lots, Payments
  <2> HIDE DEF g
  <2>2. SumTo(g, NumPayments) = 0
    BY <2>1, SumZeros, BoundsAssumption
  <2>3. Paid(b) = AllocSum(b) + SumTo(g, NumPayments)
    BY DEF g, Paid, PaidOf, AllocSum
  <2> QED BY <1>2, <2>2, <2>3
<1>5. HonestBills
  BY <1>4 DEF HonestBills, Honest, Init
<1> QED BY <1>0, <1>3, <1>5 DEF FundsInv

LEMMA FundsStep == FundsInv /\ [Next]_vars => FundsInv'
<1> SUFFICES ASSUME FundsInv, [Next]_vars PROVE AllocInv' /\ HonestBills'
  BY LedgerStep DEF FundsInv
<1>0. TypeOK' /\ LedgerInv /\ AllocInv /\ bill \in [Bills -> Bill]
  BY LedgerStep DEF FundsInv, LedgerInv, TypeOK
<1>1. ASSUME BillStep PROVE AllocInv' /\ HonestBills'
  <2>1. UNCHANGED <<made, pay>>
    BY ZenonT(60), <1>1 DEF BillStep, GenerateBill, DiscardBill, PostBill, Adjust, ReverseBill,
                ReplaceBill, ApplyForPostedDebt
  <2>2. AllocInv'
    BY <1>0, <2>1, UntouchedAllocs
  <2>3. ASSUME NEW b \in Bills, NEW t \in 0 .. MaxAmount, NEW a \in Accts,
               GenerateBill(b, t, a)
        PROVE  HonestBills'
    <3>1. /\ bill[b].status = "NONE" /\ bill'[b].status = "DRAFT"
          /\ \A c \in Bills \ {b} : bill'[c] = bill[c]
          /\ UNCHANGED <<pay, applied, restored>>
      BY <1>0, <2>3 DEF GenerateBill, NewBill
    <3>2. Honest("DRAFT", bill'[b].total, Paid(b))
      BY <3>1, NewBillIsHonest
    <3>3. HonestOver(bill', restored)
      BY <3>1, <3>2 DEF HonestOver, Paid, FundsInv, HonestBills
    <3> QED BY <3>1, <3>3, BillsOnly
  <2>4. ASSUME NEW b \in Bills, DiscardBill(b) PROVE HonestBills'
    <3>1. /\ bill[b].status = "DRAFT" /\ bill'[b].status = "NONE"
          /\ \A c \in Bills \ {b} : bill'[c] = bill[c]
          /\ UNCHANGED <<pay, applied, restored>>
      BY <1>0, <2>4 DEF DiscardBill, NewBill
    <3>2. Honest("NONE", bill'[b].total, Paid(b))
      BY <3>1, NewBillIsHonest
    <3>3. HonestOver(bill', restored)
      BY <3>1, <3>2 DEF HonestOver, Paid, FundsInv, HonestBills
    <3> QED BY <3>1, <3>3, BillsOnly
  <2> QED BY <1>0, <1>1, <2>2, <2>3, <2>4, PostKeepsHonest, AdjustKeepsHonest,
             ReverseBillKeepsHonest, ReplaceKeepsHonest DEF BillStep
<1>2. ASSUME NEW pen \in [Bills -> 0 .. MaxPenalty], AccruePenalty(pen)
      PROVE  AllocInv' /\ HonestBills'
  BY <1>0, <1>2, AccrueKeepsHonest, UntouchedAllocs DEF AccruePenalty
<1>3. ASSUME NEW a \in [Bills -> 0 .. MaxAmount], PayBills(a)
      PROVE  AllocInv' /\ HonestBills'
  BY <1>0, <1>3, PayBillsKeepsHonest
<1>4. ASSUME NEW amount \in Amounts, TopUp(amount) PROVE AllocInv' /\ HonestBills'
  BY <1>0, <1>4, TopUpKeepsHonest
<1>5. ASSUME NEW amount \in Amounts, Refund(amount) PROVE AllocInv' /\ HonestBills'
  BY <1>0, <1>5, RefundKeepsHonest
<1>6. ASSUME NEW p \in Payments, ReversePayment(p) PROVE AllocInv' /\ HonestBills'
  BY <1>0, <1>6, ReversePaymentKeepsHonest
<1>7. ASSUME \/ \E a \in Accts : CloseAccount(a)
             \/ UNCHANGED vars
      PROVE  AllocInv' /\ HonestBills'
  <2>1. UNCHANGED <<bill, made, pay, applied, restored>>
    BY <1>7 DEF CloseAccount, vars
  <2> QED BY <1>0, <2>1, UntouchedAllocs DEF FundsInv, HonestBills, Paid
<1> QED BY <1>1, <1>2, <1>3, <1>4, <1>5, <1>6, <1>7 DEF Next

LEMMA FundsHold == Spec => []FundsInv
BY FundsInit, FundsStep, PTL DEF Spec

(* The stored status of every bill says what is allocated to it, after any *)
(* number of payments, applications, corrections, restores, penalty scans  *)
(* and reversals in any order.                                             *)
THEOREM StatusIsTrue == Spec => []StatusTellsPaid
<1>1. FundsInv => StatusTellsPaid
  BY DEF FundsInv, HonestBills, Honest, StatusTellsPaid
<1> QED BY <1>1, FundsHold, PTL

(* No bill is ever allocated less than nothing or more than it charges,    *)
(* whichever mix of cash and prepayment pays it.                           *)
THEOREM NoBillOverpaid == Spec => []NeverOverpaid
<1>1. FundsInv => NeverOverpaid
  <2> SUFFICES ASSUME FundsInv, NEW b \in Bills
               PROVE  /\ 0 <= Paid(b)
                      /\ bill[b].status \in Recomputed /\ bill[b].total > 0
                            => Paid(b) <= bill[b].total
    BY DEF NeverOverpaid
  <2>1. /\ Honest(bill[b].status, bill[b].total, Paid(b)) /\ Paid(b) \in Nat
        /\ bill[b].total \in Int
    BY PaidNat DEF FundsInv, HonestBills, Bill
  <2> QED BY <2>1 DEF Honest, Recomputed
<1> QED BY <1>1, FundsHold, PTL

(* The two balances a close reads leave nothing in the lots and, bill by   *)
(* bill, charge and allocation in balance; with conservation, the cash is  *)
(* what the standing bills charge.                                         *)
Charges == [b \in Bills |-> IF bill[b].status \in Recomputed \cup {"DRAFT"}
                            THEN bill[b].total ELSE 0]

LEMMA PortIsChargesLessPaid ==
  ASSUME FundsInv
  PROVE  PortOutstanding = SumTo(Charges, NumBills) - SumTo(PaidNow, NumBills)
<1> DEFINE port == [b \in Bills |->
                (IF bill[b].status \in {"DRAFT"} \cup Payable
                 THEN bill[b].total ELSE 0)
                - (IF bill[b].status \in {"DRAFT", "REVERSED"} \cup Payable
                   THEN Paid(b) ELSE 0)]
<1>1. ASSUME NEW b \in Bills
      PROVE  /\ port[b] \in Int /\ PaidNow[b] \in Int /\ Charges[b] \in Int
             /\ Charges[b] = port[b] + PaidNow[b]
  <2>1. /\ Honest(bill[b].status, bill[b].total, Paid(b)) /\ Paid(b) \in Nat
        /\ bill[b].total \in Int /\ bill[b].status \in Statuses
    BY PaidNat DEF FundsInv, HonestBills, Bill
  <2>2. PaidNow[b] = Paid(b)
    BY DEF PaidNow
  <2> QED BY <2>1, <2>2 DEF Honest, Statuses, Recomputed, Payable, Charges
<1>2. \A b \in 1 .. NumBills :
         /\ port[b] \in Int /\ PaidNow[b] \in Int /\ Charges[b] = port[b] + PaidNow[b]
  BY <1>1 DEF Bills
<1>3. PortOutstanding = SumTo(port, NumBills)
  BY DEF PortOutstanding
<1> HIDE DEF port
<1>4. SumTo(Charges, NumBills) = SumTo(port, NumBills) + SumTo(PaidNow, NumBills)
  BY <1>2, SumPlus, BoundsAssumption
<1>5. SumTo(port, NumBills) \in Int /\ SumTo(PaidNow, NumBills) \in Int
  BY <1>2, SumInt, BoundsAssumption
<1> QED BY <1>3, <1>4, <1>5

(* An account only closes when the cash taken, net of refunds, is exactly  *)
(* what the standing bills of its settle account charge.                   *)
THEOREM ClosesSquare == Spec => CloseIsSquare
<1> DEFINE cash == SumTo([p \in Payments |-> pay[p].amount], NumPayments)
<1>1. FundsInv /\ [Next]_vars => [closed' # closed => cash = SumTo(Charges, NumBills)]_vars
  <2> SUFFICES ASSUME FundsInv, Next, closed' # closed
               PROVE  cash = SumTo(Charges, NumBills)
    BY DEF vars
  <2>1. PICK a \in Accts : CloseAccount(a)
    BY DEF Next, BillStep, GenerateBill, DiscardBill, PostBill, Adjust, ReverseBill,
           ReplaceBill, ApplyForPostedDebt, AccruePenalty, PayBills, TopUp, Refund,
           ReversePayment
  <2>2. PortOutstanding = 0 /\ Balance = 0
    BY <2>1 DEF CloseAccount
  <2>3. cash = SumTo(PaidNow, NumBills) + Balance
    BY SoundRowsExplainCash DEF CashExplained, FundsInv, LedgerInv
  <2>4. SumTo(Charges, NumBills) \in Int /\ SumTo(PaidNow, NumBills) \in Int
    <3>1. \A b \in 1 .. NumBills : Charges[b] \in Int /\ PaidNow[b] \in Int
      BY PaidNat DEF FundsInv, Charges, PaidNow, Bill, Bills
    <3> QED BY <3>1, SumInt, BoundsAssumption
  <2> HIDE DEF cash
  <2> QED BY <2>2, <2>3, <2>4, PortIsChargesLessPaid
<1>2. (closed' # closed => cash = SumTo(Charges, NumBills))
        <=> (closed' # closed =>
              SumTo([p \in Payments |-> pay[p].amount], NumPayments)
                = SumTo([b \in Bills |-> IF bill[b].status \in Recomputed \cup {"DRAFT"}
                                         THEN bill[b].total ELSE 0], NumBills))
  BY DEF Charges
<1> HIDE DEF cash
<1> QED BY <1>1, <1>2, FundsHold, PTL DEF Spec, CloseIsSquare

-----------------------------------------------------------------------------
(* The life of a bill (BillLife).  Only Draft, Drop, Issue, the corrections *)
(* and nothing else may show: bl and bm are bill tables, and the bills of S *)
(* are those whose stage or charge may differ between them.                *)
SameLife(x, y) == StageOf(x.status) = StageOf(y.status) /\ x.total - x.penalty = y.total - y.penalty

LEMMA LivesStay ==
  ASSUME \A b \in Bills : SameLife(bill'[b], bill[b])
  PROVE  UNCHANGED Life!lifeVars
BY DEF SameLife, Life!lifeVars

LEMMA OthersKeepTheirLife ==
  ASSUME TypeOK', NEW c \in Bills, \A b \in Bills \ {c} : SameLife(bill'[b], bill[b])
  PROVE  /\ Life!Become({c}, StageOf(bill'[c].status)) /\ Life!Keep(Bills \ {c})
         /\ bill'[c].total - bill'[c].penalty = bill[c].total - bill[c].penalty
              => UNCHANGED [b \in Bills |-> bill[b].total - bill[b].penalty]
<1>1. \A b \in Bills : bill'[b].total - bill'[b].penalty \in Int
  BY DEF TypeOK, Bill
<1>2. Life!Become({c}, StageOf(bill'[c].status))
  BY DEF SameLife, Life!Become
<1>3. Life!Keep(Bills \ {c})
  BY <1>1 DEF SameLife, Life!Keep
<1> QED BY <1>2, <1>3 DEF SameLife

(* Applying prepayment to a table moves bills between STANDING statuses.   *)
LEMMA ApplyKeepsLife ==
  ASSUME NEW bl \in [Bills -> Bill], NEW re, ApplyForPostedDebt(bl, re)
  PROVE  \A b \in Bills : SameLife(bill'[b], bl[b])
<1>1. ASSUME NEW b \in Bills, NEW t, NEW p, bl[b].status \in Payable
      PROVE  SameLife([bl[b] EXCEPT !.status = StatusFor(t, p)], bl[b])
  BY <1>1 DEF SameLife, StageOf, StatusFor, Payable, Bill
<1>2. \A b \in Bills : SameLife(bl[b], bl[b])
  BY DEF SameLife
<1>3. CASE WalkQueue(bl, re)
  <2>1. \A b \in Bills :
           \/ bill'[b] = bl[b]
           \/ /\ bl[b].status \in Payable
              /\ bill'[b] = [bl[b] EXCEPT !.status =
                               StatusFor(bl[b].total, PaidOf(pay, applied', re, b))]
    BY <1>3 DEF WalkQueue
  <2> SUFFICES ASSUME NEW b \in Bills PROVE SameLife(bill'[b], bl[b])
    OBVIOUS
  <2>2. CASE bill'[b] = bl[b]
    BY <1>2, <2>2
  <2>3. CASE bill'[b] # bl[b]
    <3>1. bl[b].status \in Payable
      BY <2>1, <2>3
    <3>2. PICK t, p : bill'[b] = [bl[b] EXCEPT !.status = StatusFor(t, p)]
      BY <2>1, <2>3
    <3> QED BY <1>1, <3>1, <3>2
  <2> QED BY <2>2, <2>3
<1>4. CASE bill' = bl
  BY <1>2, <1>4
<1> QED BY <1>3, <1>4 DEF ApplyForPostedDebt

LEMMA SameLifeJoins ==
  ASSUME NEW x, NEW y, NEW z, SameLife(x, y), SameLife(y, z)
  PROVE  SameLife(x, z)
BY DEF SameLife

(* A row that only changes its status between the STANDING ones.           *)
LEMMA StandsOn ==
  ASSUME NEW x \in Bill, NEW s \in Recomputed, x.status \in Recomputed
  PROVE  SameLife([x EXCEPT !.status = s], x)
BY DEF SameLife, StageOf, Recomputed, Bill

(* Bills that stay or only change their status so keep their life.         *)
LEMMA AllStandOn ==
  ASSUME bill \in [Bills -> Bill],
         \A b \in Bills :
            \/ bill'[b] = bill[b]
            \/ /\ bill[b].status \in Recomputed
               /\ \E s \in Recomputed : bill'[b] = [bill[b] EXCEPT !.status = s]
  PROVE  \A b \in Bills : SameLife(bill'[b], bill[b])
<1> SUFFICES ASSUME NEW b \in Bills PROVE SameLife(bill'[b], bill[b])
  OBVIOUS
<1>1. CASE bill'[b] = bill[b]
  BY <1>1 DEF SameLife
<1>2. CASE /\ bill[b].status \in Recomputed
           /\ \E s \in Recomputed : bill'[b] = [bill[b] EXCEPT !.status = s]
  <2>1. PICK s \in Recomputed : bill'[b] = [bill[b] EXCEPT !.status = s]
    BY <1>2
  <2>2. bill[b] \in Bill
    OBVIOUS
  <2>3. SameLife([bill[b] EXCEPT !.status = s], bill[b])
    BY <1>2, <2>2, StandsOn
  <2> QED BY <2>1, <2>3
<1> QED BY <1>1, <1>2

LEMMA StandingStage ==
  ASSUME NEW x, NEW y, SameLife(x, y), y.status \in Recomputed
  PROVE  StageOf(x.status) = "STANDING"
BY DEF SameLife, StageOf, Recomputed

LEMMA BillsStep ==
  ASSUME TypeOK, TypeOK', BillStep
  PROVE  Life!LifeNext
<1>0. bill \in [Bills -> Bill] /\ bill' \in [Bills -> Bill]
  BY DEF TypeOK
<1>1. ASSUME NEW b \in Bills, NEW t \in 0 .. MaxAmount, NEW a \in Accts, GenerateBill(b, t, a)
      PROVE  Life!LifeNext
  <2>1. /\ StageOf(bill[b].status) = "NONE" /\ StageOf(bill'[b].status) = "DRAFT"
        /\ \A c \in Bills \ {b} : SameLife(bill'[c], bill[c])
    BY <1>0, <1>1 DEF GenerateBill, NewBill, StageOf, SameLife
  <2>2. Life!Draft({b})
    BY <2>1, OthersKeepTheirLife DEF Life!Draft
  <2> QED BY <2>2 DEF Life!LifeNext
<1>2. ASSUME NEW b \in Bills, DiscardBill(b) PROVE Life!LifeNext
  <2>1. /\ StageOf(bill[b].status) = "DRAFT" /\ StageOf(bill'[b].status) = "NONE"
        /\ \A c \in Bills \ {b} : SameLife(bill'[c], bill[c])
    BY <1>0, <1>2 DEF DiscardBill, NewBill, StageOf, SameLife
  <2>2. Life!Drop({b})
    BY <2>1, OthersKeepTheirLife DEF Life!Drop
  <2> QED BY <2>2 DEF Life!LifeNext
<1>3. ASSUME NEW b \in Bills, PostBill(b) PROVE Life!LifeNext
  <2> DEFINE posted == [bill EXCEPT ![b].status = "POSTED"]
  <2>1. /\ posted \in [Bills -> Bill] /\ posted[b].status \in Recomputed
        /\ posted[b].total = bill[b].total /\ posted[b].penalty = bill[b].penalty
        /\ StageOf(bill[b].status) = "DRAFT"
        /\ \A c \in Bills \ {b} : SameLife(posted[c], bill[c])
    BY <1>0, <1>3 DEF PostBill, StageOf, SameLife, Bill, Statuses, Recomputed
  <2>2. ApplyForPostedDebt(posted, restored)
    BY <1>3 DEF PostBill
  <2> HIDE DEF posted
  <2>3. \A c \in Bills : SameLife(bill'[c], posted[c])
    BY <2>1, <2>2, ApplyKeepsLife
  <2>4. /\ \A c \in Bills \ {b} : SameLife(bill'[c], bill[c])
        /\ StageOf(bill'[b].status) = "STANDING"
        /\ bill'[b].total - bill'[b].penalty = bill[b].total - bill[b].penalty
    BY <2>1, <2>3, SameLifeJoins, StandingStage DEF SameLife
  <2>5. Life!Issue(b)
    BY <2>1, <2>4, OthersKeepTheirLife DEF Life!Issue
  <2> QED BY <2>5 DEF Life!LifeNext
<1>4. ASSUME NEW b \in Bills, NEW t \in -MaxAmount .. MaxAmount, NEW a \in Accts,
             Adjust(b, t, a)
      PROVE  Life!LifeNext
  <2> DEFINE posted == [bill EXCEPT ![b] = NewBill("POSTED", t, FALSE, a)]
  <2>1. /\ posted \in [Bills -> Bill] /\ posted[b].status \in Recomputed
        /\ StageOf(bill[b].status) = "NONE"
        /\ \A c \in Bills \ {b} : SameLife(posted[c], bill[c])
    <3>1. t \in Int
      BY BoundsAssumption
    <3>2. posted \in [Bills -> Bill]
      BY <1>0, <3>1, NewBillInTable DEF Statuses
    <3> QED BY <1>0, <1>4, <3>2 DEF Adjust, NewBill, StageOf, SameLife, Recomputed
  <2>2. PICK c \in Bills : StageOf(bill[c].status) = "STANDING"
    BY <1>4 DEF Adjust, Standing, StageOf, Recomputed
  <2>3. bill' = posted \/ ApplyForPostedDebt(posted, restored)
    BY <1>4 DEF Adjust
  <2> HIDE DEF posted
  <2>4. \A d \in Bills : SameLife(bill'[d], posted[d])
    BY <2>1, <2>3, ApplyKeepsLife DEF SameLife
  <2>5. /\ \A d \in Bills \ {b} : SameLife(bill'[d], bill[d])
        /\ StageOf(bill'[b].status) = "STANDING"
    BY <2>1, <2>4, SameLifeJoins, StandingStage
  <2>6. Life!Adjust(b)
    BY <2>1, <2>2, <2>5, OthersKeepTheirLife DEF Life!Adjust
  <2> QED BY <2>6 DEF Life!LifeNext
<1>5. \A b \in Bills : Correctable(b) => StageOf(bill[b].status) = "STANDING"
  BY DEF Correctable, StageOf, Payable
<1>6. ASSUME NEW b \in Bills, ReverseBill(b) PROVE Life!LifeNext
  <2>1. /\ StageOf(bill'[b].status) = "REVERSED"
        /\ bill'[b].total = bill[b].total /\ bill'[b].penalty = bill[b].penalty
        /\ \A c \in Bills \ {b} : SameLife(bill'[c], bill[c])
    BY <1>0, <1>6 DEF ReverseBill, StageOf, SameLife, Bill
  <2>2. StageOf(bill[b].status) = "STANDING"
    BY <1>5, <1>6 DEF ReverseBill
  <2>3. Life!Reverse(b)
    BY <2>1, <2>2, OthersKeepTheirLife DEF Life!Reverse
  <2> QED BY <2>3 DEF Life!LifeNext
<1>7. ASSUME NEW b \in Bills, NEW c \in Bills, NEW t \in 0 .. MaxAmount, ReplaceBill(b, c, t)
      PROVE  Life!LifeNext
  <2> DEFINE posted == [bill EXCEPT ![b].status = "REVERSED",
                                    ![c] = NewBill("POSTED", t, bill[b].due, bill[b].acct)]
  <2>1. /\ StageOf(bill[b].status) = "STANDING" /\ StageOf(bill[c].status) = "NONE"
        /\ b # c
    BY <1>5, <1>7 DEF ReplaceBill, StageOf
  <2>2. /\ posted \in [Bills -> Bill] /\ posted[c].status \in Recomputed
        /\ posted[b].status = "REVERSED"
        /\ posted[b].total = bill[b].total /\ posted[b].penalty = bill[b].penalty
        /\ \A d \in Bills \ {b, c} : SameLife(posted[d], bill[d])
    <3> DEFINE once == [bill EXCEPT ![b].status = "REVERSED"]
    <3>1. once \in [Bills -> Bill] /\ once[b].status = "REVERSED"
          /\ once[b].total = bill[b].total /\ once[b].penalty = bill[b].penalty
          /\ \A d \in Bills \ {b} : once[d] = bill[d]
      BY <1>0 DEF Bill, Statuses
    <3>2. posted = [once EXCEPT ![c] = NewBill("POSTED", t, bill[b].due, bill[b].acct)]
      OBVIOUS
    <3>3. t \in Int /\ bill[b].due \in BOOLEAN /\ bill[b].acct \in Accts
      BY <1>0, BoundsAssumption DEF Bill
    <3> HIDE DEF once, posted
    <3>4. posted \in [Bills -> Bill]
      BY <3>1, <3>2, <3>3, NewBillInTable DEF Statuses
    <3> QED BY <2>1, <3>1, <3>2, <3>4 DEF NewBill, SameLife, Recomputed
  <2>3. bill' = posted \/ ApplyForPostedDebt(posted, RestoreAll(b))
    BY <1>7 DEF ReplaceBill
  <2> HIDE DEF posted
  <2>4. \A d \in Bills : SameLife(bill'[d], posted[d])
    BY <2>2, <2>3, ApplyKeepsLife DEF SameLife
  <2>5. /\ \A d \in Bills \ {b, c} : SameLife(bill'[d], bill[d])
        /\ StageOf(bill'[c].status) = "STANDING" /\ StageOf(bill'[b].status) = "REVERSED"
        /\ bill'[b].total - bill'[b].penalty = bill[b].total - bill[b].penalty
    <3>1. SameLife(bill'[b], posted[b])
      BY <2>4
    <3>2. StageOf("REVERSED") = "REVERSED"
      BY DEF StageOf
    <3> QED BY <2>2, <2>4, <3>1, <3>2, SameLifeJoins, StandingStage DEF SameLife
  <2>6. \A d \in Bills : bill'[d].total - bill'[d].penalty \in Int
    BY <1>0 DEF Bill
  <2>7. Life!Replace(b, c)
    BY <2>1, <2>5, <2>6 DEF Life!Replace, Life!Keep, SameLife
  <2> QED BY <2>7 DEF Life!LifeNext
<1> QED BY <1>1, <1>2, <1>3, <1>4, <1>6, <1>7 DEF BillStep

(* Money and penalties leave every bill its stage and its charge.          *)
LEMMA MoneyKeepsLives ==
  ASSUME TypeOK, [Next]_vars, ~ BillStep
  PROVE  UNCHANGED Life!lifeVars
<1>0. /\ bill \in [Bills -> Bill] /\ \A b \in Bills : SameLife(bill[b], bill[b])
      /\ Payable \subseteq Recomputed
  BY DEF TypeOK, SameLife, Payable, Recomputed
<1>1. ASSUME NEW pen \in [Bills -> 0 .. MaxPenalty], AccruePenalty(pen)
      PROVE  \A b \in Bills : SameLife(bill'[b], bill[b])
  <2> SUFFICES ASSUME NEW b \in Bills PROVE SameLife(bill'[b], bill[b])
    OBVIOUS
  <2>1. pen[b] \in Int /\ bill[b] \in Bill
    BY <1>0, BoundsAssumption
  <2>2. bill'[b] = [bill[b] EXCEPT !.total = @ + pen[b] - bill[b].penalty, !.penalty = pen[b]]
    BY <1>1 DEF AccruePenalty, Accrue
  <2>3. /\ bill'[b].status = bill[b].status /\ bill'[b].penalty = pen[b]
        /\ bill'[b].total = bill[b].total + pen[b] - bill[b].penalty
    BY <2>1, <2>2 DEF Bill
  <2>4. bill[b].total \in Int /\ bill[b].penalty \in Int
    BY <2>1 DEF Bill
  <2> QED BY <2>1, <2>3, <2>4 DEF SameLife
<1>2. ASSUME NEW a \in [Bills -> 0 .. MaxAmount], PayBills(a)
      PROVE  \A b \in Bills : SameLife(bill'[b], bill[b])
  <2>1. ASSUME NEW b \in Bills
        PROVE  \/ bill'[b] = bill[b]
               \/ /\ bill[b].status \in Recomputed
                  /\ \E s \in Recomputed : bill'[b] = [bill[b] EXCEPT !.status = s]
    BY <1>0, <1>2 DEF PayBills, Fits, Recomputed
  <2> QED BY <1>0, <2>1, AllStandOn
<1>3. ASSUME NEW amount \in Amounts, TopUp(amount)
      PROVE  \A b \in Bills : SameLife(bill'[b], bill[b])
  <2> DEFINE debt == Debt(bill, PaidNow)
             a == [b \in Bills |-> Served(debt, b, amount)]
  <2>0. debt \in [Bills -> Nat]
    <3>1. \A b \in Bills : PaidNow[b] \in Int
      BY PaidOfInt DEF PaidNow, Paid, TypeOK, Payrolls, Entries
    <3> QED BY <1>0, <3>1, DebtNat
  <2>1. \A b \in Bills : a[b] > 0 => bill[b].status \in Payable
    <3>1. \A b \in Bills : debt[b] > 0 => bill[b].status \in Payable
      BY DEF Debt
    <3> HIDE DEF debt
    <3>2. amount \in Nat /\ \A i \in 1 .. NumBills : debt[i] \in Nat
      BY <2>0, BoundsAssumption DEF Amounts, Bills
    <3>3. \A b \in Bills : a[b] \in Nat /\ a[b] <= debt[b]
      BY <3>2, ServedBounds, BoundsAssumption DEF Bills
    <3> HIDE DEF a
    <3> QED BY <2>0, <3>1, <3>3
  <2>2. ASSUME NEW b \in Bills
        PROVE  \/ bill'[b] = bill[b]
               \/ /\ a[b] > 0
                  /\ bill'[b] = [bill[b] EXCEPT !.status =
                                   StatusFor(bill[b].total, Paid(b) + a[b])]
    BY <1>3 DEF TopUp
  <2>3. \A t, p : StatusFor(t, p) \in Recomputed
    BY DEF StatusFor, Recomputed
  <2> HIDE DEF a, debt
  <2>4. ASSUME NEW b \in Bills
        PROVE  \/ bill'[b] = bill[b]
               \/ /\ bill[b].status \in Recomputed
                  /\ \E s \in Recomputed : bill'[b] = [bill[b] EXCEPT !.status = s]
    BY <1>0, <2>1, <2>2, <2>3
  <2> QED BY <1>0, <2>4, AllStandOn
<1>4. ASSUME NEW p \in Payments, ReversePayment(p)
      PROVE  \A b \in Bills : SameLife(bill'[b], bill[b])
  <2>1. \A t, q : StatusAfterReversal(t, q) \in Recomputed
    BY DEF StatusAfterReversal, StatusFor, Recomputed
  <2>2. ASSUME NEW b \in Bills
        PROVE  \/ bill'[b] = bill[b]
               \/ /\ bill[b].status \in Recomputed
                  /\ \E s \in Recomputed : bill'[b] = [bill[b] EXCEPT !.status = s]
    BY <1>4, <2>1 DEF ReversePayment
  <2> QED BY <1>0, <2>2, AllStandOn
<1>5. UNCHANGED vars \/ (\E amount \in Amounts : Refund(amount))
        \/ (\E a \in Accts : CloseAccount(a)) => UNCHANGED bill
  BY DEF vars, Refund, CloseAccount
<1>6. UNCHANGED bill => \A b \in Bills : SameLife(bill'[b], bill[b])
  BY <1>0
<1>7. \A b \in Bills : SameLife(bill'[b], bill[b])
  BY <1>1, <1>2, <1>3, <1>4, <1>5, <1>6 DEF Next
<1> QED BY <1>7, LivesStay

(* The bills of a settle account implement BillLife, whatever is paid,     *)
(* topped up, applied, refunded, accrued or undone in between: no payment  *)
(* brings a reversed bill back, no penalty changes what it charges.        *)
THEOREM BillsLive == Spec => BillsKeepTheirLife
<1>1. Init => Life!LifeInit
  BY DEF Init, Life!LifeInit, StageOf
<1>2. TypeOK /\ TypeOK' /\ [Next]_vars => [Life!LifeNext]_Life!lifeVars
  BY BillsStep, MoneyKeepsLives
<1> QED BY <1>1, <1>2, TypeCorrect, PTL DEF Spec, BillsKeepTheirLife, Life!LifeSpec
-----------------------------------------------------------------------------
(* The drawers.  The money moves as in Next and the payments made stay, so *)
(* a signed close can only differ from its members if the close itself     *)
(* names others than it summed.                                            *)
LEMMA PaymentsStay ==
  ASSUME TypeOK, [Next]_vars
  PROVE  /\ made \in Nat /\ made' \in Nat /\ made <= made'
         /\ made' = made \/ (made' = made + 1 /\ made' \in Payments)
         /\ \A p \in 1 .. made : p \in Payments /\ pay'[p] = pay[p]
<1>0. made \in Nat /\ made <= NumPayments /\ NumPayments \in Nat
  BY BoundsAssumption DEF TypeOK
<1>1. ASSUME NEW row, Receive(row)
      PROVE  /\ made' = made + 1 /\ made' \in Payments
             /\ \A p \in 1 .. made : p \in Payments /\ pay'[p] = pay[p]
  BY <1>0, <1>1 DEF Receive, TypeOK, Payments
<1>2. UNCHANGED <<made, pay>> \/ \E row : Receive(row)
  <2>1. CASE BillStep
    BY ZenonT(60), <2>1 DEF BillStep, GenerateBill, DiscardBill, PostBill, Adjust, ReverseBill,
                ReplaceBill, ApplyForPostedDebt
  <2>2. CASE \E pen \in [Bills -> 0 .. MaxPenalty] : AccruePenalty(pen)
    BY <2>2 DEF AccruePenalty
  <2>3. CASE \E a \in [Bills -> 0 .. MaxAmount] : PayBills(a)
    BY <2>3 DEF PayBills
  <2>4. CASE \E amount \in Amounts : TopUp(amount) \/ Refund(amount)
    BY <2>4 DEF TopUp, Refund
  <2>5. CASE \E p \in Payments : ReversePayment(p)
    BY <2>5 DEF ReversePayment
  <2>6. CASE (\E a \in Accts : CloseAccount(a)) \/ UNCHANGED vars
    BY <2>6 DEF CloseAccount, vars
  <2> QED BY <2>1, <2>2, <2>3, <2>4, <2>5, <2>6 DEF Next
<1> QED BY <1>0, <1>1, <1>2 DEF Payments

LEMMA DrawerKeepsLedger ==
  /\ DrawerInit => LedgerInv
  /\ LedgerInv /\ [DrawerNext]_<<vars, drawerVars>> => LedgerInv' /\ [Next]_vars
BY LedgerInit, LedgerStep
DEF DrawerInit, DrawerNext, MoneyMoves, StartClose, FinishClose, AbandonClose, Midnight

(* What the payments ids have brought in, as a sum over all payments.      *)
Taken(ids) ==
    SumTo([p \in Payments |-> IF p \in ids THEN pay[p].amount ELSE 0], NumPayments)

Parts == [count : Nat, total : Int, debt : Int, topUp : Int,
          refund : Int, reversal : Int]

DrawerTypes ==
    /\ cashier \in [Payments -> Cashiers \cup {Nobody}]
    /\ received \in [Payments -> 0 .. LastDay]
    /\ dayClose \in [Payments -> 0 .. LastDay]
    /\ closes \in [Cashiers -> [Days -> Parts]]
    /\ sweep \in [Cashiers -> [date : 0 .. LastDay, ids : SUBSET (1 .. made)]]
    /\ today \in Days

(* What a close under way has read stays true until it writes: the lock on *)
(* the staff row keeps other closes of the cashier out, and nothing else   *)
(* ever stamps a payment.                                                  *)
SweepGood(c) ==
    sweep[c] # Idle =>
        /\ sweep[c].date \in Days
        /\ closes[c][sweep[c].date] = NoClose
        /\ \A p \in sweep[c].ids :
              /\ cashier[p] = c /\ dayClose[p] = 0
              /\ received[p] <= sweep[c].date

Counted(c, d) ==
    /\ closes[c][d].count = Cardinality(Members(c, d))
    /\ closes[c][d].total = Taken(Members(c, d))
    /\ \A p \in Members(c, d) : received[p] <= d

DrawerInv ==
    /\ DrawerTypes
    /\ \A p \in Payments : p > made => dayClose[p] = 0
    /\ \A c \in Cashiers : SweepGood(c)
    /\ \A c \in Cashiers, d \in Days : Counted(c, d)

LEMMA CountedIsTheProperty ==
  CloseCountsItsMembers <=> \A c \in Cashiers, d \in Days : Counted(c, d)
BY DEF CloseCountsItsMembers, SumOf, Taken, Counted

(* Payments that were made keep their amounts, so do sums over them.       *)
LEMMA TakenStays ==
  ASSUME NEW ids, \A p \in Payments : p \in ids => pay'[p] = pay[p]
  PROVE  Taken(ids)' = Taken(ids)
<1>1. [p \in Payments |-> IF p \in ids THEN pay'[p].amount ELSE 0]
        = [p \in Payments |-> IF p \in ids THEN pay[p].amount ELSE 0]
  OBVIOUS
<1> QED BY <1>1 DEF Taken

(* A close whose members, document and dates stay is still their sum.      *)
LEMMA CountedStays ==
  ASSUME NEW c \in Cashiers, NEW d \in Days, Counted(c, d),
         Members(c, d)' = Members(c, d), closes'[c][d] = closes[c][d],
         \A p \in Payments : p \in Members(c, d) => pay'[p] = pay[p],
         \A p \in Members(c, d) : received'[p] = received[p]
  PROVE  Counted(c, d)'
<1>1. Taken(Members(c, d))' = Taken(Members(c, d))
  <2> DEFINE M == Members(c, d)
  <2>1. M' = M
    OBVIOUS
  <2>2. [p \in Payments |-> IF p \in M' THEN pay'[p].amount ELSE 0]
          = [p \in Payments |-> IF p \in M THEN pay[p].amount ELSE 0]
    BY <2>1
  <2> HIDE DEF M
  <2>3. Taken(M)' = Taken(M)
    BY <2>2 DEF Taken
  <2> QED BY <2>3 DEF M
<1> QED BY <1>1 DEF Counted

LEMMA NoMembers ==
  ASSUME made \in Nat, NEW c \in Cashiers, NEW d \in Days,
         Counted(c, d), closes[c][d] = NoClose
  PROVE  Members(c, d) = {}
<1>1. IsFiniteSet(Members(c, d))
  <2>1. IsFiniteSet(1 .. made)
    BY FS_Interval
  <2>2. Members(c, d) \in SUBSET (1 .. made)
    BY DEF Members
  <2> QED BY <2>1, <2>2, FS_Subset
<1>2. Cardinality(Members(c, d)) = 0
  BY DEF Counted, NoClose
<1> QED BY <1>1, <1>2, FS_EmptySet

LEMMA DocumentCounts ==
  ASSUME NEW ids
  PROVE  Document(ids).count = Cardinality(ids) /\ Document(ids).total = Taken(ids)
BY DEF Document, SumOf, Taken

(* The terms a document sums, one row of the document each.                *)
TermsOf(f, ids) == [p \in Payments |-> IF p \in ids THEN f[p] ELSE 0]
AmountF   == [p \in Payments |-> pay[p].amount]
DebtF     == [p \in Payments |-> IF Collects(p) THEN SumTo(pay[p].alloc, NumBills) ELSE 0]
TopUpF    == [p \in Payments |-> IF Collects(p) THEN TopUpOf(p) ELSE 0]
RefundF   == [p \in Payments |-> IF IsRefund(p) THEN pay[p].amount ELSE 0]
ReversalF == [p \in Payments |-> IF IsReversal(p) THEN pay[p].amount ELSE 0]

LEMMA DocumentSums ==
  ASSUME NEW ids
  PROVE  /\ Document(ids).total = SumTo(TermsOf(AmountF, ids), NumPayments)
         /\ Document(ids).debt = SumTo(TermsOf(DebtF, ids), NumPayments)
         /\ Document(ids).topUp = SumTo(TermsOf(TopUpF, ids), NumPayments)
         /\ Document(ids).refund = SumTo(TermsOf(RefundF, ids), NumPayments)
         /\ Document(ids).reversal = SumTo(TermsOf(ReversalF, ids), NumPayments)
<1> DEFINE debt     == [p \in Payments |-> IF p \in ids THEN
                          (IF Collects(p) THEN SumTo(pay[p].alloc, NumBills) ELSE 0) ELSE 0]
           topUp    == [p \in Payments |-> IF p \in ids THEN
                          (IF Collects(p) THEN TopUpOf(p) ELSE 0) ELSE 0]
           refund   == [p \in Payments |-> IF p \in ids THEN
                          (IF IsRefund(p) THEN pay[p].amount ELSE 0) ELSE 0]
           reversal == [p \in Payments |-> IF p \in ids THEN
                          (IF IsReversal(p) THEN pay[p].amount ELSE 0) ELSE 0]
           total    == [p \in Payments |-> IF p \in ids THEN pay[p].amount ELSE 0]
<1>1. /\ Document(ids).total = SumTo(total, NumPayments)
      /\ Document(ids).debt = SumTo(debt, NumPayments)
      /\ Document(ids).topUp = SumTo(topUp, NumPayments)
      /\ Document(ids).refund = SumTo(refund, NumPayments)
      /\ Document(ids).reversal = SumTo(reversal, NumPayments)
  BY DEF Document, SumOf
<1>2. /\ total = TermsOf(AmountF, ids) /\ debt = TermsOf(DebtF, ids)
      /\ topUp = TermsOf(TopUpF, ids) /\ refund = TermsOf(RefundF, ids)
      /\ reversal = TermsOf(ReversalF, ids)
  BY DEF TermsOf, AmountF, DebtF, TopUpF, RefundF, ReversalF
<1> HIDE DEF total, debt, topUp, refund, reversal
<1> QED BY <1>1, <1>2

(* A sound row is wholly one of the four: a reversal, a refund, or what it *)
(* collected and topped up.                                                *)
LEMMA RowSplits ==
  ASSUME TypeOK, LedgerRows, NEW p \in Payments
  PROVE  /\ AmountF[p] \in Int /\ DebtF[p] \in Int /\ TopUpF[p] \in Int
         /\ RefundF[p] \in Int /\ ReversalF[p] \in Int
         /\ AmountF[p] = DebtF[p] + TopUpF[p] + RefundF[p] + ReversalF[p]
<1> DEFINE given == SumTo(pay[p].alloc, NumBills)
           kept  == SumTo(pay[p].lot, NumPayments)
<1>0. /\ pay[p] \in Payment /\ p \in 1 .. NumPayments /\ p \in Lots
      /\ pay[p].amount \in Int /\ pay[p].lot[p] \in Int /\ 0 <= pay[p].lot[p]
      /\ pay[p].amount = given + kept
  BY DEF TypeOK, Payment, Payments, Lots, LedgerRows, RowSound
<1>1. given \in Int
  <2>1. \A b \in 1 .. NumBills : pay[p].alloc[b] \in Int
    BY <1>0 DEF Payment, Bills
  <2> QED BY <2>1, SumInt, BoundsAssumption
<1>2. pay[p].reverses = 0 /\ 0 <= pay[p].amount => kept = pay[p].lot[p]
  <2> SUFFICES ASSUME pay[p].reverses = 0 /\ 0 <= pay[p].amount
               PROVE  kept = pay[p].lot[p]
    OBVIOUS
  <2>1. \A l \in 1 .. NumPayments : l # p => pay[p].lot[l] = 0
    BY DEF LedgerRows, RowSound, Lots, Payments
  <2> QED BY <1>0, <2>1, SumSingle, BoundsAssumption
<1>3. TopUpOf(p) \in Nat /\ (pay[p].reverses = 0 => TopUpOf(p) = pay[p].lot[p])
  BY <1>0 DEF TopUpOf
<1>4. /\ AmountF[p] = pay[p].amount
      /\ DebtF[p] = IF Collects(p) THEN given ELSE 0
      /\ TopUpF[p] = IF Collects(p) THEN TopUpOf(p) ELSE 0
      /\ RefundF[p] = IF IsRefund(p) THEN pay[p].amount ELSE 0
      /\ ReversalF[p] = IF IsReversal(p) THEN pay[p].amount ELSE 0
  BY DEF AmountF, DebtF, TopUpF, RefundF, ReversalF
<1> HIDE DEF given, kept
<1>5. CASE IsReversal(p)
  <2>1. ~ Collects(p) /\ ~ IsRefund(p)
    BY <1>5 DEF Collects, IsRefund, IsReversal
  <2> QED BY <1>0, <1>4, <1>5, <2>1
<1>6. CASE ~ IsReversal(p) /\ IsRefund(p)
  <2>1. ~ Collects(p)
    BY <1>6 DEF Collects
  <2> QED BY <1>0, <1>4, <1>6, <2>1
<1>7. CASE ~ IsReversal(p) /\ ~ IsRefund(p)
  <2>1. Collects(p) /\ pay[p].reverses = 0 /\ 0 <= pay[p].amount
    BY <1>0, <1>7 DEF Collects, IsRefund, IsReversal
  <2>2. TopUpOf(p) \in Int /\ pay[p].amount = given + TopUpOf(p)
    BY <1>0, <1>2, <1>3, <2>1
  <2> QED BY <1>0, <1>1, <1>4, <1>7, <2>1, <2>2
<1> QED BY <1>5, <1>6, <1>7

LEMMA DocumentSplits ==
  ASSUME TypeOK, LedgerRows, NEW ids \in SUBSET (1 .. made)
  PROVE  /\ Document(ids) \in Parts
         /\ Document(ids).debt + Document(ids).topUp + Document(ids).refund
              + Document(ids).reversal = Document(ids).total
<1> DEFINE a == TermsOf(AmountF, ids)
           d == TermsOf(DebtF, ids)
           u == TermsOf(TopUpF, ids)
           r == TermsOf(RefundF, ids)
           v == TermsOf(ReversalF, ids)
           du  == [p \in 1 .. NumPayments |-> d[p] + u[p]]
           dur == [p \in 1 .. NumPayments |-> du[p] + r[p]]
<1>1. ASSUME NEW p \in 1 .. NumPayments
      PROVE  /\ a[p] \in Int /\ d[p] \in Int /\ u[p] \in Int /\ r[p] \in Int /\ v[p] \in Int
             /\ a[p] = d[p] + u[p] + r[p] + v[p]
  <2>1. p \in Payments
    BY DEF Payments
  <2>2. /\ AmountF[p] \in Int /\ DebtF[p] \in Int /\ TopUpF[p] \in Int
        /\ RefundF[p] \in Int /\ ReversalF[p] \in Int
        /\ AmountF[p] = DebtF[p] + TopUpF[p] + RefundF[p] + ReversalF[p]
    BY <2>1, RowSplits
  <2>3. \A f : TermsOf(f, ids)[p] = IF p \in ids THEN f[p] ELSE 0
    BY <2>1 DEF TermsOf
  <2> QED BY <2>2, <2>3
<1> HIDE DEF a, d, u, r, v
<1>2. \A p \in 1 .. NumPayments :
         /\ d[p] \in Int /\ u[p] \in Int /\ du[p] = d[p] + u[p] /\ du[p] \in Int
         /\ r[p] \in Int /\ dur[p] = du[p] + r[p] /\ dur[p] \in Int
         /\ v[p] \in Int /\ a[p] = dur[p] + v[p] /\ a[p] \in Int
  BY <1>1
<1> HIDE DEF du, dur
<1>3. /\ SumTo(du, NumPayments) = SumTo(d, NumPayments) + SumTo(u, NumPayments)
      /\ SumTo(dur, NumPayments) = SumTo(du, NumPayments) + SumTo(r, NumPayments)
      /\ SumTo(a, NumPayments) = SumTo(dur, NumPayments) + SumTo(v, NumPayments)
  <2>1. SumTo(du, NumPayments) = SumTo(d, NumPayments) + SumTo(u, NumPayments)
    BY <1>2, SumPlus, BoundsAssumption
  <2>2. SumTo(dur, NumPayments) = SumTo(du, NumPayments) + SumTo(r, NumPayments)
    BY <1>2, SumPlus, BoundsAssumption
  <2>3. SumTo(a, NumPayments) = SumTo(dur, NumPayments) + SumTo(v, NumPayments)
    BY <1>2, SumPlus, BoundsAssumption
  <2> QED BY <2>1, <2>2, <2>3
<1>4. /\ SumTo(d, NumPayments) \in Int /\ SumTo(u, NumPayments) \in Int
      /\ SumTo(r, NumPayments) \in Int /\ SumTo(v, NumPayments) \in Int
      /\ SumTo(a, NumPayments) \in Int
  BY <1>2, SumInt, BoundsAssumption
<1>5. /\ Document(ids).total = SumTo(a, NumPayments)
      /\ Document(ids).debt = SumTo(d, NumPayments)
      /\ Document(ids).topUp = SumTo(u, NumPayments)
      /\ Document(ids).refund = SumTo(r, NumPayments)
      /\ Document(ids).reversal = SumTo(v, NumPayments)
  BY DocumentSums DEF a, d, u, r, v
<1>6. Document(ids).count \in Nat
  <2>1. IsFiniteSet(ids)
    <3>1. made \in Int
      BY DEF TypeOK
    <3>2. IsFiniteSet(1 .. made)
      BY <3>1, FS_Interval
    <3> QED BY <3>2, FS_Subset
  <2> QED BY <2>1, DocumentCounts, FS_CardinalityType
<1>7. Document(ids) \in Parts
  <2> DEFINE z == Document(ids)
  <2>1. z = [count |-> z.count, total |-> z.total, debt |-> z.debt, topUp |-> z.topUp,
             refund |-> z.refund, reversal |-> z.reversal]
    BY DEF Document
  <2> HIDE DEF z
  <2>2. /\ z.count \in Nat /\ z.total \in Int /\ z.debt \in Int
        /\ z.topUp \in Int /\ z.refund \in Int /\ z.reversal \in Int
    BY <1>4, <1>5, <1>6 DEF z
  <2>3. z \in Parts
    BY <2>1, <2>2 DEF Parts
  <2> QED BY <2>3 DEF z
<1> QED BY <1>3, <1>4, <1>5, <1>7

LEMMA DrawerInitHolds == DrawerInit => DrawerInv
<1> SUFFICES ASSUME DrawerInit PROVE DrawerInv
  OBVIOUS
<1>1. made = 0 /\ 1 \in Days /\ 0 \in 0 .. LastDay
  BY DayAssumption DEF DrawerInit, Init, Days
<1>2. NoClose \in Parts
  BY DEF NoClose, Parts
<1>3. DrawerTypes
  <2>1. Idle \in [date : 0 .. LastDay, ids : SUBSET (1 .. made)]
    BY <1>1 DEF Idle
  <2> QED BY <1>1, <1>2, <2>1 DEF DrawerInit, DrawerTypes
<1>4. ASSUME NEW c \in Cashiers, NEW d \in Days PROVE Counted(c, d)
  <2>1. Members(c, d) = {}
    BY <1>1 DEF Members
  <2>2. Taken({}) = 0
    <3> DEFINE f == [p \in Payments |-> IF p \in {} THEN pay[p].amount ELSE 0]
    <3>1. \A p \in 1 .. NumPayments : f[p] = 0
      BY DEF Payments
    <3> HIDE DEF f
    <3>2. SumTo(f, NumPayments) = 0
      BY <3>1, SumZeros, BoundsAssumption
    <3> QED BY <3>2 DEF Taken, f
  <2>3. closes[c][d] = NoClose
    BY DEF DrawerInit
  <2> QED BY <2>1, <2>2, <2>3, FS_EmptySet DEF Counted, NoClose
<1> QED BY <1>1, <1>3, <1>4 DEF DrawerInv, DrawerInit, SweepGood

LEMMA MoneyKeepsDrawers ==
  ASSUME LedgerInv, LedgerInv', DrawerInv, MoneyMoves
  PROVE  DrawerInv'
<1>0. /\ TypeOK /\ [Next]_vars /\ DrawerTypes
      /\ UNCHANGED <<dayClose, closes, sweep, today>>
  BY DEF LedgerInv, MoneyMoves, DrawerInv
<1>1. /\ made \in Nat /\ made' \in Nat /\ made <= made'
      /\ made' = made \/ (made' = made + 1 /\ made' \in Payments)
      /\ \A p \in 1 .. made : p \in Payments /\ pay'[p] = pay[p]
  BY <1>0, PaymentsStay
<1>2. /\ cashier' \in [Payments -> Cashiers \cup {Nobody}]
      /\ received' \in [Payments -> 0 .. LastDay]
      /\ \A p \in 1 .. made : cashier'[p] = cashier[p] /\ received'[p] = received[p]
  <2>1. CASE made' = made /\ UNCHANGED <<cashier, received>>
    BY <1>0, <2>1 DEF DrawerTypes
  <2>2. CASE made' # made
    <3>1. PICK c \in Cashiers, d \in Days : Stamp(made', c, d)
      BY <2>2 DEF MoneyMoves
    <3>2. made' \notin 1 .. made /\ d \in 0 .. LastDay
      BY <1>1, <2>2 DEF Days
    <3> QED BY <1>0, <1>1, <3>1, <3>2 DEF Stamp, DrawerTypes
  <2> QED BY <2>1, <2>2 DEF MoneyMoves
<1>3. DrawerTypes'
  <2>1. \A ids \in SUBSET (1 .. made) : ids \in SUBSET (1 .. made')
    BY <1>1
  <2>2. sweep' \in [Cashiers -> [date : 0 .. LastDay, ids : SUBSET (1 .. made')]]
    BY <1>0, <2>1 DEF DrawerTypes
  <2> QED BY <1>0, <1>2, <2>2 DEF DrawerTypes
<1>4. \A p \in Payments : p > made' => dayClose'[p] = 0
  BY <1>0, <1>1 DEF DrawerInv, Payments
<1>5. ASSUME NEW c \in Cashiers PROVE SweepGood(c)'
  <2>1. SweepGood(c) /\ sweep[c].ids \subseteq 1 .. made
    BY <1>0 DEF DrawerInv, DrawerTypes
  <2> QED BY <1>0, <1>2, <2>1 DEF SweepGood
<1>6. ASSUME NEW c \in Cashiers, NEW d \in Days PROVE Counted(c, d)'
  <2>1. ASSUME made' # made PROVE dayClose'[made'] = 0
    BY <1>0, <1>1, <2>1 DEF DrawerInv
  <2>2. Members(c, d)' = Members(c, d)
    <3>1. \A p : p \in 1 .. made' <=> p \in 1 .. made \/ (made' # made /\ p = made')
      BY <1>1
    <3>2. d # 0
      BY DEF Days
    <3> QED BY <1>0, <1>2, <2>1, <3>1, <3>2 DEF Members
  <2>3. \A p \in Members(c, d) : p \in 1 .. made
    BY DEF Members
  <2>4. Counted(c, d) /\ closes'[c][d] = closes[c][d]
    BY <1>0 DEF DrawerInv
  <2> QED BY <1>1, <1>2, <2>2, <2>3, <2>4, CountedStays
<1> QED BY <1>3, <1>4, <1>5, <1>6 DEF DrawerInv

(* The close that finishes gives its document to the payments it read;     *)
(* until then the date had neither document nor members.                   *)
LEMMA FinishKeepsDrawers ==
  ASSUME LedgerInv, LedgerInv', DrawerInv, NEW c \in Cashiers, FinishClose(c)
  PROVE  DrawerInv'
<1> PICK day, ids : day = sweep[c].date /\ ids = sweep[c].ids
  OBVIOUS
<1>0. /\ TypeOK /\ LedgerRows /\ DrawerTypes
      /\ made \in Nat /\ made <= NumPayments /\ NumPayments \in Nat
      /\ UNCHANGED <<bill, made, pay, applied, restored, closed, cashier, received, today>>
  BY BoundsAssumption DEF LedgerInv, DrawerInv, FinishClose, vars, TypeOK
<1>1. /\ day \in Days /\ closes[c][day] = NoClose /\ ids \in SUBSET (1 .. made)
      /\ \A p \in ids : p \in Payments /\ cashier[p] = c /\ dayClose[p] = 0 /\ received[p] <= day
  <2>1. SweepGood(c) /\ sweep[c] # Idle /\ sweep[c].ids \in SUBSET (1 .. made)
    BY <1>0 DEF DrawerInv, DrawerTypes, FinishClose
  <2>2. \A p \in 1 .. made : p \in Payments
    BY <1>0 DEF Payments
  <2> QED BY <2>1, <2>2 DEF SweepGood
<1>2. /\ closes' = [closes EXCEPT ![c][day] = Document(ids)]
      /\ dayClose' = [p \in Payments |-> IF p \in ids THEN day ELSE dayClose[p]]
      /\ sweep' = [sweep EXCEPT ![c] = Idle]
  BY DEF FinishClose, Swept
<1>3. Document(ids) \in Parts
  BY <1>0, <1>1, DocumentSplits
<1>4. Document(ids).count = Cardinality(ids) /\ Document(ids).total = Taken(ids)
  BY DocumentCounts
<1>5. Members(c, day) = {}
  BY <1>0, <1>1, NoMembers DEF DrawerInv
<1>6. Taken(ids)' = Taken(ids)
  BY <1>0, TakenStays
<1>7. DrawerTypes'
  <2>1. closes' \in [Cashiers -> [Days -> Parts]]
    BY <1>0, <1>1, <1>2, <1>3 DEF DrawerTypes
  <2>2. dayClose' \in [Payments -> 0 .. LastDay]
    BY <1>0, <1>1, <1>2 DEF DrawerTypes, Days
  <2>3. Idle \in [date : 0 .. LastDay, ids : SUBSET (1 .. made)]
    BY DayAssumption DEF Idle
  <2>4. sweep' \in [Cashiers -> [date : 0 .. LastDay, ids : SUBSET (1 .. made')]]
    BY <1>0, <1>2, <2>3 DEF DrawerTypes
  <2> QED BY <1>0, <2>1, <2>2, <2>4 DEF DrawerTypes
<1>8. \A p \in Payments : p > made' => dayClose'[p] = 0
  BY <1>0, <1>1, <1>2 DEF DrawerInv, Payments
<1>9. ASSUME NEW e \in Cashiers PROVE SweepGood(e)'
  <2>1. CASE e = c
    <3>1. sweep'[e] = Idle
      BY <1>0, <1>2, <2>1 DEF DrawerTypes
    <3> QED BY <3>1 DEF SweepGood
  <2>2. CASE e # c
    <3>1. sweep'[e] = sweep[e] /\ closes'[e] = closes[e]
      BY <1>0, <1>2, <2>2 DEF DrawerTypes
    <3>2. SweepGood(e) /\ sweep[e].ids \subseteq 1 .. made
      BY <1>0 DEF DrawerInv, DrawerTypes
    <3>3. \A p \in 1 .. made : p \in Payments /\ (cashier[p] = e => dayClose'[p] = dayClose[p])
      BY <1>0, <1>1, <1>2, <2>2 DEF Payments
    <3> QED BY <1>0, <3>1, <3>2, <3>3 DEF SweepGood
  <2> QED BY <2>1, <2>2
<1>10. ASSUME NEW e \in Cashiers, NEW d \in Days PROVE Counted(e, d)'
  <2>0. \A p \in 1 .. made : p \in Payments
    BY <1>0 DEF Payments
  <2>1. CASE e = c /\ d = day
    <3>1. Members(e, d)' = ids
      <4>1. \A p \in 1 .. made : p \in ids \/ ~ (cashier[p] = c /\ dayClose[p] = day)
        BY <1>5 DEF Members
      <4> QED BY <1>0, <1>1, <1>2, <2>0, <2>1, <4>1 DEF Members
    <3>2. closes'[e][d] = Document(ids)
      BY <1>0, <1>1, <1>2, <2>1 DEF DrawerTypes
    <3>3. Taken(Members(e, d))' = Taken(ids)
      <4>1. Taken(Members(e, d))' = Taken(ids)'
        <5> DEFINE M == Members(e, d)
        <5>1. M' = ids
          BY <3>1
        <5>2. [p \in Payments |-> IF p \in M' THEN pay'[p].amount ELSE 0]
                = [p \in Payments |-> IF p \in ids THEN pay'[p].amount ELSE 0]
          BY <5>1
        <5> HIDE DEF M
        <5>3. Taken(M)' = SumTo([p \in Payments |-> IF p \in ids THEN pay'[p].amount ELSE 0],
                               NumPayments)
          BY <5>2 DEF Taken
        <5> QED BY <5>3 DEF M, Taken
      <4> QED BY <1>6, <4>1
    <3>4. \A p \in ids : received'[p] <= d
      BY <1>0, <1>1, <2>1
    <3> QED BY <1>4, <3>1, <3>2, <3>3, <3>4 DEF Counted
  <2>2. CASE ~ (e = c /\ d = day)
    <3>1. Members(e, d)' = Members(e, d)
      <4>1. \A p \in 1 .. made : (cashier[p] = e /\ dayClose'[p] = d)
                                   <=> (cashier[p] = e /\ dayClose[p] = d)
        <5> SUFFICES ASSUME NEW p \in 1 .. made, cashier[p] = e
                     PROVE  dayClose'[p] = d <=> dayClose[p] = d
          OBVIOUS
        <5>1. CASE p \in ids
          <6>1. e = c /\ dayClose[p] = 0 /\ dayClose'[p] = day /\ d # 0
            BY <1>1, <1>2, <2>0, <5>1 DEF Days
          <6> QED BY <2>2, <6>1
        <5>2. CASE p \notin ids
          BY <1>2, <2>0, <5>2
        <5> QED BY <5>1, <5>2
      <4> QED BY <1>0, <4>1 DEF Members
    <3>2. closes'[e][d] = closes[e][d]
      BY <1>0, <1>1, <1>2, <2>2 DEF DrawerTypes
    <3>3. Counted(e, d)
      BY DEF DrawerInv
    <3> QED BY <1>0, <3>1, <3>2, <3>3, CountedStays
  <2> QED BY <2>1, <2>2
<1> QED BY <1>7, <1>8, <1>9, <1>10 DEF DrawerInv

LEMMA DrawerStep ==
  ASSUME LedgerInv, DrawerInv, [DrawerNext]_<<vars, drawerVars>>
  PROVE  DrawerInv'
<1>0. LedgerInv' /\ DrawerTypes /\ made \in Nat
  BY DrawerKeepsLedger DEF DrawerInv, LedgerInv, TypeOK
<1>1. ASSUME MoneyMoves PROVE DrawerInv'
  BY <1>0, <1>1, MoneyKeepsDrawers
<1>2. ASSUME NEW c \in Cashiers, FinishClose(c) PROVE DrawerInv'
  BY <1>0, <1>2, FinishKeepsDrawers
<1>3. ASSUME UNCHANGED <<vars, cashier, received, dayClose, closes>>,
             DrawerTypes', \A c \in Cashiers : SweepGood(c)'
      PROVE  DrawerInv'
  <2>1. UNCHANGED <<made, pay>>
    BY <1>3 DEF vars
  <2>2. ASSUME NEW c \in Cashiers, NEW d \in Days PROVE Counted(c, d)'
    <3>1. Members(c, d)' = Members(c, d)
      BY <1>3, <2>1 DEF Members
    <3> QED BY <1>3, <2>1, <3>1, CountedStays DEF DrawerInv
  <2> QED BY <1>3, <2>1, <2>2 DEF DrawerInv
<1>4. ASSUME NEW c \in Cashiers, NEW d \in Days, StartClose(c, d) PROVE DrawerInv'
  <2> DEFINE read == [date |-> d, ids |-> Pending(c, d)]
  <2>1. /\ UNCHANGED <<vars, cashier, received, dayClose, closes, today>>
        /\ sweep' = [sweep EXCEPT ![c] = read] /\ UNCHANGED made
    BY <1>4 DEF StartClose, vars
  <2>2. read \in [date : 0 .. LastDay, ids : SUBSET (1 .. made)]
    BY DEF Pending, Days
  <2>3. DrawerTypes'
    BY <1>0, <2>1, <2>2 DEF DrawerTypes
  <2>4. ASSUME NEW e \in Cashiers PROVE SweepGood(e)'
    <3>1. CASE e = c
      <4>1. sweep'[e] = read /\ closes[c][d] = NoClose
        BY <1>0, <1>4, <2>1, <3>1 DEF DrawerTypes, StartClose
      <4> QED BY <2>1, <3>1, <4>1 DEF SweepGood, Pending
    <3>2. CASE e # c
      <4>1. sweep'[e] = sweep[e] /\ SweepGood(e)
        BY <1>0, <2>1, <3>2 DEF DrawerTypes, DrawerInv
      <4> QED BY <2>1, <4>1 DEF SweepGood
    <3> QED BY <3>1, <3>2
  <2> QED BY <1>3, <2>1, <2>3, <2>4
<1>5. ASSUME NEW c \in Cashiers, AbandonClose(c) PROVE DrawerInv'
  <2>1. /\ UNCHANGED <<vars, cashier, received, dayClose, closes, today>>
        /\ sweep' = [sweep EXCEPT ![c] = Idle] /\ UNCHANGED made
    BY <1>5 DEF AbandonClose, vars
  <2>2. Idle \in [date : 0 .. LastDay, ids : SUBSET (1 .. made)]
    BY DayAssumption DEF Idle
  <2>3. DrawerTypes'
    BY <1>0, <2>1, <2>2 DEF DrawerTypes
  <2>4. ASSUME NEW e \in Cashiers PROVE SweepGood(e)'
    <3>1. sweep'[e] = IF e = c THEN Idle ELSE sweep[e]
      BY <1>0, <2>1 DEF DrawerTypes
    <3>2. SweepGood(e)
      BY DEF DrawerInv
    <3> QED BY <2>1, <3>1, <3>2 DEF SweepGood
  <2> QED BY <1>3, <2>1, <2>3, <2>4
<1>6. ASSUME Midnight \/ UNCHANGED <<vars, drawerVars>> PROVE DrawerInv'
  <2>1. UNCHANGED <<vars, cashier, received, dayClose, closes, sweep>> /\ UNCHANGED made
    BY <1>6 DEF Midnight, drawerVars, vars
  <2>2. today' \in Days
    BY <1>0, <1>6, DayAssumption DEF Midnight, drawerVars, DrawerTypes, Days
  <2>3. DrawerTypes'
    BY <1>0, <2>1, <2>2 DEF DrawerTypes
  <2>4. \A e \in Cashiers : SweepGood(e)'
    BY <2>1 DEF DrawerInv, SweepGood
  <2> QED BY <1>3, <2>1, <2>3, <2>4
<1> QED BY <1>1, <1>2, <1>4, <1>5, <1>6 DEF DrawerNext

LEMMA DrawersHold == DrawerSpec => [](LedgerInv /\ DrawerInv)
<1>1. DrawerInit => LedgerInv /\ DrawerInv
  BY DrawerKeepsLedger, DrawerInitHolds
<1>2. LedgerInv /\ DrawerInv /\ [DrawerNext]_<<vars, drawerVars>>
        => LedgerInv' /\ DrawerInv'
  BY DrawerKeepsLedger, DrawerStep
<1> QED BY <1>1, <1>2, PTL DEF DrawerSpec

(* A signed close is at all times the number and the sum of the payments   *)
(* that name it, all taken by its date, whatever is paid, reversed or      *)
(* refunded while it is written and after, for any number of cashiers.     *)
THEOREM ClosesCountTheirMembers == DrawerSpec => []CloseCountsItsMembers
<1>1. DrawerInv => CloseCountsItsMembers
  BY CountedIsTheProperty DEF DrawerInv
<1> QED BY <1>1, DrawersHold, PTL

(* The four parts of a close sum to its total: every payment row is wholly *)
(* a reversal, a refund, or what it collected and topped up.               *)
THEOREM ClosesSplitTheirTotals == DrawerSpec => []CloseSplitsItsTotal
<1>1. DrawerInit => CloseSplitsItsTotal
  BY DEF DrawerInit, CloseSplitsItsTotal, NoClose
<1>2. ASSUME LedgerInv, DrawerInv, CloseSplitsItsTotal, [DrawerNext]_<<vars, drawerVars>>
      PROVE  CloseSplitsItsTotal'
  <2>1. CASE UNCHANGED closes
    BY <1>2, <2>1 DEF CloseSplitsItsTotal
  <2>2. ASSUME NEW c \in Cashiers, FinishClose(c) PROVE CloseSplitsItsTotal'
    <3> DEFINE day == sweep[c].date
               doc == Document(sweep[c].ids)
    <3>1. /\ closes \in [Cashiers -> [Days -> Parts]]
          /\ sweep[c].ids \in SUBSET (1 .. made)
      BY <1>2 DEF DrawerInv, DrawerTypes
    <3>2. closes' = [closes EXCEPT ![c][day] = doc]
      BY <2>2 DEF FinishClose
    <3>3. doc.debt + doc.topUp + doc.refund + doc.reversal = doc.total
      BY <1>2, <3>1, DocumentSplits DEF LedgerInv
    <3> HIDE DEF day, doc
    <3>4. \A e \in Cashiers, d \in Days :
             closes'[e][d] = doc \/ closes'[e][d] = closes[e][d]
      BY <3>1, <3>2
    <3> QED BY <1>2, <3>3, <3>4 DEF CloseSplitsItsTotal
  <2>3. UNCHANGED closes \/ \E c \in Cashiers : FinishClose(c)
    BY <1>2 DEF DrawerNext, MoneyMoves, Midnight, StartClose, AbandonClose, drawerVars
  <2> QED BY <2>1, <2>2, <2>3
<1> QED BY <1>1, <1>2, DrawersHold, PTL DEF DrawerSpec
=============================================================================
