------------------------------ MODULE BankDebit ------------------------------
(***************************************************************************)
(* The direct debits of BankDebitService.  A batch collects, for every     *)
(* household with an agreement, what it owes up to a period; executing the *)
(* batch asks the bank to take each amount and books a payment for it.     *)
(*                                                                         *)
(* The whole execution is one transaction that calls the bank: its         *)
(* payments, its item states and the DONE of the batch commit together or  *)
(* not at all, while what the bank took stays taken.  The executor holds   *)
(* the row of the batch throughout, so a batch has one executor at a time. *)
(***************************************************************************)
EXTENDS Sums

CONSTANTS Houses,      \* settle accounts
          LastMonth,   \* bound: the periods are 1 .. LastMonth
          NumBatches,  \* bound: batches ever generated
          MostOwed,    \* bound: largest bill
          NoHouse

ASSUME DebitAssumption ==
    /\ LastMonth \in Nat /\ NumBatches \in Nat /\ MostOwed \in Nat
    /\ NoHouse \notin Houses

VARIABLES agreed,  \* the households with an ACTIVE agreement
          owed,    \* owed[h][m]: what the bill of month m still owes
          batch,   \* batch[k]: its period (0: not generated), whether DONE
          item,    \* item[k][h]: the bank_debit_item of h in batch k
          taken,   \* taken[k][h]: what the bank took for that item, for ever
          draft,   \* draft[k]: what the generation of batch k has read
          exec     \* exec[k]: the execution of batch k under way
debitVars == <<agreed, owed, batch, item, taken, draft, exec>>

Months  == 1 .. LastMonth
Batches == 1 .. NumBatches

NoBatch  == [month |-> 0, done |-> FALSE]
NoItem   == [status |-> "NONE", amount |-> 0, paid |-> 0]
NoDraft  == [month |-> 0, amount |-> [h \in Houses |-> 0]]
NoAlloc  == [m \in Months |-> 0]
NoCharge == [house |-> NoHouse, alloc |-> NoAlloc]
NoExec   == [on |-> FALSE, agreed |-> {}, charge |-> NoCharge,
             row |-> [h \in Houses |-> NoItem],
             alloc |-> [h \in Houses |-> NoAlloc]]

DebitInit ==
    /\ agreed = {}
    /\ owed \in [Houses -> [Months -> 0 .. MostOwed]]
    /\ batch = [k \in Batches |-> NoBatch]
    /\ item = [k \in Batches |-> [h \in Houses |-> NoItem]]
    /\ taken = [k \in Batches |-> [h \in Houses |-> 0]]
    /\ draft = [k \in Batches |-> NoDraft]
    /\ exec = [k \in Batches |-> NoExec]

Has(k, h, status) == item[k][h].status = status
Due(h, m) == SumTo(owed[h], m)
-----------------------------------------------------------------------------
(* createAgreementTx and cancelAgreementTx; the partial unique index keeps *)
(* one ACTIVE agreement per household.                                     *)
Sign(h) ==
    /\ h \notin agreed
    /\ agreed' = agreed \cup {h}
    /\ UNCHANGED <<owed, batch, item, taken, draft, exec>>

Cancel(h) ==
    /\ h \in agreed
    /\ agreed' = agreed \ {h}
    /\ UNCHANGED <<owed, batch, item, taken, draft, exec>>

(* A payment over the counter.  It waits for the bills that an execution   *)
(* has paid and not yet committed.                                         *)
Locked(h, m) == \E k \in Batches : exec[k].alloc[h][m] > 0

PayCash(h, m, n) ==
    /\ ~ Locked(h, m)
    /\ n \in 1 .. owed[h][m]
    /\ owed' = [owed EXCEPT ![h][m] = @ - n]
    /\ UNCHANGED <<agreed, batch, item, taken, draft, exec>>
-----------------------------------------------------------------------------
(* createBatchTx reads the agreements, the live items of the period and    *)
(* the debts; a household with a live item or no debt is skipped.          *)
LiveIn(h, m) ==
    \E k \in Batches : batch[k].month = m
                       /\ (Has(k, h, "PENDING") \/ Has(k, h, "SUCCESS"))

ReadForBatch(k, m) ==
    /\ batch[k] = NoBatch /\ draft[k] = NoDraft
    /\ agreed # {}
    /\ draft' = [draft EXCEPT ![k] =
         [month |-> m,
          amount |-> [h \in Houses |->
                        IF h \in agreed /\ ~ LiveIn(h, m) THEN Due(h, m) ELSE 0]]]
    /\ UNCHANGED <<agreed, owed, batch, item, taken, exec>>

(* The inserts.  One that meets a PENDING item of another batch fails on   *)
(* the partial unique index; the failed statement aborts the transaction,  *)
(* so the catch that means to skip the household loses the whole batch.    *)
Collides(k) ==
    \E h \in Houses, j \in Batches :
        /\ draft[k].amount[h] > 0
        /\ batch[j].month = draft[k].month /\ Has(j, h, "PENDING")

SaveBatch(k) ==
    /\ draft[k] # NoDraft
    /\ draft' = [draft EXCEPT ![k] = NoDraft]
    /\ IF Collides(k)
       THEN UNCHANGED <<batch, item>>
       ELSE /\ batch' = [batch EXCEPT ![k].month = draft[k].month]
            /\ item' = [item EXCEPT ![k] =
                 [h \in Houses |->
                    IF draft[k].amount[h] > 0
                    THEN [status |-> "PENDING", amount |-> draft[k].amount[h],
                          paid |-> 0]
                    ELSE NoItem]]
    /\ UNCHANGED <<agreed, owed, taken, exec>>
-----------------------------------------------------------------------------
(* executeBatchTx, up to its loop: the items and the agreements are read.  *)
Start(k) ==
    /\ batch[k] # NoBatch /\ ~ batch[k].done
    /\ ~ exec[k].on
    /\ exec' = [exec EXCEPT ![k] =
                  [NoExec EXCEPT !.on = TRUE, !.agreed = agreed, !.row = item[k]]]
    /\ UNCHANGED <<agreed, owed, batch, item, taken, draft>>

Todo(k) == {h \in Houses : exec[k].row[h].status = "PENDING"}
ToCharge(k, h) ==
    LET now == Due(h, batch[k].month)
    IN  IF item[k][h].amount < now THEN item[k][h].amount ELSE now

Skip(k, h) ==
    /\ exec[k].on /\ exec[k].charge = NoCharge /\ h \in Todo(k)
    /\ h \notin exec[k].agreed \/ ToCharge(k, h) <= 0
    /\ exec' = [exec EXCEPT ![k].row[h].status = "SKIPPED"]
    /\ UNCHANGED <<agreed, owed, batch, item, taken, draft>>

(* The amount is shared out over the bills in the order the query returns  *)
(* them, which no ORDER BY fixes: all are paid in full but one.            *)
Shares(h, m, amount) ==
    {f \in [Months -> 0 .. MostOwed] :
        /\ \A q \in Months : f[q] <= owed[h][q] /\ (q > m => f[q] = 0)
        /\ SumTo(f, LastMonth) = amount
        /\ \A q, r \in Months : 0 < f[q] /\ f[q] < owed[h][q]
                                /\ 0 < f[r] /\ f[r] < owed[h][r] => q = r}

(* bank.charge.  The bank takes the amount, or refuses.                    *)
Charge(k, h) ==
    /\ exec[k].on /\ exec[k].charge = NoCharge /\ h \in Todo(k)
    /\ h \in exec[k].agreed /\ ToCharge(k, h) > 0
    /\ \/ /\ taken' = [taken EXCEPT ![k][h] = @ + ToCharge(k, h)]
          /\ \E f \in Shares(h, batch[k].month, ToCharge(k, h)) :
                exec' = [exec EXCEPT ![k].charge = [house |-> h, alloc |-> f]]
       \/ /\ exec' = [exec EXCEPT ![k].row[h].status = "FAILED"]
          /\ UNCHANGED taken
    /\ UNCHANGED <<agreed, owed, batch, item, draft>>

(* PaymentService.createTx for the charge, and the flip to SUCCESS.  It    *)
(* waits for the bills, then refuses what they no longer owe; a second     *)
(* SUCCESS of the household in the period fails on its index.  Either      *)
(* error ends the transaction, as does anything else that does.            *)
Waits(k, h) ==
    \E j \in Batches \ {k}, m \in Months :
        exec[k].charge.alloc[m] > 0 /\ exec[j].alloc[h][m] > 0
OwedWhenRead(k, h) == TRUE     \* faulty variant: trusts what Charge read
StillOwed(k, h) ==
    /\ \A m \in Months : exec[k].charge.alloc[m] <= owed[h][m]
    /\ \A j \in Batches \ {k} :
          ~ (batch[j].month = batch[k].month /\ Has(j, h, "SUCCESS"))

Booked(e) ==
    [e EXCEPT !.row[e.charge.house] =
                 [@ EXCEPT !.status = "SUCCESS",
                           !.paid = SumTo(e.charge.alloc, LastMonth)],
              !.alloc[e.charge.house] = e.charge.alloc,
              !.charge = NoCharge]

Pay(k) ==
    LET h == exec[k].charge.house
    IN  /\ exec[k].charge # NoCharge
        /\ ~ Waits(k, h)
        /\ IF StillOwed(k, h)
           THEN exec' = [exec EXCEPT ![k] = Booked(@)]
           ELSE exec' = [exec EXCEPT ![k] = NoExec]
        /\ UNCHANGED <<agreed, owed, batch, item, taken, draft>>

RollBack(k) ==
    /\ exec[k].on
    /\ exec' = [exec EXCEPT ![k] = NoExec]
    /\ UNCHANGED <<agreed, owed, batch, item, taken, draft>>

Finish(k) ==
    /\ exec[k].on /\ exec[k].charge = NoCharge /\ Todo(k) = {}
    /\ item' = [item EXCEPT ![k] = exec[k].row]
    /\ owed' = [h \in Houses |-> [m \in Months |->
                   owed[h][m] - exec[k].alloc[h][m]]]
    /\ batch' = [batch EXCEPT ![k].done = TRUE]
    /\ exec' = [exec EXCEPT ![k] = NoExec]
    /\ UNCHANGED <<agreed, taken, draft>>
-----------------------------------------------------------------------------
DebitNext ==
    \/ \E h \in Houses : Sign(h) \/ Cancel(h)
    \/ \E h \in Houses, m \in Months, n \in 1 .. MostOwed : PayCash(h, m, n)
    \/ \E k \in Batches :
          \/ \E m \in Months : ReadForBatch(k, m)
          \/ SaveBatch(k) \/ Start(k) \/ Pay(k) \/ RollBack(k) \/ Finish(k)
          \/ \E h \in Houses : Skip(k, h) \/ Charge(k, h)

DebitSpec == DebitInit /\ [][DebitNext]_debitVars
-----------------------------------------------------------------------------
(* A debit that the books show as collected was really taken by the bank,  *)
(* is not above what its item announced, and is the only one of its        *)
(* household and period; no bill is paid beyond what it owes, whatever is  *)
(* paid at the counter meanwhile; a DONE batch leaves no item PENDING.     *)
DebitsBookedOnce ==
    /\ \A h \in Houses, m \in Months : owed[h][m] >= 0
    /\ \A k \in Batches, h \in Houses :
          /\ Has(k, h, "SUCCESS") =>
                /\ 0 < item[k][h].paid /\ item[k][h].paid <= item[k][h].amount
                /\ item[k][h].paid <= taken[k][h]
                /\ \A j \in Batches \ {k} :
                      batch[j].month = batch[k].month => ~ Has(j, h, "SUCCESS")
          /\ batch[k].done => ~ Has(k, h, "PENDING")

(* "Executing is idempotent: only PENDING items are handled, a rerun never *)
(* debits again": for no item does the bank take more than its amount.     *)
NeverChargedAgain ==
    \A k \in Batches, h \in Houses :
        item[k][h] # NoItem => taken[k][h] <= item[k][h].amount
=============================================================================
