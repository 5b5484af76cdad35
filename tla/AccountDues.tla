----------------------------- MODULE AccountDues -----------------------------
(***************************************************************************)
(* One account and its bill, at the grain of statements: what a            *)
(* transaction read without a lock may be stale when it writes.            *)
(* PenaltyService scans read bills and items and write later;              *)
(* BillService.reverseTx reads the bill before its locks;                  *)
(* CloseAccountUseCase holds the account while it reads, the debts first   *)
(* and the prepayments next; a billing run reads the account before it     *)
(* generates.  Posting, top-ups and payments read under their locks and    *)
(* are atomic here.                                                        *)
(***************************************************************************)
EXTENDS Sums, Sequences

CONSTANTS Amount,    \* the charge of the bill
          MostFunds, \* bound: the prepayment balance
          LastScan,  \* bound: scans are made for the days 1 .. LastScan
          Scanners   \* penalty scans that may be under way at once

ASSUME DuesAssumption ==
    Amount \in Nat \ {0} /\ MostFunds \in Nat /\ LastScan \in Nat

VARIABLES account,  \* status of the water account
          due,      \* the bill: status, penalty lines, total, cash, applied
          mirror,   \* total of the REVERSAL bill, 0 if none
          funds,    \* prepayment balance of the settle account
          run,      \* the billing run: what it has done for the account
          scan,     \* scan[s]: what scan s has read of the bill
          head,     \* reverseTx: the total read before the locks, 0 if none
          closing   \* how far the close has come
duesVars == <<account, due, mirror, funds, run, scan, head, closing>>

Collectable == {"POSTED", "PARTIAL_PAID"}
NoDue  == [status |-> "NONE", lines |-> <<>>, total |-> 0, cash |-> 0,
           applied |-> 0]
NoScan == [on |-> FALSE, lines |-> <<>>, base |-> 0, day |-> 0]

DuesInit ==
    /\ account = "NORMAL" /\ due = NoDue /\ mirror = 0
    /\ funds \in 0 .. MostFunds
    /\ run = "none" /\ head = 0 /\ closing = "no"
    /\ scan = [s \in Scanners |-> NoScan]

PaidIn(d) == d.cash + d.applied
Left(d) == d.total - PaidIn(d)
PaidStatus(d) == IF PaidIn(d) >= d.total THEN "PAID"
                 ELSE IF PaidIn(d) > 0 THEN "PARTIAL_PAID" ELSE "POSTED"
LinesOf(lines) == SumTo(lines, Len(lines))
Least(m, n) == IF m < n THEN m ELSE n

(* The lock on the water account, held by a close from its first read on.  *)
NobodyHolds == TRUE               \* faulty variant of AccountFree
AccountFree == closing = "no"
-----------------------------------------------------------------------------
(* The run reads its accounts once and generates later.                    *)
RunReads ==
    /\ run = "none" /\ account # "CLOSED"
    /\ run' = "read"
    /\ UNCHANGED <<account, due, mirror, funds, scan, head, closing>>

Generate ==
    /\ run = "read" /\ due = NoDue
    /\ run' = "billed"
    /\ due' = [NoDue EXCEPT !.status = "DRAFT", !.total = Amount]
    /\ UNCHANGED <<account, mirror, funds, scan, head, closing>>

(* postOneBill, with the prepayment it applies.                            *)
Post ==
    /\ AccountFree /\ account # "CLOSED"
    /\ due.status = "DRAFT"
    /\ LET use == Least(funds, due.total)
           d   == [due EXCEPT !.applied = use]
       IN  /\ due' = [d EXCEPT !.status = PaidStatus(d)]
           /\ funds' = funds - use
    /\ UNCHANGED <<account, mirror, run, scan, head, closing>>

PayDue(n) ==
    /\ due.status \in Collectable /\ n \in 1 .. Left(due)
    /\ LET d == [due EXCEPT !.cash = @ + n]
       IN  due' = [d EXCEPT !.status = PaidStatus(d)]
    /\ UNCHANGED <<account, mirror, funds, run, scan, head, closing>>

(* topUpTx: under the lock of the settle account the debts are served      *)
(* first.  Neither the close nor the top-up holds the lock of the other.   *)
PayAhead(n) ==
    LET debt == IF due.status \in Collectable THEN Left(due) ELSE 0
        use  == IF debt > 0 THEN Least(n, debt) ELSE 0
        d    == [due EXCEPT !.cash = @ + use]
    IN  /\ n > use => funds + n - use <= MostFunds
        /\ due' = IF use > 0 THEN [d EXCEPT !.status = PaidStatus(d)] ELSE due
        /\ funds' = funds + n - use
        /\ UNCHANGED <<account, mirror, run, scan, head, closing>>

RefundFunds(n) ==
    /\ n \in 1 .. funds
    /\ funds' = funds - n
    /\ UNCHANGED <<account, due, mirror, run, scan, head, closing>>
-----------------------------------------------------------------------------
(* accrueTx reads the overdue bills with their penalty lines and payments. *)
ReadForScan(s, day) ==
    /\ ~ scan[s].on
    /\ due.status \in Collectable
    /\ scan' = [scan EXCEPT ![s] =
         [on |-> TRUE, lines |-> due.lines, day |-> day,
          base |-> due.total - LinesOf(due.lines) - PaidIn(due)]]
    /\ UNCHANGED <<account, due, mirror, funds, run, head, closing>>

(* The writes: one penalty line set to the amount due, the total moved by  *)
(* the difference.  The rate is one per unit and day, capped at twice the  *)
(* base.  Nothing is read again.                                           *)
DueFor(base, day) == base * Least(day, 2)
WholeAmount(amount, read) == amount     \* faulty variant: the old line counts again
DeltaOf(amount, read) == amount - LinesOf(read)

WriteScan(s) ==
    LET read  == scan[s].lines
        amount == DueFor(scan[s].base, scan[s].day)
        delta == DeltaOf(amount, read)
        lines == IF read = <<>> THEN Append(due.lines, amount)
                 ELSE [due.lines EXCEPT ![1] = amount]
    IN  /\ scan[s].on
        /\ scan' = [scan EXCEPT ![s] = NoScan]
        /\ due' = IF scan[s].base <= 0 \/ delta = 0 THEN due
                  ELSE [due EXCEPT !.lines = lines, !.total = @ + delta]
        /\ UNCHANGED <<account, mirror, funds, run, head, closing>>
-----------------------------------------------------------------------------
(* reverseTx: the head is read, then the locks are taken, the decision is  *)
(* made again on the locked row, and the mirror gets the total of the head.*)
ReadHead ==
    /\ head = 0 /\ mirror = 0
    /\ due.status \in Collectable \cup {"PAID"}
    /\ head' = due.total
    /\ UNCHANGED <<account, due, mirror, funds, run, scan, closing>>

Reverse ==
    /\ head # 0 /\ AccountFree
    /\ head' = 0
    /\ IF due.status \in Collectable \/ (due.status = "PAID" /\ due.applied > 0)
       THEN /\ due' = [due EXCEPT !.status = "REVERSED", !.applied = 0]
            /\ mirror' = - head
            /\ funds' = funds + due.applied
       ELSE UNCHANGED <<due, mirror, funds>>
    /\ UNCHANGED <<account, run, scan, closing>>
-----------------------------------------------------------------------------
(* CloseAccountUseCase: lock, debts, prepayments, flip.                    *)
LockToClose ==
    /\ AccountFree /\ account # "CLOSED"
    /\ closing' = "locked"
    /\ UNCHANGED <<account, due, mirror, funds, run, scan, head>>

Outstanding ==
    IF due.status \in {"DRAFT"} \cup Collectable THEN Left(due)
    ELSE IF due.status = "REVERSED" THEN - PaidIn(due) ELSE 0

CheckDebts ==
    /\ closing = "locked"
    /\ closing' = IF Outstanding = 0 THEN "no debts" ELSE "no"
    /\ UNCHANGED <<account, due, mirror, funds, run, scan, head>>

CheckFunds ==
    /\ closing = "no debts"
    /\ closing' = IF funds = 0 THEN "no funds" ELSE "no"
    /\ UNCHANGED <<account, due, mirror, funds, run, scan, head>>

Close ==
    /\ closing = "no funds"
    /\ closing' = "no"
    /\ account' = "CLOSED"
    /\ UNCHANGED <<due, mirror, funds, run, scan, head>>
-----------------------------------------------------------------------------
DuesNext ==
    \/ RunReads \/ Generate \/ Post
    \/ \E n \in 1 .. Amount + MostFunds : PayDue(n) \/ PayAhead(n) \/ RefundFunds(n)
    \/ \E s \in Scanners : \/ \E day \in 1 .. LastScan : ReadForScan(s, day)
                           \/ WriteScan(s)
    \/ ReadHead \/ Reverse
    \/ LockToClose \/ CheckDebts \/ CheckFunds \/ Close

DuesSpec == DuesInit /\ [][DuesNext]_duesVars
-----------------------------------------------------------------------------
(* "A CLOSED account refuses new debt": whatever a run, a penalty scan or  *)
(* a correction does while an account is being closed, once it is closed   *)
(* no bill of it asks to be paid.                                          *)
ClosedOwesNothing ==
    account = "CLOSED" => ~ (due.status \in Collectable /\ Left(due) > 0)

(* "One PENALTY line per bill; accruing again updates that line and        *)
(* adjusts the total": the total is the charge and that line.              *)
OnePenaltyLine ==
    /\ Len(due.lines) <= 1
    /\ due.status # "NONE" => due.total = Amount + LinesOf(due.lines)

(* The bill of AccountDues lives the life of BillLife, although scans and  *)
(* corrections write what they read before their locks: a penalty changes  *)
(* its total by its line and nothing else.                                 *)
StageOfDue(status) == IF status \in Collectable \cup {"PAID"} THEN "STANDING" ELSE status
DueLife == INSTANCE BillLife WITH Bills <- {1},
                                  life <- [b \in {1} |-> StageOfDue(due.status)],
                                  charge <- [b \in {1} |-> due.total - LinesOf(due.lines)]
DueKeepsItsLife == DueLife!LifeSpec
=============================================================================
