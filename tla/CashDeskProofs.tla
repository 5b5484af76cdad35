--------------------------- MODULE CashDeskProofs ---------------------------
(***************************************************************************)
(* Theorems about four parts of the cash desk.                             *)
(*                                                                         *)
(* Numbering: counters and receipt books never give a number twice, for    *)
(* any kinds, any clerks and any numbers typed in by hand.  The counters   *)
(* rest on the row locks: a kind has one open draw, and that draw lies     *)
(* beyond the counter, so that saving it can only raise the counter.  The  *)
(* book rests on the unique receipt number alone: a payment that read a    *)
(* stale number holds one already printed.                                 *)
(*                                                                         *)
(* AccountDues: an account closes settled, for any amounts, if at most one *)
(* penalty scan is under way at a time.                                    *)
(*                                                                         *)
(* BankDebit: what DebitsBookedOnce says of the books of the direct debits *)
(* holds for any households, months and batches, whatever interleaves and  *)
(* although batches run at the same time and fail half way.  A household   *)
(* has at most one PENDING item per period (OnePending); while an          *)
(* execution runs, what it has decided of an item agrees with that item,   *)
(* still PENDING (ExecInv); and what two of them are about to take from    *)
(* one bill never adds up (AllocInv).                                      *)
(*                                                                         *)
(* Idempotency: it keeps the promise of AnswerOnce, for any requests and   *)
(* keys, any mix of single and multi-transaction requests, and any number  *)
(* of crashes, retries and discards.                                       *)
(***************************************************************************)
EXTENDS Numbering, AccountDues, BankDebit, Idempotency, SumsProofs,
        SequenceTheorems

NumberTypes ==
    /\ seq \in [Kinds -> 0 .. LastNo]
    /\ row \in [Kinds -> [Numbers -> {"free", "typed", "drawn"}]]
    /\ draw \in [Clerks -> [Kinds -> 0 .. LastNo]]
    /\ book \in [next : Nat \ {0},
                 status : {"STOCK", "ISSUED", "RETIRED", "EXHAUSTED"}]
    /\ slip \in [Clerks -> [no : 0 .. BookEnd, held : BOOLEAN]]

OneDraw ==
    \A c, d \in Clerks, k \in Kinds :
        draw[c][k] # 0 /\ draw[d][k] # 0 => c = d
DrawBeyond ==
    \A c \in Clerks, k \in Kinds : draw[c][k] # 0 => seq[k] < draw[c][k]
DrawnBehind ==
    \A k \in Kinds, n \in Numbers : row[k][n] = "drawn" => n <= seq[k]
CounterInv == OneDraw /\ DrawBeyond /\ DrawnBehind

SlipBehind ==
    \A c \in Clerks : /\ slip[c].no <= book.next
                      /\ slip[c].held => slip[c].no # 0
BookInv == BookInOrder /\ SlipBehind

NumberInv == NumberTypes /\ CounterInv /\ BookInv

LEMMA NumberInitHolds == NumberInit => NumberInv
BY NumberingAssumption
DEF NumberInit, NumberInv, NumberTypes, CounterInv, OneDraw, DrawBeyond,
    DrawnBehind, BookInv, BookInOrder, SlipBehind, NoDraw, NoSlip, Numbers

(* The steps of the counters.                                              *)
LEMMA CounterStep ==
    ASSUME NumberTypes, CounterInv, NEW c \in Clerks,
           \/ \E k \in Kinds : DrawOne(c, k)
           \/ DrawAligned(c) \/ SaveDraw(c) \/ DropDraw(c)
    PROVE  /\ seq' \in [Kinds -> 0 .. LastNo]
           /\ row' \in [Kinds -> [Numbers -> {"free", "typed", "drawn"}]]
           /\ draw' \in [Clerks -> [Kinds -> 0 .. LastNo]]
           /\ CounterInv'
<1> USE NumberingAssumption DEF CounterInv
<1>1. ASSUME NEW k \in Kinds, DrawOne(c, k)
      PROVE  UNCHANGED <<seq, row>> /\ draw' \in [Clerks -> [Kinds -> 0 .. LastNo]]
             /\ CounterInv'
  <2>1. /\ draw' = [draw EXCEPT ![c][k] = seq[k] + 1]
        /\ UNCHANGED <<seq, row>>
        /\ \A d \in Clerks : draw[d][k] = 0
        /\ seq[k] + 1 \in 0 .. LastNo
    BY <1>1 DEF DrawOne, Unlocked, NumberTypes
  <2> QED
    BY <2>1 DEF NumberTypes, OneDraw, DrawBeyond, DrawnBehind
<1>2. ASSUME DrawAligned(c)
      PROVE  UNCHANGED <<seq, row>> /\ draw' \in [Clerks -> [Kinds -> 0 .. LastNo]]
             /\ CounterInv'
  <2>1. PICK n \in Tried : draw' = [draw EXCEPT ![c] = [k \in Kinds |-> n]]
    BY <1>2 DEF DrawAligned
  <2>2. /\ n \in Numbers /\ \A k \in Kinds : seq[k] < n
        /\ UNCHANGED <<seq, row>>
        /\ \A d \in Clerks, k \in Kinds : draw[d][k] = 0
    BY <1>2, <2>1 DEF DrawAligned, Unlocked, Tried
  <2> QED
    BY <2>1, <2>2 DEF NumberTypes, OneDraw, DrawBeyond, DrawnBehind, Numbers
<1>3. ASSUME SaveDraw(c)
      PROVE  /\ seq' \in [Kinds -> 0 .. LastNo]
             /\ row' \in [Kinds -> [Numbers -> {"free", "typed", "drawn"}]]
             /\ draw' \in [Clerks -> [Kinds -> 0 .. LastNo]]
             /\ CounterInv'
  <2>1. draw' = [draw EXCEPT ![c] = NoDraw]
    BY <1>3 DEF SaveDraw
  <2>2. CASE Taken(c)
    <3>1. UNCHANGED <<seq, row>>
      BY <1>3, <2>2 DEF SaveDraw
    <3> QED
      BY <2>1, <3>1 DEF NumberTypes, OneDraw, DrawBeyond, DrawnBehind, NoDraw
  <2>3. CASE ~ Taken(c)
    <3>1. /\ seq' = [k \in Kinds |-> IF draw[c][k] = 0 THEN seq[k] ELSE draw[c][k]]
          /\ row' = [k \in Kinds |-> [n \in Numbers |->
                       IF draw[c][k] = n THEN "drawn" ELSE row[k][n]]]
      BY <1>3, <2>3 DEF SaveDraw, Raised
    <3>2. \A k \in Kinds : seq[k] <= seq'[k] /\ draw[c][k] <= seq'[k]
      BY <3>1 DEF NumberTypes, DrawBeyond
    <3>3. DrawnBehind'
      BY <3>1, <3>2 DEF NumberTypes, DrawnBehind, Numbers
    <3>4. OneDraw' /\ DrawBeyond'
      BY <2>1, <3>1 DEF NumberTypes, OneDraw, DrawBeyond, NoDraw
    <3> QED
      BY <2>1, <3>1, <3>3, <3>4 DEF NumberTypes, NoDraw
  <2> QED
    BY <2>2, <2>3
<1>4. ASSUME DropDraw(c)
      PROVE  UNCHANGED <<seq, row>> /\ draw' \in [Clerks -> [Kinds -> 0 .. LastNo]]
             /\ CounterInv'
  BY <1>4 DEF DropDraw, NoDraw, NumberTypes, OneDraw, DrawBeyond, DrawnBehind
<1> QED
  BY <1>1, <1>2, <1>3, <1>4 DEF NumberTypes

(* The steps of the receipt book.                                          *)
LEMMA BookStep ==
    ASSUME NumberTypes, BookInv,
           \/ Issue \/ Retire
           \/ \E c \in Clerks : ReadBook(c) \/ Advance(c) \/ PrintReceipt(c)
                                \/ DropSlip(c)
    PROVE  /\ book' \in [next : Nat \ {0},
                         status : {"STOCK", "ISSUED", "RETIRED", "EXHAUSTED"}]
           /\ slip' \in [Clerks -> [no : 0 .. BookEnd, held : BOOLEAN]]
           /\ BookInv'
<1> USE NumberingAssumption DEF BookInv, NumberTypes
<1>1. CASE Issue
  BY <1>1 DEF Issue, BookInOrder, SlipBehind
<1>2. CASE Retire
  BY <1>2 DEF Retire, BookInOrder, SlipBehind
<1>3. ASSUME NEW c \in Clerks, ReadBook(c)
      PROVE  /\ UNCHANGED book /\ BookInv'
             /\ slip' \in [Clerks -> [no : 0 .. BookEnd, held : BOOLEAN]]
  <2>1. book.next \in 1 .. BookEnd
    BY <1>3 DEF ReadBook
  <2>2. /\ slip' = [slip EXCEPT ![c].no = book.next]
        /\ UNCHANGED <<book, printed>>
    BY <1>3 DEF ReadBook
  <2>3. slip' \in [Clerks -> [no : 0 .. BookEnd, held : BOOLEAN]]
    BY <2>1, <2>2
  <2>4. SlipBehind'
    BY <2>1, <2>2 DEF SlipBehind
  <2> QED
    BY <2>2, <2>3, <2>4 DEF BookInOrder
<1>4. ASSUME NEW c \in Clerks, Advance(c)
      PROVE  /\ UNCHANGED book /\ BookInv'
             /\ slip' \in [Clerks -> [no : 0 .. BookEnd, held : BOOLEAN]]
  BY <1>4 DEF Advance, BookInOrder, SlipBehind
<1>5. ASSUME NEW c \in Clerks, PrintReceipt(c)
      PROVE  /\ book' \in [next : Nat \ {0},
                           status : {"STOCK", "ISSUED", "RETIRED", "EXHAUSTED"}]
             /\ slip' \in [Clerks -> [no : 0 .. BookEnd, held : BOOLEAN]]
             /\ BookInv'
  <2>1. slip' = [slip EXCEPT ![c] = NoSlip]
    BY <1>5 DEF PrintReceipt
  <2>2. CASE Reprint(c)
    BY <1>5, <2>1, <2>2 DEF PrintReceipt, NoSlip, BookInOrder, SlipBehind
  <2>3. CASE ~ Reprint(c)
    <3>1. slip[c].no # 0
      BY <1>5 DEF PrintReceipt, SlipBehind
    <3>2. slip[c].no = book.next
      BY <2>3, <3>1 DEF Reprint, BookInOrder, SlipBehind
    <3>3. /\ printed' = printed \cup {book.next}
          /\ book'.next = book.next + 1
          /\ book'.status \in {book.status, "EXHAUSTED"}
          /\ book'.status = "EXHAUSTED" /\ book.status # "EXHAUSTED"
               => book.next >= BookEnd
          /\ book' = [next |-> book'.next, status |-> book'.status]
      BY <1>5, <2>3, <3>2 DEF PrintReceipt
    <3>4. printed' = 1 .. book'.next - 1
      BY <3>3 DEF BookInOrder
    <3> QED
      BY <2>1, <3>2, <3>3, <3>4 DEF NoSlip, BookInOrder, SlipBehind
  <2> QED
    BY <2>2, <2>3
<1>6. ASSUME NEW c \in Clerks, DropSlip(c)
      PROVE  /\ UNCHANGED book /\ BookInv'
             /\ slip' \in [Clerks -> [no : 0 .. BookEnd, held : BOOLEAN]]
  BY <1>6 DEF DropSlip, NoSlip, BookInOrder, SlipBehind
<1> QED
  BY <1>1, <1>2, <1>3, <1>4, <1>5, <1>6

LEMMA NumberStep == NumberInv /\ [NumberNext]_numberVars => NumberInv'
<1> SUFFICES ASSUME NumberInv, [NumberNext]_numberVars PROVE NumberInv'
  OBVIOUS
<1> USE DEF NumberInv
<1>1. CASE \E c \in Clerks :
             \/ \E k \in Kinds : DrawOne(c, k)
             \/ DrawAligned(c) \/ SaveDraw(c) \/ DropDraw(c)
  <2>1. UNCHANGED receiptVars
    BY <1>1 DEF DrawOne, DrawAligned, SaveDraw, DropDraw
  <2> QED
    BY <1>1, <2>1, CounterStep
    DEF NumberTypes, BookInv, BookInOrder, SlipBehind, receiptVars
<1>2. ASSUME NEW k \in Kinds, NEW n \in Numbers, TypeIn(k, n) PROVE NumberInv'
  <2>1. UNCHANGED <<seq, draw, receiptVars>>
        /\ row' = [row EXCEPT ![k][n] = "typed"]
    BY <1>2 DEF TypeIn
  <2> QED
    BY <2>1 DEF NumberTypes, CounterInv, OneDraw, DrawBeyond, DrawnBehind,
                BookInv, BookInOrder, SlipBehind, receiptVars
<1>3. CASE \/ Issue \/ Retire
           \/ \E c \in Clerks : ReadBook(c) \/ Advance(c) \/ PrintReceipt(c)
                                \/ DropSlip(c)
  <2>1. UNCHANGED <<seq, row, draw>>
    BY <1>3 DEF Issue, Retire, ReadBook, Advance, PrintReceipt, DropSlip
  <2> QED
    BY <1>3, <2>1, BookStep
    DEF NumberTypes, CounterInv, OneDraw, DrawBeyond, DrawnBehind
<1>4. CASE UNCHANGED numberVars
  BY <1>4 DEF numberVars, NumberTypes, CounterInv, OneDraw, DrawBeyond,
              DrawnBehind, BookInv, BookInOrder, SlipBehind
<1> QED
  BY <1>1, <1>2, <1>3, <1>4 DEF NumberNext

(* No counter falls behind a number it gave out, and no two open           *)
(* transactions hold the same number of a kind.                            *)
THEOREM CountersAlwaysLead == NumberSpec => []CountersLead
<1>1. NumberInv => CountersLead
  <2> SUFFICES ASSUME NumberInv PROVE CountersLead
    OBVIOUS
  <2>1. \A k \in Kinds, n \in Numbers : row[k][n] = "drawn" => n <= seq[k]
    BY DEF NumberInv, CounterInv, DrawnBehind
  <2>2. \A k \in Kinds, c, d \in Clerks :
           draw[c][k] = draw[d][k] => c = d \/ draw[c][k] = 0
    BY DEF NumberInv, CounterInv, OneDraw
  <2> QED
    BY <2>1, <2>2 DEF CountersLead
<1> QED
  BY <1>1, NumberInitHolds, NumberStep, PTL DEF NumberSpec

(* A receipt book is used from its first number on, without a gap.         *)
THEOREM BookAlwaysInOrder == NumberSpec => []BookInOrder
<1>1. NumberInv => BookInOrder
  BY DEF NumberInv, BookInv
<1> QED
  BY <1>1, NumberInitHolds, NumberStep, PTL DEF NumberSpec
-----------------------------------------------------------------------------
(* The bill of an account that closes, with at most one penalty scan under *)
(* way.  A bill becomes collectable with something left to pay, and goes   *)
(* below that only by the scan that lowers its penalty: that scan is then  *)
(* over, and the next one reads a base that is not positive (StaleHarmless)*)
(* so that the bill the close found settled stays so (CloseIsRight).       *)
OneScanner == \A s, t \in Scanners : s = t

DueRows == [status : {"NONE", "DRAFT", "POSTED", "PARTIAL_PAID", "PAID", "REVERSED"},
            lines : Seq(Nat), total : Int, cash : Nat, applied : Nat]
DuesTypes ==
    /\ due \in DueRows
    /\ scan \in [Scanners -> [on : BOOLEAN, lines : Seq(Nat), base : Int,
                              day : Nat]]
    /\ funds \in Nat

Asks == due.status \in Collectable /\ Left(due) > 0

DraftUntouched ==
    due.status \in {"NONE", "DRAFT"} =>
        /\ due.cash = 0 /\ due.applied = 0
        /\ due.status = "DRAFT" => due.total = Amount
        /\ \A s \in Scanners : ~ scan[s].on
StaleHarmless ==
    due.status \in Collectable /\ Left(due) <= 0 =>
        \A s \in Scanners : scan[s].on => scan[s].base <= 0
CloseIsRight ==
    closing \in {"no debts", "no funds"} \/ account = "CLOSED" => ~ Asks

DuesInv == DuesTypes /\ DraftUntouched /\ StaleHarmless /\ CloseIsRight

LEMMA LinesAreNat ==
  ASSUME NEW l \in Seq(Nat)
  PROVE  LinesOf(l) \in Nat
<1>1. Len(l) \in Nat /\ \A i \in 1 .. Len(l) : l[i] \in Nat
  OBVIOUS
<1> QED BY <1>1, SumNonneg DEF LinesOf

LEMMA DueForNat ==
  ASSUME NEW base \in Nat, NEW day \in Nat
  PROVE  DueFor(base, day) \in Nat
<1>1. Least(day, 2) \in 0 .. 2
  BY DEF Least
<1>2. base * 0 \in Nat /\ base * 1 \in Nat /\ base * 2 \in Nat
  OBVIOUS
<1>3. Least(day, 2) = 0 \/ Least(day, 2) = 1 \/ Least(day, 2) = 2
  BY <1>1
<1> QED BY <1>2, <1>3 DEF DueFor

LEMMA SetFirst ==
  ASSUME NEW l \in Seq(Nat), NEW n \in Nat
  PROVE  [l EXCEPT ![1] = n] \in Seq(Nat)
<1>1. Len(l) \in Nat /\ l \in [1 .. Len(l) -> Nat]
  OBVIOUS
<1>2. [l EXCEPT ![1] = n] \in [1 .. Len(l) -> Nat]
  BY <1>1
<1> QED BY <1>1, <1>2, SeqDef

LEMMA DuesInitHolds == DuesInit => DuesInv
BY DuesAssumption
DEF DuesInit, DuesInv, DuesTypes, DueRows, DraftUntouched, StaleHarmless, CloseIsRight,
    NoDue, NoScan, Asks, Collectable

(* What leaves the bill and the scans alone.                               *)
LEMMA DueStays ==
  ASSUME DuesInv, UNCHANGED <<due, scan>>, funds' \in Nat, CloseIsRight'
  PROVE  DuesInv'
BY DEF DuesInv, DuesTypes, DueRows, DraftUntouched, StaleHarmless, CloseIsRight, Left, PaidIn

(* A payment of use, at most what the bill asks for.                       *)
LEMMA CashKeeps ==
  ASSUME DuesInv, Asks, NEW use \in 0 .. Left(due),
         due' = [[due EXCEPT !.cash = @ + use] EXCEPT !.status =
                    PaidStatus([due EXCEPT !.cash = @ + use])],
         funds' \in Nat, UNCHANGED <<scan, closing, account>>
  PROVE  DuesInv'
<1> DEFINE d == [due EXCEPT !.cash = @ + use]
<1>1. /\ d.cash = due.cash + use /\ d.applied = due.applied
      /\ d.total = due.total /\ d.lines = due.lines
      /\ due.cash \in Nat /\ due.applied \in Nat /\ due.total \in Int
  BY DEF DuesInv, DuesTypes, DueRows
<1>2. due'.cash = d.cash /\ due'.applied = d.applied /\ due'.total = d.total
      /\ due'.status = PaidStatus(d)
  BY <1>1 DEF DuesInv, DuesTypes, DueRows
<1>3. PaidStatus(d) \in {"PAID", "PARTIAL_PAID", "POSTED"}
      /\ (PaidStatus(d) # "PAID" => d.total - (d.cash + d.applied) > 0)
  BY <1>1 DEF PaidStatus, PaidIn
<1>4. DuesTypes'
  <2>1. due' \in DueRows
    <3>1. d.cash \in Nat
      BY <1>1 DEF Left, PaidIn
    <3> QED BY <1>1, <1>3, <3>1 DEF DuesInv, DuesTypes, DueRows
  <2> QED BY <2>1 DEF DuesInv, DuesTypes, DueRows
<1>5. DraftUntouched' /\ StaleHarmless'
  BY <1>1, <1>2, <1>3 DEF DraftUntouched, StaleHarmless, Left, PaidIn, Collectable
<1>6. CloseIsRight'
  BY DEF DuesInv, CloseIsRight
<1> QED BY <1>4, <1>5, <1>6 DEF DuesInv

LEMMA WriteKeeps ==
  ASSUME OneScanner, DuesInv, NEW s \in Scanners, WriteScan(s)
  PROVE  DuesInv'
<1> DEFINE read == scan[s].lines
           amount == DueFor(scan[s].base, scan[s].day)
           delta == amount - LinesOf(read)
           lines == IF read = <<>> THEN Append(due.lines, amount)
                    ELSE [due.lines EXCEPT ![1] = amount]
<1>1. /\ scan[s].on /\ scan' = [scan EXCEPT ![s] = NoScan]
      /\ UNCHANGED <<account, funds, closing>>
      /\ due' = IF scan[s].base <= 0 \/ delta = 0 THEN due
                ELSE [due EXCEPT !.lines = lines, !.total = @ + delta]
  BY DEF WriteScan, DeltaOf
<1>2. /\ scan' \in [Scanners -> [on : BOOLEAN, lines : Seq(Nat), base : Int,
                                 day : Nat]]
      /\ \A t \in Scanners : ~ scan'[t].on
  <2>1. NoScan \in [on : BOOLEAN, lines : Seq(Nat), base : Int, day : Nat]
        /\ ~ NoScan.on
    BY DEF NoScan
  <2>2. \A t \in Scanners : t = s
    BY DEF OneScanner
  <2> QED BY <1>1, <2>1, <2>2 DEF DuesInv, DuesTypes, DueRows
<1>3. CASE scan[s].base <= 0 \/ delta = 0
  <2>1. due' = due
    BY <1>1, <1>3
  <2> QED
    BY <1>1, <1>2, <2>1
    DEF DuesInv, DuesTypes, DueRows, DraftUntouched, StaleHarmless, CloseIsRight, Asks
<1>4. CASE ~ (scan[s].base <= 0 \/ delta = 0)
  <2>1. due' = [due EXCEPT !.lines = lines, !.total = @ + delta]
    BY <1>1, <1>4
  <2>2. /\ scan[s].base \in Nat /\ scan[s].day \in Nat /\ read \in Seq(Nat)
        /\ due.lines \in Seq(Nat) /\ due.total \in Int
    BY <1>4 DEF DuesInv, DuesTypes, DueRows
  <2>3. amount \in Nat /\ LinesOf(read) \in Nat
    BY <2>2, DueForNat, LinesAreNat
  <2>4. lines \in Seq(Nat) /\ delta \in Int
    <3> HIDE DEF amount, read
    <3>1. Append(due.lines, amount) \in Seq(Nat)
      BY <2>2, <2>3, AppendProperties
    <3>2. [due.lines EXCEPT ![1] = amount] \in Seq(Nat)
      BY <2>2, <2>3, SetFirst
    <3> QED BY <2>3, <3>1, <3>2
  <2> HIDE DEF lines, delta, amount, read
  <2>5. /\ due'.status = due.status /\ due'.cash = due.cash
        /\ due'.applied = due.applied
    BY <2>1 DEF DuesInv, DuesTypes, DueRows
  <2>6. DuesTypes'
    <3>1. due.total + delta \in Int
      BY <2>2, <2>4
    <3>2. due' \in DueRows
      BY <2>1, <2>4, <3>1 DEF DuesInv, DuesTypes, DueRows
    <3> QED BY <1>1, <1>2, <3>2 DEF DuesInv, DuesTypes
  <2>7. DraftUntouched' /\ StaleHarmless'
    BY <1>1, <1>2, <2>5 DEF DuesInv, DraftUntouched, StaleHarmless
  <2>8. ~ (due.status \in Collectable /\ Left(due) <= 0)
    BY <1>1, <1>4 DEF DuesInv, StaleHarmless
  <2>9. due.status \in Collectable => Asks
    BY <2>8 DEF Asks, DuesInv, DuesTypes, DueRows, Left, PaidIn
  <2>10. CloseIsRight'
    BY <1>1, <2>5, <2>9 DEF DuesInv, CloseIsRight, Asks
  <2> QED BY <2>6, <2>7, <2>10 DEF DuesInv
<1> QED BY <1>3, <1>4

LEMMA DuesStep ==
  ASSUME OneScanner, DuesInv, [DuesNext]_duesVars
  PROVE  DuesInv'
<1>0. /\ due.cash \in Nat /\ due.applied \in Nat /\ due.total \in Int
      /\ funds \in Nat /\ Amount \in Nat \ {0}
  BY DuesAssumption DEF DuesInv, DuesTypes, DueRows
<1>1. CASE RunReads \/ ReadHead \/ LockToClose \/ Close
  <2>1. UNCHANGED <<due, scan, funds>>
    BY <1>1 DEF RunReads, ReadHead, LockToClose, Close
  <2>2. CloseIsRight'
    BY <1>1 DEF RunReads, ReadHead, LockToClose, Close, DuesInv, CloseIsRight,
                Asks, Left, PaidIn
  <2> QED BY <1>0, <2>1, <2>2, DueStays
<1>2. CASE CheckFunds
  BY <1>0, <1>2, DueStays DEF CheckFunds, DuesInv, CloseIsRight, Asks, Left, PaidIn
<1>3. CASE CheckDebts
  <2>1. Outstanding = 0 => ~ Asks
    BY <1>0 DEF Outstanding, Asks, Left, PaidIn
  <2>2. CloseIsRight'
    BY <1>3, <2>1 DEF CheckDebts, DuesInv, CloseIsRight, Asks, Left, PaidIn
  <2> QED BY <1>0, <1>3, <2>2, DueStays DEF CheckDebts
<1>4. CASE Generate
  <2>1. /\ due' = [NoDue EXCEPT !.status = "DRAFT", !.total = Amount]
        /\ due = NoDue /\ UNCHANGED <<account, funds, scan, closing>>
    BY <1>4 DEF Generate
  <2>2. /\ due' \in DueRows /\ due'.status = "DRAFT" /\ due'.total = Amount
        /\ due'.cash = 0 /\ due'.applied = 0
    <3>1. due' = [status |-> "DRAFT", lines |-> <<>>, total |-> Amount,
                  cash |-> 0, applied |-> 0]
      BY <2>1 DEF NoDue
    <3>2. <<>> \in Seq(Nat)
      OBVIOUS
    <3> QED BY <1>0, <3>1, <3>2 DEF DueRows
  <2>3. DuesTypes'
    BY <2>1, <2>2 DEF DuesInv, DuesTypes
  <2>4. \A s \in Scanners : ~ scan[s].on
    BY <2>1 DEF DuesInv, DraftUntouched, NoDue
  <2>5. DraftUntouched' /\ StaleHarmless' /\ CloseIsRight'
    BY <2>1, <2>2, <2>4
    DEF DraftUntouched, StaleHarmless, CloseIsRight, Asks, Collectable
  <2> QED BY <2>3, <2>5 DEF DuesInv
<1>5. CASE Post
  <2> DEFINE use == Least(funds, due.total)
             d == [due EXCEPT !.applied = use]
  <2>1. /\ due.status = "DRAFT" /\ due.total = Amount /\ due.cash = 0
        /\ \A s \in Scanners : ~ scan[s].on
        /\ closing = "no" /\ account # "CLOSED"
    BY <1>5 DEF Post, AccountFree, DuesInv, DraftUntouched
  <2>2. use \in Nat /\ funds - use \in Nat
    BY <1>0, <2>1 DEF Least
  <2>3. /\ due' = [d EXCEPT !.status = PaidStatus(d)] /\ funds' = funds - use
        /\ UNCHANGED <<account, scan, closing>>
    BY <1>5 DEF Post
  <2>4. PaidStatus(d) \in {"PAID", "PARTIAL_PAID", "POSTED"}
    BY DEF PaidStatus
  <2>5. DuesTypes'
    <3> HIDE DEF use
    <3> QED BY <2>2, <2>3, <2>4 DEF DuesInv, DuesTypes, DueRows
  <2>6. DraftUntouched' /\ StaleHarmless' /\ CloseIsRight'
    <3>1. due'.status = PaidStatus(d)
      BY <2>3 DEF DuesInv, DuesTypes, DueRows
    <3> QED
      BY <2>1, <2>3, <2>4, <3>1 DEF DraftUntouched, StaleHarmless, CloseIsRight
  <2> QED BY <2>5, <2>6 DEF DuesInv
<1>6. ASSUME NEW n \in 1 .. Amount + MostFunds, PayDue(n) PROVE DuesInv'
  <2>1. Asks /\ n \in 0 .. Left(due)
    BY <1>0, <1>6 DEF PayDue, Asks, Left, PaidIn
  <2> QED BY <1>0, <1>6, <2>1, CashKeeps DEF PayDue
<1>7. ASSUME NEW n \in 1 .. Amount + MostFunds, PayAhead(n) PROVE DuesInv'
  <2> DEFINE debt == IF due.status \in Collectable THEN Left(due) ELSE 0
             use  == IF debt > 0 THEN Least(n, debt) ELSE 0
             d    == [due EXCEPT !.cash = @ + use]
  <2>0. n \in Nat
    BY <1>0, DuesAssumption
  <2>1. /\ due' = IF use > 0 THEN [d EXCEPT !.status = PaidStatus(d)] ELSE due
        /\ funds' = funds + n - use
        /\ UNCHANGED <<account, scan, closing>>
    BY <1>7 DEF PayAhead
  <2>2. debt \in Int /\ use \in Nat /\ use <= n /\ (use > 0 => Asks /\ use <= Left(due))
    BY <1>0, <2>0 DEF Least, Asks, Left, PaidIn
  <2>3. funds' \in Nat
    BY <1>0, <2>0, <2>1, <2>2
  <2>4. CASE use > 0
    <3>1. use \in 0 .. Left(due)
      BY <1>0, <2>2, <2>4 DEF Left, PaidIn
    <3> QED BY <2>1, <2>2, <2>3, <2>4, <3>1, CashKeeps
  <2>5. CASE ~ use > 0
    <3>1. UNCHANGED <<due, scan, account, closing>>
      BY <2>1, <2>5
    <3>2. CloseIsRight'
      BY <3>1 DEF DuesInv, CloseIsRight, Asks, Left, PaidIn
    <3> QED BY <2>3, <3>1, <3>2, DueStays
  <2> QED BY <2>4, <2>5
<1>8. ASSUME NEW n \in 1 .. Amount + MostFunds, RefundFunds(n) PROVE DuesInv'
  <2>1. funds' \in Nat /\ UNCHANGED <<due, scan, account, closing>>
    BY <1>0, <1>8 DEF RefundFunds
  <2>2. CloseIsRight'
    BY <2>1 DEF DuesInv, CloseIsRight, Asks, Left, PaidIn
  <2> QED BY <2>1, <2>2, DueStays
<1>9. ASSUME NEW s \in Scanners, NEW day \in 1 .. LastScan, ReadForScan(s, day)
      PROVE  DuesInv'
  <2> DEFINE base == due.total - LinesOf(due.lines) - PaidIn(due)
             new == [on |-> TRUE, lines |-> due.lines, day |-> day, base |-> base]
  <2>1. /\ due.status \in Collectable /\ scan' = [scan EXCEPT ![s] = new]
        /\ UNCHANGED <<due, account, funds, closing>>
    BY <1>9 DEF ReadForScan
  <2>2. LinesOf(due.lines) \in Nat /\ due.lines \in Seq(Nat)
    BY LinesAreNat DEF DuesInv, DuesTypes, DueRows
  <2>3. base \in Int /\ (Left(due) <= 0 => base <= 0)
    BY <1>0, <2>2 DEF Left, PaidIn
  <2> HIDE DEF base
  <2>4. DuesTypes'
    BY <2>1, <2>2, <2>3, DuesAssumption DEF DuesInv, DuesTypes, DueRows
  <2>5. DraftUntouched'
    BY <2>1 DEF DraftUntouched, Collectable
  <2>6. StaleHarmless'
    <3>1. \A t \in Scanners : scan'[t] = new \/ scan'[t] = scan[t]
      BY <2>1 DEF DuesInv, DuesTypes, DueRows
    <3>2. Left(due)' = Left(due)
      BY <2>1 DEF Left, PaidIn
    <3> QED BY <2>1, <2>3, <3>1, <3>2 DEF DuesInv, StaleHarmless
  <2>7. CloseIsRight'
    BY <2>1 DEF DuesInv, CloseIsRight, Asks, Left, PaidIn
  <2> QED BY <2>4, <2>5, <2>6, <2>7 DEF DuesInv
<1>10. CASE Reverse
  <2> DEFINE ok == due.status \in Collectable
                   \/ (due.status = "PAID" /\ due.applied > 0)
  <2>1. UNCHANGED <<account, scan, closing>>
    BY <1>10 DEF Reverse
  <2>2. CASE ok
    <3>1. /\ due' = [due EXCEPT !.status = "REVERSED", !.applied = 0]
          /\ funds' = funds + due.applied
      BY <1>10, <2>2 DEF Reverse
    <3>2. due' \in DueRows /\ due'.status = "REVERSED" /\ funds' \in Nat
      <4>1. due \in DueRows
        BY DEF DuesInv, DuesTypes
      <4>2. due' = [status |-> "REVERSED", lines |-> due.lines,
                    total |-> due.total, cash |-> due.cash, applied |-> 0]
        BY <3>1, <4>1 DEF DueRows
      <4> QED BY <1>0, <3>1, <4>1, <4>2 DEF DueRows
    <3>3. DuesTypes'
      BY <2>1, <3>2 DEF DuesInv, DuesTypes
    <3>4. DraftUntouched' /\ StaleHarmless' /\ CloseIsRight'
      BY <3>2 DEF DraftUntouched, StaleHarmless, CloseIsRight, Asks, Collectable
    <3> QED BY <3>3, <3>4 DEF DuesInv
  <2>3. CASE ~ ok
    <3>1. UNCHANGED <<due, funds>>
      BY <1>10, <2>3 DEF Reverse
    <3>2. CloseIsRight'
      BY <2>1, <3>1 DEF DuesInv, CloseIsRight, Asks, Left, PaidIn
    <3> QED BY <1>0, <2>1, <3>1, <3>2, DueStays
  <2> QED BY <2>2, <2>3
<1>11. CASE UNCHANGED duesVars
  <2>1. UNCHANGED <<due, scan, funds, account, closing>>
    BY <1>11 DEF duesVars
  <2>2. CloseIsRight'
    BY <2>1 DEF DuesInv, CloseIsRight, Asks, Left, PaidIn
  <2> QED BY <1>0, <2>1, <2>2, DueStays
<1> QED
  BY <1>1, <1>2, <1>3, <1>4, <1>5, <1>6, <1>7, <1>8, <1>9, <1>10, <1>11, WriteKeeps
  DEF DuesNext

(* An account closes settled and stays so, if at most one penalty scan is  *)
(* under way at a time.                                                    *)
THEOREM ClosedAccountsOweNothing ==
  ASSUME OneScanner
  PROVE  DuesSpec => []ClosedOwesNothing
<1>1. DuesInv => ClosedOwesNothing
  BY DEF DuesInv, CloseIsRight, ClosedOwesNothing, Asks
<1>2. DuesInv /\ [DuesNext]_duesVars => DuesInv'
  BY DuesStep
<1> QED BY <1>1, <1>2, DuesInitHolds, PTL DEF DuesSpec

(* The penalty of the bill, with at most one scan under way: what the scan *)
(* has read of the line is the line, so that a write replaces it and moves *)
(* the total by the difference.                                            *)
LineIsRead ==
    /\ Len(due.lines) <= 1
    /\ due.total = (IF due.status = "NONE" THEN 0 ELSE Amount) + LinesOf(due.lines)
    /\ due.status = "NONE" => due.lines = <<>>
    /\ \A s \in Scanners : scan[s].on => scan[s].lines = due.lines

LEMMA LinesInit == DuesInit => LineIsRead
<1>1. LinesOf(<<>>) = 0
  BY SumNone DEF LinesOf
<1> QED BY <1>1 DEF DuesInit, LineIsRead, NoDue, NoScan

LEMMA OneLine ==
  ASSUME NEW l \in Seq(Nat), Len(l) = 1
  PROVE  LinesOf(l) = l[1]
<1>1. SumTo(l, 1) = SumTo(l, 0) + l[1]
  BY SumNext
<1> QED BY <1>1, SumNone DEF LinesOf

(* What leaves the lines, the total and what the scans have read alone.    *)
LEMMA LinesStay ==
  ASSUME LineIsRead, due'.lines = due.lines, due'.total = due.total,
         (due.status = "NONE") <=> (due'.status = "NONE"), UNCHANGED scan
  PROVE  LineIsRead'
BY DEF LineIsRead, LinesOf

LEMMA WriteKeepsLine ==
  ASSUME OneScanner, DuesInv, LineIsRead, NEW s \in Scanners, WriteScan(s)
  PROVE  /\ LineIsRead' /\ due'.status = due.status
         /\ due'.total - LinesOf(due'.lines) = due.total - LinesOf(due.lines)
<1> DEFINE amount == DueFor(scan[s].base, scan[s].day)
           delta == amount - LinesOf(due.lines)
           lines == IF due.lines = <<>> THEN Append(due.lines, amount)
                    ELSE [due.lines EXCEPT ![1] = amount]
<1>1. /\ scan[s].on /\ scan' = [scan EXCEPT ![s] = NoScan]
      /\ due' = IF scan[s].base <= 0 \/ delta = 0 THEN due
                ELSE [due EXCEPT !.lines = lines, !.total = @ + delta]
  BY DEF WriteScan, DeltaOf, LineIsRead
<1>2. \A t \in Scanners : ~ scan'[t].on
  BY <1>1 DEF OneScanner, DuesInv, DuesTypes, NoScan
<1>3. /\ due.lines \in Seq(Nat) /\ LinesOf(due.lines) \in Nat /\ due.total \in Int
      /\ Amount \in Nat /\ Len(due.lines) \in {0, 1} /\ due.status # "NONE"
      /\ due.total = Amount + LinesOf(due.lines)
  <2>1. due.lines \in Seq(Nat) /\ due.total \in Int
    BY DEF DuesInv, DuesTypes, DueRows
  <2>2. due.status # "NONE"
    BY <1>1 DEF DuesInv, DraftUntouched
  <2>3. Len(due.lines) \in Nat /\ Len(due.lines) <= 1
    BY <2>1 DEF LineIsRead
  <2>4. Len(due.lines) \in {0, 1}
    <3>1. \A n \in Nat : n <= 1 => n \in {0, 1}
      OBVIOUS
    <3> QED BY <2>3, <3>1
  <2>5. due.total = Amount + LinesOf(due.lines)
    BY <2>2 DEF LineIsRead
  <2> QED BY <2>1, <2>2, <2>4, <2>5, LinesAreNat, DuesAssumption
<1>4. CASE scan[s].base <= 0 \/ delta = 0
  <2>1. due' = due
    BY <1>1, <1>4
  <2> QED BY <1>2, <2>1 DEF LineIsRead
<1>5. CASE ~ (scan[s].base <= 0 \/ delta = 0)
  <2>1. due' = [due EXCEPT !.lines = lines, !.total = @ + delta]
    BY <1>1, <1>5
  <2>2. amount \in Nat
    BY <1>5, DueForNat DEF DuesInv, DuesTypes
  <2>3. lines \in Seq(Nat) /\ Len(lines) = 1 /\ lines[1] = amount
    <3> HIDE DEF amount
    <3>1. CASE due.lines = <<>>
      <4>1. lines = Append(due.lines, amount)
        BY <3>1
      <4>2. Append(<<>>, amount) = <<amount>>
        OBVIOUS
      <4>3. lines = <<amount>>
        BY <3>1, <4>1, <4>2
      <4> HIDE DEF lines
      <4> QED BY <2>2, <4>3
    <3>2. CASE due.lines # <<>>
      <4>1. Len(due.lines) = 1
        BY <1>3, <3>2, EmptySeq
      <4>2. lines = [due.lines EXCEPT ![1] = amount]
        BY <3>2
      <4>3. lines \in Seq(Nat)
        BY <1>3, <2>2, <4>2, SetFirst
      <4> QED BY <1>3, <2>2, <4>1, <4>2, <4>3
    <3> QED BY <3>1, <3>2
  <2> HIDE DEF lines, amount
  <2>4. LinesOf(lines) = amount
    BY <2>3, OneLine
  <2>5. due'.lines = lines /\ due'.total = due.total + delta /\ due'.status = due.status
    BY <2>1 DEF DuesInv, DuesTypes, DueRows
  <2>6. due'.total = Amount + amount
    BY <1>3, <2>2, <2>5
  <2>7. LinesOf(due'.lines) = amount /\ Len(due'.lines) = 1
    BY <2>3, <2>4, <2>5
  <2>8. LineIsRead'
    <3>1. LinesOf(due.lines)' = LinesOf(due'.lines)
      BY DEF LinesOf
    <3> QED BY <1>2, <1>3, <2>5, <2>6, <2>7, <3>1 DEF LineIsRead
  <2> QED BY <1>3, <2>2, <2>5, <2>6, <2>7, <2>8
<1> QED BY <1>4, <1>5

(* A step that leaves the stage and the charge of the bill alone.          *)
LEMMA DueLifeStays ==
  ASSUME StageOfDue(due'.status) = StageOfDue(due.status),
         due'.total - LinesOf(due'.lines) = due.total - LinesOf(due.lines)
  PROVE  UNCHANGED DueLife!lifeVars
BY DEF DueLife!lifeVars, LinesOf, StageOfDue

(* The bill in the terms of BillLife, before and after a step.             *)
LEMMA DueStages ==
  ASSUME NEW x, NEW y, x = StageOfDue(due.status), y = StageOfDue(due'.status),
         due'.total - LinesOf(due'.lines) \in Int, x # y,
         \/ x = "NONE" /\ y = "DRAFT"
         \/ /\ <<x, y>> \in {<<"DRAFT", "STANDING">>, <<"STANDING", "REVERSED">>}
            /\ due'.total - LinesOf(due'.lines) = due.total - LinesOf(due.lines)
  PROVE  DueLife!LifeNext
<1> DEFINE life == [b \in {1} |-> StageOfDue(due.status)]
           charge == [b \in {1} |-> due.total - LinesOf(due.lines)]
<1>1. /\ life[1] = x /\ life' = [b \in {1} |-> y]
      /\ charge' = [b \in {1} |-> due'.total - LinesOf(due'.lines)]
  BY DEF StageOfDue, LinesOf
<1>2. CASE x = "NONE" /\ y = "DRAFT"
  <2>1. life' = [b \in {1} |-> IF b \in {1} THEN "DRAFT" ELSE life[b]]
    BY <1>1, <1>2
  <2>2. charge' \in [{1} -> Int]
    BY <1>1
  <2>3. DueLife!Draft({1})
    BY <1>1, <1>2, <2>1, <2>2 DEF DueLife!Draft, DueLife!Become, DueLife!Keep
  <2> QED BY <2>3 DEF DueLife!LifeNext
<1>3. CASE ~ (x = "NONE" /\ y = "DRAFT")
  <2>1. charge' = charge
    BY <1>1, <1>3
  <2>2. life' = [b \in {1} |-> IF b \in {1} THEN y ELSE life[b]]
    BY <1>1
  <2>3. CASE x = "DRAFT"
    <3>1. DueLife!Issue(1)
      BY <1>1, <1>3, <2>1, <2>2, <2>3 DEF DueLife!Issue, DueLife!Become
    <3> QED BY <3>1 DEF DueLife!LifeNext
  <2>4. CASE x = "STANDING"
    <3>1. DueLife!Reverse(1)
      BY <1>1, <1>3, <2>1, <2>2, <2>4 DEF DueLife!Reverse, DueLife!Become
    <3> QED BY <3>1 DEF DueLife!LifeNext
  <2> QED BY <1>3, <2>3, <2>4
<1> QED BY <1>2, <1>3

LEMMA LineStep ==
  ASSUME OneScanner, DuesInv, LineIsRead, [DuesNext]_duesVars
  PROVE  LineIsRead' /\ (DueLife!LifeNext \/ UNCHANGED DueLife!lifeVars)
<1>0. /\ due \in DueRows /\ due.lines \in Seq(Nat) /\ LinesOf(due.lines) \in Nat
      /\ due.total \in Int /\ Amount \in Nat
  BY LinesAreNat, DuesAssumption DEF DuesInv, DuesTypes, DueRows
<1>1. CASE UNCHANGED <<due, scan>>
  <2>1. due' = due /\ scan' = scan
    BY <1>1
  <2> QED BY <2>1, LinesStay, DueLifeStays
<1>2. CASE Generate
  <2>1. /\ due'.status = "DRAFT" /\ due'.total = Amount /\ due'.lines = <<>>
        /\ due.status = "NONE" /\ due.lines = <<>> /\ UNCHANGED scan
    BY <1>2 DEF Generate, NoDue
  <2>2. LinesOf(<<>>) = 0 /\ LinesOf(due'.lines) = 0 /\ LinesOf(due.lines)' = 0
    BY <2>1, SumNone DEF LinesOf
  <2>3. LineIsRead'
    BY <1>0, <2>1, <2>2 DEF LineIsRead
  <2>4. StageOfDue(due.status) = "NONE" /\ StageOfDue(due'.status) = "DRAFT"
    BY <2>1 DEF StageOfDue, Collectable
  <2> QED BY <1>0, <2>1, <2>2, <2>3, <2>4, DueStages
(* A payment, a posting or a reversal: d is the bill with what it is paid. *)
<1>3. ASSUME NEW st \in {"POSTED", "PARTIAL_PAID", "PAID", "REVERSED"},
             due'.status = st, due'.lines = due.lines, due'.total = due.total,
             UNCHANGED scan,
             \/ due.status = "DRAFT" /\ st # "REVERSED"
             \/ due.status \in Collectable \cup {"PAID"}
      PROVE  LineIsRead' /\ (DueLife!LifeNext \/ UNCHANGED DueLife!lifeVars)
  <2>1. LineIsRead'
    BY <1>3, LinesStay DEF Collectable
  <2>2. /\ StageOfDue(due.status) = IF due.status = "DRAFT" THEN "DRAFT" ELSE "STANDING"
        /\ StageOfDue(due'.status) = IF st = "REVERSED" THEN "REVERSED" ELSE "STANDING"
    BY <1>3 DEF StageOfDue, Collectable
  <2>3. /\ due'.total - LinesOf(due'.lines) = due.total - LinesOf(due.lines)
        /\ due.total - LinesOf(due.lines) \in Int
    BY <1>0, <1>3
  <2>4. CASE StageOfDue(due'.status) = StageOfDue(due.status)
    BY <2>1, <2>3, <2>4, DueLifeStays
  <2>5. CASE StageOfDue(due'.status) # StageOfDue(due.status)
    <3> DEFINE x == StageOfDue(due.status)
               y == StageOfDue(due'.status)
    <3>1. /\ x = StageOfDue(due.status) /\ y = StageOfDue(due'.status) /\ x # y
          /\ x = IF due.status = "DRAFT" THEN "DRAFT" ELSE "STANDING"
          /\ y = IF st = "REVERSED" THEN "REVERSED" ELSE "STANDING"
      BY <2>2, <2>5
    <3> HIDE DEF x, y
    <3>2. CASE due.status = "DRAFT"
      <4>1. st # "REVERSED"
        BY <1>3, <3>2 DEF Collectable
      <4>2. x = "DRAFT" /\ y = "STANDING"
        BY <3>1, <3>2, <4>1
      <4> QED BY <2>1, <2>3, <3>1, <4>2, DueStages
    <3>3. CASE due.status # "DRAFT"
      <4>1. x = "STANDING" /\ y = "REVERSED"
        BY <3>1, <3>3
      <4> QED BY <2>1, <2>3, <3>1, <4>1, DueStages
    <3> QED BY <3>2, <3>3
  <2> QED BY <2>4, <2>5
<1>4. \A d : PaidStatus(d) \in {"POSTED", "PARTIAL_PAID", "PAID"}
  BY DEF PaidStatus
<1>5. CASE Post
  <2>1. PICK use, d : /\ d = [due EXCEPT !.applied = use]
                      /\ due' = [d EXCEPT !.status = PaidStatus(d)]
                      /\ due.status = "DRAFT" /\ UNCHANGED scan
    BY <1>5 DEF Post
  <2>2. PICK st \in {"POSTED", "PARTIAL_PAID", "PAID", "REVERSED"} :
           st = PaidStatus(d) /\ st # "REVERSED"
    BY <1>4
  <2>3. due'.status = st /\ due'.lines = due.lines /\ due'.total = due.total
    BY <1>0, <2>1, <2>2 DEF DueRows
  <2> QED BY <1>3, <2>1, <2>2, <2>3
<1>6. ASSUME NEW use, due' = [[due EXCEPT !.cash = @ + use] EXCEPT !.status =
                                PaidStatus([due EXCEPT !.cash = @ + use])],
             due.status \in Collectable, UNCHANGED scan
      PROVE  LineIsRead' /\ (DueLife!LifeNext \/ UNCHANGED DueLife!lifeVars)
  <2>1. PICK d : d = [due EXCEPT !.cash = @ + use]
    OBVIOUS
  <2>2. PICK st \in {"POSTED", "PARTIAL_PAID", "PAID", "REVERSED"} :
           st = PaidStatus(d) /\ st # "REVERSED"
    BY <1>4
  <2>3. due'.status = st /\ due'.lines = due.lines /\ due'.total = due.total
    BY <1>0, <1>6, <2>1, <2>2 DEF DueRows
  <2> QED BY <1>3, <1>6, <2>2, <2>3
<1>7. ASSUME NEW n \in 1 .. Amount + MostFunds, PayDue(n)
      PROVE  LineIsRead' /\ (DueLife!LifeNext \/ UNCHANGED DueLife!lifeVars)
  BY <1>6, <1>7 DEF PayDue
<1>8. ASSUME NEW n \in 1 .. Amount + MostFunds, PayAhead(n)
      PROVE  LineIsRead' /\ (DueLife!LifeNext \/ UNCHANGED DueLife!lifeVars)
  <2> DEFINE debt == IF due.status \in Collectable THEN Left(due) ELSE 0
             use  == IF debt > 0 THEN Least(n, debt) ELSE 0
             d    == [due EXCEPT !.cash = @ + use]
  <2>1. /\ due' = IF use > 0 THEN [d EXCEPT !.status = PaidStatus(d)] ELSE due
        /\ UNCHANGED scan
    BY <1>8 DEF PayAhead
  <2>2. CASE use > 0
    <3>1. due.status \in Collectable
      BY <2>2
    <3> HIDE DEF use
    <3> QED BY <1>6, <2>1, <2>2, <3>1
  <2>3. CASE ~ use > 0
    BY <1>1, <2>1, <2>3
  <2> QED BY <2>2, <2>3
<1>9. ASSUME NEW s \in Scanners, NEW day \in 1 .. LastScan, ReadForScan(s, day)
      PROVE  LineIsRead' /\ (DueLife!LifeNext \/ UNCHANGED DueLife!lifeVars)
  <2>1. /\ due' = due
        /\ \E base : scan' = [scan EXCEPT ![s] = [on |-> TRUE, lines |-> due.lines,
                                                  day |-> day, base |-> base]]
    BY <1>9 DEF ReadForScan
  <2>2. \A t \in Scanners : scan'[t] = scan[t] \/ scan'[t].lines = due.lines
    BY <2>1 DEF DuesInv, DuesTypes
  <2>3. LinesOf(due.lines)' = LinesOf(due.lines)
    BY <2>1 DEF LinesOf
  <2>4. LineIsRead'
    BY <2>1, <2>2, <2>3 DEF LineIsRead
  <2> QED BY <2>1, <2>4, DueLifeStays
<1>10. ASSUME NEW s \in Scanners, WriteScan(s)
       PROVE  LineIsRead' /\ (DueLife!LifeNext \/ UNCHANGED DueLife!lifeVars)
  BY <1>10, WriteKeepsLine, DueLifeStays
<1>11. CASE Reverse
  <2>1. UNCHANGED scan
    BY <1>11 DEF Reverse
  <2>2. CASE due.status \in Collectable \/ (due.status = "PAID" /\ due.applied > 0)
    <3>1. due' = [due EXCEPT !.status = "REVERSED", !.applied = 0]
      BY <1>11, <2>2 DEF Reverse
    <3>2. /\ due'.status = "REVERSED" /\ due'.lines = due.lines /\ due'.total = due.total
          /\ due.status \in Collectable \cup {"PAID"}
      BY <1>0, <2>2, <3>1 DEF DueRows
    <3> QED BY <1>3, <2>1, <3>2
  <2>3. CASE ~ (due.status \in Collectable \/ (due.status = "PAID" /\ due.applied > 0))
    <3>1. UNCHANGED due
      BY <1>11, <2>3 DEF Reverse
    <3> QED BY <1>1, <2>1, <3>1
  <2> QED BY <2>2, <2>3
<1>12. RunReads \/ (\E n \in 1 .. Amount + MostFunds : RefundFunds(n)) \/ ReadHead
         \/ LockToClose \/ CheckDebts \/ CheckFunds \/ Close \/ UNCHANGED duesVars
       => UNCHANGED <<due, scan>>
  BY DEF RunReads, RefundFunds, ReadHead, LockToClose, CheckDebts, CheckFunds, Close, duesVars
<1> QED
  BY <1>1, <1>2, <1>5, <1>7, <1>8, <1>9, <1>10, <1>11, <1>12 DEF DuesNext

(* A bill has one penalty line and its total is the charge and that line,  *)
(* whatever is paid, posted or reversed while a scan is under way, if at   *)
(* most one is: it takes two scans to break what accrueTx promises.        *)
THEOREM OneLinePerBill ==
  ASSUME OneScanner
  PROVE  DuesSpec => []OnePenaltyLine
<1>1. DuesInv /\ LineIsRead => OnePenaltyLine
  BY DEF OnePenaltyLine, LineIsRead
<1>2. DuesInv /\ LineIsRead /\ [DuesNext]_duesVars => (DuesInv /\ LineIsRead)'
  BY DuesStep, LineStep
<1> QED BY <1>1, <1>2, DuesInitHolds, LinesInit, PTL DEF DuesSpec

(* The bill of AccountDues implements BillLife: scans and corrections that *)
(* write what they read earlier never change what it charges, issue it     *)
(* twice or bring it back.                                                 *)
THEOREM DueLives ==
  ASSUME OneScanner
  PROVE  DuesSpec => DueKeepsItsLife
<1>1. DuesInit => DueLife!LifeInit
  <2> SUFFICES ASSUME DuesInit PROVE DueLife!LifeInit
    OBVIOUS
  <2>1. due.status = "NONE" /\ due.total - LinesOf(due.lines) = 0
    BY SumNone DEF DuesInit, NoDue, LinesOf
  <2> QED BY <2>1 DEF DueLife!LifeInit, StageOfDue, Collectable
<1>2. DuesInv /\ LineIsRead /\ [DuesNext]_duesVars
        => (DuesInv /\ LineIsRead)' /\ [DueLife!LifeNext]_DueLife!lifeVars
  BY DuesStep, LineStep
<1> QED
  BY <1>1, <1>2, DuesInitHolds, LinesInit, PTL DEF DuesSpec, DueKeepsItsLife, DueLife!LifeSpec
-----------------------------------------------------------------------------
Statuses == {"NONE", "PENDING", "SUCCESS", "FAILED", "SKIPPED"}
ItemRows == [status : Statuses, amount : Int, paid : Int]
Owed == [Months -> 0 .. MostOwed]
Charges == [house : Houses \cup {NoHouse}, alloc : Owed]
Execs == [on : BOOLEAN, agreed : SUBSET Houses, charge : Charges,
          row : [Houses -> ItemRows], alloc : [Houses -> Owed]]
BatchRows == [month : 0 .. LastMonth, done : BOOLEAN]
DebitTypes ==
    /\ agreed \subseteq Houses
    /\ owed \in [Houses -> Owed]
    /\ batch \in [Batches -> BatchRows]
    /\ item \in [Batches -> [Houses -> ItemRows]]
    /\ taken \in [Batches -> [Houses -> Nat]]
    /\ draft \in [Batches -> [month : 0 .. LastMonth, amount : [Houses -> Int]]]
    /\ exec \in [Batches -> Execs]

(* What a SUCCESS row r of household h in batch k entails.                 *)
Collected(k, h, r) ==
    /\ 0 < r.paid /\ r.paid <= item[k][h].amount /\ r.amount = item[k][h].amount
    /\ r.paid <= taken[k][h]
    /\ \A j \in Batches \ {k} : batch[j].month = batch[k].month => ~ Has(j, h, "SUCCESS")

ItemInv == \A k \in Batches, h \in Houses :
    /\ Has(k, h, "SUCCESS") => Collected(k, h, item[k][h])
    /\ batch[k].done => ~ Has(k, h, "PENDING")
    /\ ~ batch[k].done => item[k][h].status \in {"NONE", "PENDING"}
OnePending == \A k, j \in Batches, h \in Houses :
    k # j /\ batch[k].month = batch[j].month => ~ (Has(k, h, "PENDING") /\ Has(j, h, "PENDING"))

(* A positive amount n that the bank took for an item and it announced.    *)
Backed(k, h, n) == 0 < n /\ n <= item[k][h].amount /\ n <= taken[k][h]

(* What the execution of batch k may rely on while its record is e.        *)
ExecGood(k, e) ==
    /\ ~ e.on => e = NoExec
    /\ e.on => batch[k] # NoBatch /\ ~ batch[k].done
    /\ \A h \in Houses :
          /\ e.row[h].status = "PENDING" => Has(k, h, "PENDING") /\ e.row[h] = item[k][h]
          /\ e.row[h].status = "SUCCESS" => Has(k, h, "PENDING") /\ Collected(k, h, e.row[h])
    /\ e.charge # NoCharge =>
          /\ e.on /\ e.charge.house \in Houses
          /\ e.row[e.charge.house].status = "PENDING"
          /\ Backed(k, e.charge.house, SumTo(e.charge.alloc, LastMonth))
ExecInv ==
    /\ \A k \in Batches : draft[k] # NoDraft => batch[k] = NoBatch
    /\ \A k \in Batches, e \in Execs : exec[k] = e => ExecGood(k, e)

AllocInv == \A k \in Batches, h \in Houses, m \in Months :
    /\ exec[k].alloc[h][m] <= owed[h][m]
    /\ \A j \in Batches \ {k} : exec[k].alloc[h][m] = 0 \/ exec[j].alloc[h][m] = 0

DebitInv == DebitTypes /\ ItemInv /\ OnePending /\ ExecInv /\ AllocInv

LEMMA EmptyRows ==
    /\ NoItem \in ItemRows /\ NoItem.status = "NONE" /\ NoAlloc \in Owed
    /\ \A m \in Months : NoAlloc[m] = 0
    /\ NoExec \in Execs /\ NoExec.on = FALSE /\ NoExec.charge = NoCharge
    /\ \A h \in Houses : NoExec.row[h] = NoItem /\ NoExec.alloc[h] = NoAlloc
<1>1. NoItem \in ItemRows /\ NoItem.status = "NONE"
  BY DEF NoItem, ItemRows, Statuses
<1>2. NoAlloc \in Owed /\ \A m \in Months : NoAlloc[m] = 0
  BY DebitAssumption DEF NoAlloc, Owed
<1>3. NoCharge \in Charges
  BY <1>2 DEF NoCharge, Charges
<1>4. /\ NoExec \in Execs /\ NoExec.on = FALSE /\ NoExec.charge = NoCharge
      /\ \A h \in Houses : NoExec.row[h] = NoItem /\ NoExec.alloc[h] = NoAlloc
  BY <1>1, <1>2, <1>3 DEF NoExec, Execs
<1> QED
  BY <1>1, <1>2, <1>4

LEMMA DueInt ==
    ASSUME DebitTypes, NEW h \in Houses, NEW m \in 0 .. LastMonth
    PROVE  Due(h, m) \in Int
<1>1. m \in Nat /\ \A i \in 1 .. m : owed[h][i] \in Int
  BY DebitAssumption DEF DebitTypes, Owed, Months
<1> QED
  BY <1>1, SumInt DEF Due

LEMMA DebitStart == DebitInit => DebitInv
<1> SUFFICES ASSUME DebitInit PROVE DebitInv
  OBVIOUS
<1>1. DebitTypes
  <2>1. NoBatch \in BatchRows
    BY DebitAssumption DEF NoBatch, BatchRows
  <2>2. NoDraft \in [month : 0 .. LastMonth, amount : [Houses -> Int]]
    BY DebitAssumption DEF NoDraft
  <2> QED
    BY <2>1, <2>2, EmptyRows DEF DebitInit, DebitTypes, Owed
<1>2. ItemInv /\ OnePending
  BY EmptyRows DEF DebitInit, ItemInv, OnePending, Has
<1>3. ExecInv
  BY EmptyRows DEF DebitInit, ExecInv, ExecGood
<1>4. AllocInv
  <2>1. \A h \in Houses, m \in Months : 0 <= owed[h][m]
    BY <1>1 DEF DebitTypes, Owed
  <2> QED
    BY <2>1, EmptyRows DEF DebitInit, AllocInv
<1> QED
  BY <1>1, <1>2, <1>3, <1>4 DEF DebitInv
-----------------------------------------------------------------------------
(* Steps at the counter and the desk.                                      *)
LEMMA SignKeeps ==
    ASSUME DebitInv, NEW h \in Houses, Sign(h) \/ Cancel(h)
    PROVE  DebitInv'
<1>1. agreed' \subseteq Houses /\ UNCHANGED <<owed, batch, item, taken, draft, exec>>
  BY DEF Sign, Cancel, DebitInv, DebitTypes
<1> QED
  BY <1>1 DEF DebitInv, DebitTypes, ItemInv, OnePending, ExecInv, ExecGood, Backed, AllocInv, Has,
            Collected

LEMMA PayCashKeeps ==
    ASSUME DebitInv, NEW h \in Houses, NEW m \in Months, NEW n \in 1 .. MostOwed,
           PayCash(h, m, n)
    PROVE  DebitInv'
<1>1. UNCHANGED <<agreed, batch, item, taken, draft, exec>>
  BY DEF PayCash
<1>2. owed[h] \in Owed /\ n \in 1 .. owed[h][m] /\ owed \in [Houses -> Owed]
  BY DEF PayCash, DebitInv, DebitTypes
<1>3. PICK rest : rest = [owed[h] EXCEPT ![m] = @ - n]
  OBVIOUS
<1>4. /\ rest \in Owed /\ \A q \in Months \ {m} : rest[q] = owed[h][q]
      /\ rest[m] >= 0
  BY <1>2, <1>3, DebitAssumption DEF Owed
<1>5. owed' = [owed EXCEPT ![h] = rest]
  BY <1>2, <1>3 DEF PayCash
<1>6. /\ owed' \in [Houses -> Owed] /\ owed'[h] = rest
      /\ \A g \in Houses \ {h} : owed'[g] = owed[g]
  BY <1>2, <1>4, <1>5
<1>7. AllocInv'
  <2> SUFFICES ASSUME NEW k \in Batches, NEW g \in Houses, NEW q \in Months
               PROVE  /\ exec[k].alloc[g][q] <= owed'[g][q]
                      /\ \A j \in Batches \ {k} :
                            exec[k].alloc[g][q] = 0 \/ exec[j].alloc[g][q] = 0
    BY <1>1 DEF AllocInv
  <2>1. CASE g = h /\ q = m
    <3>1. exec[k].alloc[h][m] \in 0 .. MostOwed /\ ~ (exec[k].alloc[h][m] > 0)
      BY DEF PayCash, Locked, DebitInv, DebitTypes, Execs, Owed
    <3>2. exec[k].alloc[h][m] = 0
      BY <3>1, DebitAssumption
    <3> QED
      BY <1>4, <1>6, <2>1, <3>2
  <2>2. CASE ~ (g = h /\ q = m)
    BY <1>4, <1>6, <2>2 DEF DebitInv, AllocInv
  <2> QED
    BY <2>1, <2>2
<1> QED
  BY <1>1, <1>6, <1>7 DEF DebitInv, DebitTypes, ItemInv, OnePending, ExecInv, ExecGood, Backed, Has,
                              Collected
-----------------------------------------------------------------------------
LEMMA ReadForBatchKeeps ==
    ASSUME DebitInv, NEW k \in Batches, NEW m \in Months, ReadForBatch(k, m)
    PROVE  DebitInv'
<1>1. UNCHANGED <<agreed, owed, batch, item, taken, exec>> /\ batch[k] = NoBatch
  BY DEF ReadForBatch
<1>2. m \in 0 .. LastMonth
  BY DEF Months
<1>3. PICK d : d = [month |-> m,
                    amount |-> [h \in Houses |->
                        IF h \in agreed /\ ~ LiveIn(h, m) THEN Due(h, m) ELSE 0]]
  OBVIOUS
<1>4. d \in [month : 0 .. LastMonth, amount : [Houses -> Int]]
  <2>1. \A h \in Houses : Due(h, m) \in Int
    BY <1>2, DueInt DEF DebitInv
  <2> QED
    BY <1>2, <1>3, <2>1
<1>5. draft' = [draft EXCEPT ![k] = d]
  BY <1>3 DEF ReadForBatch
<1>6. DebitTypes'
  BY <1>1, <1>4, <1>5 DEF DebitInv, DebitTypes
<1>7. \A j \in Batches : draft'[j] # NoDraft => batch[j] = NoBatch
  BY <1>1, <1>5 DEF DebitInv, DebitTypes, ExecInv
<1>8. ExecInv'
  BY <1>1, <1>7 DEF DebitInv, ExecInv, ExecGood, Backed, Has, Collected
<1> QED
  BY <1>1, <1>6, <1>8 DEF DebitInv, ItemInv, OnePending, AllocInv, Has, Collected

(* The items of a new batch are PENDING or absent, and it has no execution.*)
LEMMA SaveBatchKeeps ==
    ASSUME DebitInv, NEW k \in Batches, SaveBatch(k)
    PROVE  DebitInv'
<1>1. /\ draft[k] # NoDraft /\ batch[k] = NoBatch /\ draft' = [draft EXCEPT ![k] = NoDraft]
      /\ UNCHANGED <<agreed, owed, taken, exec>>
  BY DEF SaveBatch, DebitInv, ExecInv
<1>2. PICK d \in [month : 0 .. LastMonth, amount : [Houses -> Int]] : d = draft[k]
  BY DEF DebitInv, DebitTypes
<1>3. NoDraft \in [month : 0 .. LastMonth, amount : [Houses -> Int]]
  BY DebitAssumption DEF NoDraft
<1>4. /\ draft' \in [Batches -> [month : 0 .. LastMonth, amount : [Houses -> Int]]]
      /\ draft'[k] = NoDraft /\ \A j \in Batches \ {k} : draft'[j] = draft[j]
  BY <1>1, <1>3 DEF DebitInv, DebitTypes
<1>5. CASE Collides(k)
  <2>1. UNCHANGED <<batch, item>>
    BY <1>5 DEF SaveBatch
  <2>2. ExecInv'
    BY <1>1, <1>4, <2>1 DEF DebitInv, ExecInv, ExecGood, Backed, Has, Collected
  <2> QED
    BY <1>1, <1>4, <2>1, <2>2
       DEF DebitInv, DebitTypes, ItemInv, OnePending, AllocInv, Has, Collected
<1>6. CASE ~ Collides(k)
  <2>1. PICK f : f = [h \in Houses |->
                        IF d.amount[h] > 0
                        THEN [status |-> "PENDING", amount |-> d.amount[h], paid |-> 0]
                        ELSE NoItem]
    OBVIOUS
  <2>2. /\ f \in [Houses -> ItemRows] /\ \A h \in Houses : f[h].status \in {"NONE", "PENDING"}
        /\ \A h \in Houses : f[h].status = "PENDING" => d.amount[h] > 0
    <3>1. \A h \in Houses : [status |-> "PENDING", amount |-> d.amount[h], paid |-> 0]
                              \in ItemRows
      BY DEF ItemRows, Statuses
    <3> QED
      BY <2>1, <3>1, EmptyRows
  <2>3. item' = [item EXCEPT ![k] = f] /\ batch' = [batch EXCEPT ![k].month = d.month]
    BY <1>2, <1>6, <2>1 DEF SaveBatch
  <2>4. /\ item' \in [Batches -> [Houses -> ItemRows]] /\ item'[k] = f
        /\ \A j \in Batches \ {k} : item'[j] = item[j]
    BY <2>2, <2>3 DEF DebitInv, DebitTypes
  <2>5. /\ batch' \in [Batches -> BatchRows] /\ batch'[k].month = d.month
        /\ batch'[k].done = FALSE
        /\ \A j \in Batches \ {k} : batch'[j] = batch[j]
    <3>1. PICK b : b = [NoBatch EXCEPT !.month = d.month]
      OBVIOUS
    <3>2. b \in BatchRows /\ b.month = d.month /\ b.done = FALSE
      BY <3>1, DebitAssumption DEF NoBatch, BatchRows
    <3>3. batch' = [batch EXCEPT ![k] = b]
      BY <1>1, <2>3, <3>1
    <3> QED
      BY <3>2, <3>3 DEF DebitInv, DebitTypes
  <2>6. \A h \in Houses : ~ Has(k, h, "SUCCESS") /\ ~ (item'[k][h].status = "SUCCESS")
    <3>1. \A h \in Houses : item[k][h].status \in {"NONE", "PENDING"}
      BY <1>1 DEF DebitInv, ItemInv, NoBatch
    <3> QED
      BY <2>2, <2>4, <3>1 DEF Has
  <2>7. \A j \in Batches \ {k}, h \in Houses :
           batch[j].month = d.month /\ Has(j, h, "PENDING") => f[h].status # "PENDING"
    BY <1>2, <1>6, <2>2 DEF Collides
  <2>8. OnePending'
    <3> SUFFICES ASSUME NEW i \in Batches, NEW j \in Batches, NEW h \in Houses, i # j,
                        batch'[i].month = batch'[j].month,
                        item'[i][h].status = "PENDING", item'[j][h].status = "PENDING"
                 PROVE  FALSE
      BY DEF OnePending, Has
    <3>1. CASE i = k
      BY <2>4, <2>5, <2>7, <3>1 DEF Has
    <3>2. CASE j = k
      BY <2>4, <2>5, <2>7, <3>2 DEF Has
    <3>3. CASE i # k /\ j # k
      BY SMTT(60), <2>4, <2>5, <3>3 DEF DebitInv, OnePending, Has
    <3> QED
      BY <3>1, <3>2, <3>3
  <2>9. ASSUME NEW j \in Batches \ {k}, NEW h \in Houses, NEW r \in ItemRows,
               Collected(j, h, r)
        PROVE  Collected(j, h, r)'
    BY <1>1, <2>4, <2>5, <2>6, <2>9 DEF Collected, Has
  <2>10. ItemInv'
    <3> SUFFICES ASSUME NEW j \in Batches, NEW h \in Houses
                 PROVE  /\ Has(j, h, "SUCCESS")' => Collected(j, h, item[j][h])'
                        /\ batch'[j].done => ~ Has(j, h, "PENDING")'
                        /\ ~ batch'[j].done => item'[j][h].status \in {"NONE", "PENDING"}
      BY DEF ItemInv
    <3>1. CASE j = k
      BY <2>2, <2>4, <2>5, <2>6, <3>1 DEF Has
    <3>2. CASE j # k
      <4>1. PICK r \in ItemRows : r = item[j][h]
        BY DEF DebitInv, DebitTypes
      <4>2. item'[j][h] = r /\ batch'[j] = batch[j]
        BY <2>4, <2>5, <3>2, <4>1
      <4>3. r.status = "SUCCESS" => Collected(j, h, r)'
        BY <2>9, <3>2, <4>1 DEF DebitInv, ItemInv, Has
      <4> QED
        BY <3>2, <4>1, <4>2, <4>3 DEF DebitInv, ItemInv, Has, Collected
    <3> QED
      BY <3>1, <3>2
  <2>11. ExecInv'
    <3> SUFFICES ASSUME NEW j \in Batches, NEW e \in Execs, exec'[j] = e
                 PROVE  ExecGood(j, e)' /\ (draft'[j] # NoDraft => batch'[j] = NoBatch)
      <4>1. \A j \in Batches : exec'[j] \in Execs
        BY <1>1 DEF DebitInv, DebitTypes
      <4> QED
        BY <4>1 DEF ExecInv
    <3>0. ExecGood(j, e) /\ exec[j] = e
      BY <1>1 DEF DebitInv, ExecInv
    <3>1. CASE j = k
      <4>1. e = NoExec
        BY <1>1, <3>0, <3>1 DEF ExecGood
      <4> QED
        BY <1>4, <3>1, <4>1, EmptyRows DEF ExecGood
    <3>2. CASE j # k
      <4>1. item'[j] = item[j] /\ batch'[j] = batch[j] /\ draft'[j] = draft[j]
        BY <1>4, <2>4, <2>5, <3>2
      <4>2. \A h \in Houses : e.row[h].status = "SUCCESS" => Collected(j, h, e.row[h])'
        <5>1. \A h \in Houses : e.row[h] \in ItemRows
          BY DEF Execs
        <5> QED
          BY <2>9, <3>0, <3>2, <5>1 DEF ExecGood
      <4> QED
        BY <1>1, <3>0, <4>1, <4>2 DEF DebitInv, ExecInv, ExecGood, Backed, Has
    <3> QED
      BY <3>1, <3>2
  <2> QED
    BY <1>1, <1>4, <2>4, <2>5, <2>8, <2>10, <2>11 DEF DebitInv, DebitTypes, AllocInv
<1> QED
  BY <1>5, <1>6
-----------------------------------------------------------------------------
(* A step of the execution of batch k, before it commits: only its record  *)
(* changes, and what the bank has taken may grow.                          *)
AllocKept(k, e) == \A h \in Houses, m \in Months :
    \/ e.alloc[h][m] = 0 \/ e.alloc[h][m] = exec[k].alloc[h][m]
    \/ /\ e.alloc[h][m] <= owed[h][m]
       /\ \A j \in Batches \ {k} : exec[j].alloc[h][m] = 0

LEMMA ExecMoves ==
    ASSUME DebitInv, NEW k \in Batches, NEW e \in Execs, exec' = [exec EXCEPT ![k] = e],
           UNCHANGED <<agreed, owed, batch, item, draft>>,
           taken' \in [Batches -> [Houses -> Nat]],
           \A j \in Batches, h \in Houses : taken[j][h] <= taken'[j][h],
           ExecGood(k, e)',
           AllocKept(k, e)
    PROVE  DebitInv'
<1>1. /\ exec' \in [Batches -> Execs] /\ exec'[k] = e
      /\ \A j \in Batches \ {k} : exec'[j] = exec[j]
  BY DEF DebitInv, DebitTypes
<1>2. ASSUME NEW j \in Batches, NEW h \in Houses, NEW r \in ItemRows, Collected(j, h, r)
      PROVE  Collected(j, h, r)'
  <2>1. r.paid \in Int
    BY DEF ItemRows
  <2>2. taken[j][h] \in Nat /\ taken'[j][h] \in Nat
    BY DEF DebitInv, DebitTypes
  <2> QED
    BY <1>2, <2>1, <2>2 DEF Collected, Has
<1>3. ItemInv'
  <2> SUFFICES ASSUME NEW j \in Batches, NEW h \in Houses
               PROVE  item'[j][h].status = "SUCCESS" => Collected(j, h, item[j][h])'
    BY DEF DebitInv, ItemInv, Has
  <2>1. PICK r \in ItemRows : r = item[j][h] /\ r = item'[j][h]
    BY DEF DebitInv, DebitTypes
  <2>2. r.status = "SUCCESS" => Collected(j, h, r)'
    BY <1>2, <2>1 DEF DebitInv, ItemInv, Has
  <2> QED
    BY <2>1, <2>2 DEF Collected
<1>4. ExecInv'
  <2>1. ASSUME NEW j \in Batches, NEW a \in Execs, exec'[j] = a PROVE ExecGood(j, a)'
    <3>1. CASE j = k
      BY <1>1, <2>1, <3>1
    <3>2. CASE j # k
      <4>1. ExecGood(j, a)
        BY <1>1, <2>1, <3>2 DEF DebitInv, ExecInv
      <4>2. \A h \in Houses : a.row[h].status = "SUCCESS" => Collected(j, h, a.row[h])'
        <5>1. \A h \in Houses : a.row[h] \in ItemRows
          BY DEF Execs
        <5> QED
          BY <1>2, <4>1, <5>1 DEF ExecGood
      <4>3. a.charge # NoCharge =>
               Backed(j, a.charge.house, SumTo(a.charge.alloc, LastMonth))'
        <5> SUFFICES ASSUME a.charge # NoCharge
                     PROVE  Backed(j, a.charge.house, SumTo(a.charge.alloc, LastMonth))'
          OBVIOUS
        <5>0. PICK n : n = SumTo(a.charge.alloc, LastMonth)
          OBVIOUS
        <5>1. a.charge.house \in Houses /\ Backed(j, a.charge.house, n)
          BY <4>1, <5>0 DEF ExecGood
        <5>2. n \in Int
          BY <5>0, SumInt, DebitAssumption DEF Execs, Charges, Owed, Months
        <5>3. taken[j][a.charge.house] \in Nat /\ taken'[j][a.charge.house] \in Nat
          BY <5>1 DEF DebitInv, DebitTypes
        <5>4. 0 < n /\ n <= item'[j][a.charge.house].amount /\ n <= taken'[j][a.charge.house]
          BY <5>1, <5>2, <5>3 DEF Backed
        <5> QED
          BY <5>0, <5>4 DEF Backed
      <4> QED
        BY <4>1, <4>2, <4>3 DEF ExecGood, Backed, Has
    <3> QED
      BY <3>1, <3>2
  <2> QED
    BY <2>1 DEF DebitInv, ExecInv
<1>5. AllocInv'
  <2> SUFFICES ASSUME NEW i \in Batches, NEW h \in Houses, NEW m \in Months
               PROVE  /\ exec'[i].alloc[h][m] <= owed[h][m]
                      /\ \A j \in Batches \ {i} :
                            exec'[i].alloc[h][m] = 0 \/ exec'[j].alloc[h][m] = 0
    BY DEF AllocInv
  <2>1. /\ owed[h][m] \in Nat /\ \A j \in Batches : exec[j].alloc[h][m] <= owed[h][m]
        /\ \A u, v \in Batches : u # v => exec[u].alloc[h][m] = 0 \/ exec[v].alloc[h][m] = 0
    BY DebitAssumption DEF DebitInv, DebitTypes, AllocInv, Owed
  <2>2. CASE i = k
    BY <1>1, <2>1, <2>2 DEF AllocKept
  <2>3. CASE i # k
    BY <1>1, <2>1, <2>3 DEF AllocKept
  <2> QED
    BY <2>2, <2>3
<1> QED
  BY <1>1, <1>3, <1>4, <1>5 DEF DebitInv, DebitTypes, OnePending, Has

LEMMA RollBackKeeps ==
    ASSUME DebitInv, NEW k \in Batches, exec' = [exec EXCEPT ![k] = NoExec],
           UNCHANGED <<agreed, owed, batch, item, taken, draft>>
    PROVE  DebitInv'
<1>1. NoExec \in Execs
  BY EmptyRows
<1>2. ExecGood(k, NoExec)'
  BY EmptyRows DEF ExecGood
<1>3. AllocKept(k, NoExec)
  BY EmptyRows DEF AllocKept
<1>4. /\ taken' \in [Batches -> [Houses -> Nat]]
      /\ \A j \in Batches, h \in Houses : taken[j][h] <= taken'[j][h]
  BY DEF DebitInv, DebitTypes
<1> QED
  BY <1>1, <1>2, <1>3, <1>4, ExecMoves

LEMMA StartKeeps ==
    ASSUME DebitInv, NEW k \in Batches, Start(k)
    PROVE  DebitInv'
<1>1. PICK e : e = [NoExec EXCEPT !.on = TRUE, !.agreed = agreed, !.row = item[k]]
  OBVIOUS
<1>2. /\ e \in Execs /\ e.on = TRUE /\ e.row = item[k] /\ e.charge = NoCharge
      /\ e.alloc = NoExec.alloc
  <2>1. NoExec \in Execs /\ NoExec.charge = NoCharge
    BY EmptyRows
  <2>2. agreed \in SUBSET Houses /\ item[k] \in [Houses -> ItemRows]
    BY DEF DebitInv, DebitTypes
  <2> QED
    BY <1>1, <2>1, <2>2 DEF Execs
<1>3. /\ batch[k] # NoBatch /\ ~ batch[k].done /\ exec' = [exec EXCEPT ![k] = e]
      /\ UNCHANGED <<agreed, owed, batch, item, taken, draft>>
  BY <1>1 DEF Start
<1>4. ExecGood(k, e)'
  <2>1. \A h \in Houses : item[k][h].status # "SUCCESS"
    BY <1>3 DEF DebitInv, ItemInv
  <2> QED
    BY <1>2, <1>3, <2>1 DEF ExecGood, Backed, Has
<1>5. AllocKept(k, e)
  BY <1>2, EmptyRows DEF AllocKept
<1>6. /\ taken' \in [Batches -> [Houses -> Nat]]
      /\ \A j \in Batches, h \in Houses : taken[j][h] <= taken'[j][h]
  BY <1>3 DEF DebitInv, DebitTypes
<1> QED
  BY <1>2, <1>3, <1>4, <1>5, <1>6, ExecMoves

(* An item leaves the list of those to charge, unpaid.                     *)
LEMMA RowDone ==
    ASSUME DebitInv, NEW k \in Batches, NEW h \in Houses, NEW st \in {"SKIPPED", "FAILED"},
           exec[k].on, exec[k].charge = NoCharge,
           exec' = [exec EXCEPT ![k].row[h].status = st],
           UNCHANGED <<agreed, owed, batch, item, taken, draft>>
    PROVE  DebitInv'
<1>1. PICK e \in Execs : e = exec[k]
  BY DEF DebitInv, DebitTypes
<1>2. PICK r : r = [e.row[h] EXCEPT !.status = st]
  OBVIOUS
<1>3. r \in ItemRows /\ r.status = st
  <2>1. e.row[h] \in ItemRows
    BY DEF Execs
  <2> QED
    BY <1>2, <2>1 DEF ItemRows, Statuses
<1>4. PICK rows : rows = [e.row EXCEPT ![h] = r]
  OBVIOUS
<1>5. /\ rows \in [Houses -> ItemRows] /\ rows[h] = r
      /\ \A g \in Houses \ {h} : rows[g] = e.row[g]
  BY <1>3, <1>4 DEF Execs
<1>6. PICK n : n = [e EXCEPT !.row = rows]
  OBVIOUS
<1>7. /\ n \in Execs /\ n.on = e.on /\ n.charge = e.charge /\ n.alloc = e.alloc
      /\ n.row = rows
  BY <1>5, <1>6 DEF Execs
<1>8. exec' = [exec EXCEPT ![k] = n]
  BY <1>1, <1>2, <1>4, <1>6
<1>9. ExecGood(k, n)'
  <2>1. ExecGood(k, e)
    BY <1>1 DEF DebitInv, ExecInv
  <2> QED
    BY <1>1, <1>3, <1>5, <1>7, <2>1 DEF ExecGood, Has, Collected
<1>10. AllocKept(k, n)
  BY <1>1, <1>7 DEF AllocKept
<1>11. /\ taken' \in [Batches -> [Houses -> Nat]]
       /\ \A j \in Batches, g \in Houses : taken[j][g] <= taken'[j][g]
  BY DEF DebitInv, DebitTypes
<1>12. UNCHANGED <<agreed, owed, batch, item, draft>>
  OBVIOUS
<1> QED
  BY <1>7, <1>8, <1>9, <1>10, <1>11, <1>12, ExecMoves

LEMMA SkipKeeps ==
    ASSUME DebitInv, NEW k \in Batches, NEW h \in Houses, Skip(k, h)
    PROVE  DebitInv'
BY RowDone DEF Skip

(* What the bank takes is backed by the item, and is not yet booked.       *)
LEMMA ChargeKeeps ==
    ASSUME DebitInv, NEW k \in Batches, NEW h \in Houses, Charge(k, h)
    PROVE  DebitInv'
<1>1. /\ exec[k].on /\ exec[k].charge = NoCharge /\ h \in Todo(k) /\ ToCharge(k, h) > 0
      /\ UNCHANGED <<agreed, owed, batch, item, draft>>
  BY DEF Charge
<1>2. CASE exec' = [exec EXCEPT ![k].row[h].status = "FAILED"] /\ UNCHANGED taken
  BY <1>1, <1>2, RowDone
<1>3. CASE /\ taken' = [taken EXCEPT ![k][h] = @ + ToCharge(k, h)]
           /\ \E f \in Shares(h, batch[k].month, ToCharge(k, h)) :
                 exec' = [exec EXCEPT ![k].charge = [house |-> h, alloc |-> f]]
  <2>1. PICK f \in Shares(h, batch[k].month, ToCharge(k, h)) :
           exec' = [exec EXCEPT ![k].charge = [house |-> h, alloc |-> f]]
    BY <1>3
  <2>2. PICK a : a = ToCharge(k, h)
    OBVIOUS
  <2>3. a \in Int /\ a > 0 /\ a <= item[k][h].amount
    <3>1. item[k][h].amount \in Int /\ batch[k].month \in 0 .. LastMonth
      BY DEF DebitInv, DebitTypes, ItemRows, BatchRows
    <3>2. Due(h, batch[k].month) \in Int
      BY <3>1, DueInt DEF DebitInv
    <3> QED
      BY <1>1, <2>2, <3>1, <3>2 DEF ToCharge
  <2>4. f \in Owed /\ SumTo(f, LastMonth) = a
    BY <2>2 DEF Shares, Owed
  <2>5. /\ taken' \in [Batches -> [Houses -> Nat]] /\ a <= taken'[k][h]
        /\ \A j \in Batches, g \in Houses : taken[j][g] <= taken'[j][g]
    <3>1. taken \in [Batches -> [Houses -> Nat]]
      BY DEF DebitInv, DebitTypes
    <3>2. taken' = [taken EXCEPT ![k][h] = @ + a]
      BY <1>3, <2>2
    <3>3. \A j \in Batches, g \in Houses :
             taken'[j][g] = IF j = k /\ g = h THEN taken[j][g] + a ELSE taken[j][g]
      BY <3>1, <3>2
    <3>4. taken' \in [Batches -> [Houses -> Nat]]
      BY <2>3, <3>1, <3>2
    <3> QED
      BY <2>3, <3>1, <3>3, <3>4
  <2>6. PICK e \in Execs : e = exec[k]
    BY DEF DebitInv, DebitTypes
  <2>7. PICK c : c = [house |-> h, alloc |-> f]
    OBVIOUS
  <2>8. c \in Charges /\ c.house = h /\ c.alloc = f
    BY <2>4, <2>7 DEF Charges
  <2>9. PICK n : n = [e EXCEPT !.charge = c]
    OBVIOUS
  <2>10. /\ n \in Execs /\ n.on = e.on /\ n.charge = c /\ n.alloc = e.alloc
         /\ n.row = e.row
    BY <2>8, <2>9 DEF Execs
  <2>11. exec' = [exec EXCEPT ![k] = n]
    BY <2>1, <2>6, <2>7, <2>9
  <2>12. ExecGood(k, n)'
    <3>1. ExecGood(k, e)
      BY <2>6 DEF DebitInv, ExecInv
    <3>2. \A g \in Houses : e.row[g].status = "SUCCESS" => Collected(k, g, e.row[g])'
      <4> SUFFICES ASSUME NEW g \in Houses, e.row[g].status = "SUCCESS"
                   PROVE  Collected(k, g, e.row[g])'
        OBVIOUS
      <4>1. PICK r \in ItemRows : r = e.row[g]
        BY DEF Execs
      <4>2. Collected(k, g, r)
        BY <3>1, <4>1 DEF ExecGood
      <4>3. r.paid \in Int
        BY DEF ItemRows
      <4>4. taken[k][g] \in Nat /\ taken'[k][g] \in Nat /\ taken[k][g] <= taken'[k][g]
        BY <2>5 DEF DebitInv, DebitTypes
      <4>5. Collected(k, g, r)'
        BY <1>1, <4>2, <4>3, <4>4 DEF Collected, Has
      <4> QED
        BY <4>1, <4>5 DEF Collected
    <3>3. Backed(k, h, a)'
      BY <1>1, <2>3, <2>5 DEF Backed
    <3>4. Backed(k, n.charge.house, SumTo(n.charge.alloc, LastMonth))'
      BY <2>4, <2>8, <2>10, <3>3
    <3>5. e.row[h].status = "PENDING"
      BY <1>1, <2>6 DEF Todo
    <3> QED
      BY <1>1, <2>6, <2>8, <2>10, <3>1, <3>2, <3>4, <3>5 DEF ExecGood, Has
  <2>13. AllocKept(k, n)
    BY <2>6, <2>10 DEF AllocKept
  <2> QED
    BY <1>1, <2>5, <2>10, <2>11, <2>12, <2>13, ExecMoves
<1> QED
  BY <1>2, <1>3 DEF Charge

(* The payment is booked on the record of the execution, or all is undone. *)
LEMMA PayKeeps ==
    ASSUME DebitInv, NEW k \in Batches, Pay(k)
    PROVE  DebitInv'
<1>1. /\ exec[k].charge # NoCharge /\ UNCHANGED <<agreed, owed, batch, item, taken, draft>>
  BY DEF Pay
<1>2. PICK e \in Execs : e = exec[k]
  BY DEF DebitInv, DebitTypes
<1>3. ExecGood(k, e) /\ e.charge # NoCharge
  BY <1>1, <1>2 DEF DebitInv, ExecInv
<1>4. PICK h, f, n : h = e.charge.house /\ f = e.charge.alloc /\ n = SumTo(f, LastMonth)
  OBVIOUS
<1>5. /\ h \in Houses /\ f \in Owed /\ e.on /\ e.row[h].status = "PENDING"
      /\ e.row[h] = item[k][h] /\ Has(k, h, "PENDING") /\ Backed(k, h, n)
  <2>1. f \in Owed
    BY <1>4 DEF Execs, Charges
  <2> QED
    BY <1>3, <1>4, <2>1 DEF ExecGood
<1>6. CASE ~ StillOwed(k, h)
  <2>1. exec' = [exec EXCEPT ![k] = NoExec]
    BY <1>2, <1>4, <1>6 DEF Pay
  <2> QED
    BY <1>1, <2>1, RollBackKeeps
<1>7. CASE StillOwed(k, h)
  <2>1. PICK r : r = [e.row[h] EXCEPT !.status = "SUCCESS", !.paid = n]
    OBVIOUS
  <2>2. /\ r \in ItemRows /\ r.status = "SUCCESS" /\ r.paid = n
        /\ r.amount = item[k][h].amount
    <3>1. e.row[h] \in ItemRows
      BY <1>5 DEF Execs
    <3>2. n \in Int
      BY <1>4, <1>5, SumInt, DebitAssumption DEF Owed, Months
    <3> QED
      BY <1>5, <2>1, <3>1, <3>2 DEF ItemRows, Statuses
  <2>3. PICK rows, allocs : rows = [e.row EXCEPT ![h] = r] /\ allocs = [e.alloc EXCEPT ![h] = f]
    OBVIOUS
  <2>4. /\ rows \in [Houses -> ItemRows] /\ rows[h] = r
        /\ \A g \in Houses \ {h} : rows[g] = e.row[g]
    BY <2>2, <2>3, <1>5 DEF Execs
  <2>5. /\ allocs \in [Houses -> Owed] /\ allocs[h] = f
        /\ \A g \in Houses \ {h} : allocs[g] = e.alloc[g]
    BY <2>3, <1>5 DEF Execs
  <2>6. PICK x : x = [e EXCEPT !.row = rows, !.alloc = allocs, !.charge = NoCharge]
    OBVIOUS
  <2>7. /\ x \in Execs /\ x.on = e.on /\ x.charge = NoCharge /\ x.row = rows
        /\ x.alloc = allocs
    <3>1. NoCharge \in Charges
      BY EmptyRows DEF Execs
    <3> QED
      BY <2>4, <2>5, <2>6, <3>1 DEF Execs
  <2>8. exec' = [exec EXCEPT ![k] = x]
    <3>1. exec' = [exec EXCEPT ![k] = Booked(e)]
      BY <1>2, <1>4, <1>7 DEF Pay
    <3>2. Booked(e) = [e EXCEPT !.row[h] = [@ EXCEPT !.status = "SUCCESS", !.paid = n],
                                !.alloc[h] = f, !.charge = NoCharge]
      BY <1>4 DEF Booked
    <3>3. x = [e EXCEPT !.row = [e.row EXCEPT ![h] = [e.row[h] EXCEPT !.status = "SUCCESS",
                                                                      !.paid = n]],
                        !.alloc = [e.alloc EXCEPT ![h] = f], !.charge = NoCharge]
      BY <2>1, <2>3, <2>6, Zenon
    <3>4. x = Booked(e)
      BY <3>2, <3>3, Zenon
    <3> QED
      BY <3>1, <3>4
  <2>9. Collected(k, h, r)
    BY <1>5, <1>7, <2>2 DEF Collected, Backed, StillOwed
  <2>10. ExecGood(k, x)'
    <3>1. \A g \in Houses :
             /\ rows[g].status = "PENDING" => Has(k, g, "PENDING") /\ rows[g] = item[k][g]
             /\ rows[g].status = "SUCCESS" => Has(k, g, "PENDING") /\ Collected(k, g, rows[g])
      BY <1>3, <1>5, <2>2, <2>4, <2>9 DEF ExecGood
    <3> QED
      BY <1>1, <1>3, <1>5, <2>7, <3>1 DEF ExecGood, Has, Collected
  <2>11. AllocKept(k, x)
    <3> SUFFICES ASSUME NEW g \in Houses, NEW m \in Months
                 PROVE  \/ allocs[g][m] = 0 \/ allocs[g][m] = e.alloc[g][m]
                        \/ /\ allocs[g][m] <= owed[g][m]
                           /\ \A j \in Batches \ {k} : exec[j].alloc[g][m] = 0
      BY <1>2, <2>7 DEF AllocKept
    <3>1. CASE g # h
      BY <2>5, <3>1
    <3>2. CASE g = h /\ f[m] # 0
      <4>1. f[m] > 0 /\ f[m] <= owed[h][m]
        BY <1>2, <1>4, <1>5, <1>7, <3>2, DebitAssumption DEF Owed, StillOwed
      <4>2. \A j \in Batches \ {k} : ~ (exec[j].alloc[h][m] > 0)
        BY <1>2, <1>4, <4>1 DEF Pay, Waits
      <4>3. \A j \in Batches \ {k} : exec[j].alloc[h][m] \in 0 .. MostOwed
        BY <1>5 DEF DebitInv, DebitTypes, Execs, Owed
      <4>4. \A j \in Batches \ {k} : exec[j].alloc[h][m] = 0
        BY <4>2, <4>3, DebitAssumption
      <4> QED
        BY <2>5, <3>2, <4>1, <4>4
    <3>3. CASE g = h /\ f[m] = 0
      BY <2>5, <3>3
    <3> QED
      BY <3>1, <3>2, <3>3
  <2>12. /\ taken' \in [Batches -> [Houses -> Nat]]
         /\ \A j \in Batches, g \in Houses : taken[j][g] <= taken'[j][g]
    BY <1>1 DEF DebitInv, DebitTypes
  <2>13. UNCHANGED <<agreed, owed, batch, item, draft>>
    BY <1>1
  <2> QED
    BY <2>7, <2>8, <2>10, <2>11, <2>12, <2>13, ExecMoves
<1> QED
  BY <1>6, <1>7
-----------------------------------------------------------------------------
(* The commit.  What this execution booked for a household cannot clash    *)
(* with another batch of the period: that one's item would be PENDING or   *)
(* SUCCESS at the same time.                                               *)
LEMMA FinishKeeps ==
    ASSUME DebitInv, NEW k \in Batches, Finish(k)
    PROVE  DebitInv'
<1>1. PICK e \in Execs : e = exec[k]
  BY DEF DebitInv, DebitTypes
<1>2. /\ ExecGood(k, e) /\ e.on /\ batch[k] # NoBatch
      /\ \A h \in Houses : e.row[h].status # "PENDING"
  BY <1>1 DEF Finish, Todo, DebitInv, ExecInv, ExecGood
<1>3. PICK rows, alloc : rows = e.row /\ alloc = e.alloc
  OBVIOUS
<1>4. rows \in [Houses -> ItemRows] /\ alloc \in [Houses -> Owed]
  BY <1>3 DEF Execs
<1>5. /\ item' \in [Batches -> [Houses -> ItemRows]] /\ item'[k] = rows
      /\ \A j \in Batches \ {k} : item'[j] = item[j]
  BY <1>1, <1>3, <1>4 DEF Finish, DebitInv, DebitTypes
<1>6. /\ batch' \in [Batches -> BatchRows] /\ batch'[k].done = TRUE
      /\ \A j \in Batches \ {k} : batch'[j] = batch[j]
      /\ \A j \in Batches : batch'[j].month = batch[j].month
  <2>1. PICK b : b = [batch[k] EXCEPT !.done = TRUE]
    OBVIOUS
  <2>2. b \in BatchRows /\ b.done = TRUE /\ b.month = batch[k].month
    BY ZenonT(60), <2>1 DEF BatchRows, DebitInv, DebitTypes
  <2>3. batch' = [batch EXCEPT ![k] = b]
    BY <2>1 DEF Finish
  <2> QED
    BY <2>2, <2>3 DEF DebitInv, DebitTypes
<1>7. /\ exec' \in [Batches -> Execs] /\ exec'[k] = NoExec
      /\ \A j \in Batches \ {k} : exec'[j] = exec[j]
  BY EmptyRows DEF Finish, DebitInv, DebitTypes
<1>8. /\ \A h \in Houses, m \in Months :
            /\ owed'[h][m] = owed[h][m] - alloc[h][m] /\ owed'[h][m] \in 0 .. MostOwed
      /\ owed' \in [Houses -> Owed]
  <2>1. \A h \in Houses, m \in Months :
           /\ owed[h][m] \in 0 .. MostOwed /\ alloc[h][m] \in 0 .. MostOwed
           /\ alloc[h][m] <= owed[h][m]
    BY <1>1, <1>3, <1>4 DEF DebitInv, DebitTypes, AllocInv, Owed
  <2>2. \A h \in Houses, m \in Months : owed[h][m] - alloc[h][m] \in 0 .. MostOwed
    BY <2>1, DebitAssumption
  <2>3. owed' = [h \in Houses |-> [m \in Months |-> owed[h][m] - alloc[h][m]]]
    BY <1>1, <1>3 DEF Finish
  <2> QED
    BY <2>2, <2>3 DEF Owed
<1>9. UNCHANGED <<agreed, taken, draft>>
  BY DEF Finish
<1>10. \A h \in Houses :
          /\ rows[h].status # "PENDING"
          /\ rows[h].status = "SUCCESS" => Has(k, h, "PENDING") /\ Collected(k, h, rows[h])
  BY <1>2, <1>3 DEF ExecGood
<1>11. OnePending'
  BY <1>5, <1>6, <1>10 DEF DebitInv, OnePending, Has
<1>12. ItemInv'
  <2> SUFFICES ASSUME NEW j \in Batches, NEW h \in Houses
               PROVE  /\ item'[j][h].status = "SUCCESS" => Collected(j, h, item[j][h])'
                      /\ batch'[j].done => item'[j][h].status # "PENDING"
                      /\ ~ batch'[j].done => item'[j][h].status \in {"NONE", "PENDING"}
    BY DEF ItemInv, Has
  <2>1. CASE j = k
    <3>1. rows[h].status = "SUCCESS" => Collected(k, h, item[k][h])'
      BY <1>5, <1>6, <1>9, <1>10 DEF Collected, Has
    <3> QED
      BY <1>5, <1>6, <1>10, <2>1, <3>1
  <2>2. CASE j # k
    <3>1. ASSUME item[j][h].status = "SUCCESS" PROVE Collected(j, h, item[j][h])'
      <4>1. Collected(j, h, item[j][h]) /\ Has(j, h, "SUCCESS")
        BY <3>1 DEF DebitInv, ItemInv, Has
      <4>2. batch[k].month = batch[j].month => rows[h].status # "SUCCESS"
        BY <1>10, <2>2, <4>1 DEF Collected
      <4> QED
        BY <1>5, <1>6, <1>9, <2>2, <4>1, <4>2 DEF Collected, Has
    <3> QED
      BY <1>5, <1>6, <2>2, <3>1 DEF DebitInv, ItemInv, Has
  <2> QED
    BY <2>1, <2>2
<1>13. ExecInv'
  <2>1. \A j \in Batches : draft'[j] # NoDraft => batch'[j] = NoBatch
    BY <1>2, <1>6, <1>9 DEF DebitInv, ExecInv
  <2>2. ASSUME NEW j \in Batches, NEW a \in Execs, exec'[j] = a PROVE ExecGood(j, a)'
    <3>1. CASE j = k
      BY <1>7, <2>2, <3>1, EmptyRows DEF ExecGood
    <3>2. CASE j # k
      <4>1. ExecGood(j, a)
        BY <1>7, <2>2, <3>2 DEF DebitInv, ExecInv
      <4>2. \A h \in Houses : a.row[h].status = "SUCCESS" => Collected(j, h, a.row[h])'
        <5> SUFFICES ASSUME NEW h \in Houses, a.row[h].status = "SUCCESS"
                     PROVE  Collected(j, h, a.row[h])'
          OBVIOUS
        <5>1. Collected(j, h, a.row[h]) /\ Has(j, h, "PENDING")
          BY <4>1 DEF ExecGood
        <5>2. batch[k].month = batch[j].month => rows[h].status # "SUCCESS"
          BY <1>10, <3>2, <5>1 DEF DebitInv, OnePending
        <5> QED
          BY <1>5, <1>6, <1>9, <3>2, <5>1, <5>2 DEF Collected, Has
      <4> QED
        BY <1>5, <1>6, <1>9, <3>2, <4>1, <4>2 DEF ExecGood, Backed, Has
    <3> QED
      BY <3>1, <3>2
  <2> QED
    BY <2>1, <2>2 DEF ExecInv
<1>14. AllocInv'
  <2> SUFFICES ASSUME NEW i \in Batches, NEW h \in Houses, NEW m \in Months
               PROVE  /\ exec'[i].alloc[h][m] <= owed'[h][m]
                      /\ \A j \in Batches \ {i} :
                            exec'[i].alloc[h][m] = 0 \/ exec'[j].alloc[h][m] = 0
    BY DEF AllocInv
  <2>1. /\ \A j \in Batches : exec[j].alloc[h][m] <= owed[h][m]
        /\ \A u, v \in Batches : u # v => exec[u].alloc[h][m] = 0 \/ exec[v].alloc[h][m] = 0
    BY DEF DebitInv, AllocInv
  <2>2. /\ owed'[h][m] = owed[h][m] - alloc[h][m] /\ owed'[h][m] >= 0
        /\ alloc[h][m] = exec[k].alloc[h][m] /\ owed[h][m] \in Int
    BY <1>1, <1>3, <1>8, DebitAssumption DEF DebitInv, DebitTypes, Owed
  <2>3. exec'[k].alloc[h][m] = 0
    BY <1>7, EmptyRows
  <2>4. CASE i = k
    BY <2>2, <2>3, <2>4
  <2>5. CASE i # k
    <3>1. exec'[i] = exec[i]
      BY <1>7, <2>5
    <3>2. exec[i].alloc[h][m] <= owed'[h][m]
      BY <2>1, <2>2, <2>5
    <3>3. \A j \in Batches \ {i} : exec[i].alloc[h][m] = 0 \/ exec'[j].alloc[h][m] = 0
      BY <1>7, <2>1, <2>3, <2>5
    <3> QED
      BY <3>1, <3>2, <3>3
  <2> QED
    BY <2>4, <2>5
<1> QED
  BY <1>5, <1>6, <1>7, <1>8, <1>9, <1>11, <1>12, <1>13, <1>14 DEF DebitInv, DebitTypes
-----------------------------------------------------------------------------
LEMMA DebitStep == DebitInv /\ [DebitNext]_debitVars => DebitInv'
<1> SUFFICES ASSUME DebitInv, [DebitNext]_debitVars PROVE DebitInv'
  OBVIOUS
<1>1. CASE \E h \in Houses : Sign(h) \/ Cancel(h)
  BY <1>1, SignKeeps
<1>2. CASE \E h \in Houses, m \in Months, n \in 1 .. MostOwed : PayCash(h, m, n)
  BY <1>2, PayCashKeeps
<1>3. ASSUME NEW k \in Batches, NEW m \in Months, ReadForBatch(k, m) PROVE DebitInv'
  BY <1>3, ReadForBatchKeeps
<1>4. ASSUME NEW k \in Batches, SaveBatch(k) PROVE DebitInv'
  BY <1>4, SaveBatchKeeps
<1>5. ASSUME NEW k \in Batches, Start(k) PROVE DebitInv'
  BY <1>5, StartKeeps
<1>6. ASSUME NEW k \in Batches, Pay(k) PROVE DebitInv'
  BY <1>6, PayKeeps
<1>7. ASSUME NEW k \in Batches, RollBack(k) PROVE DebitInv'
  BY <1>7, RollBackKeeps DEF RollBack
<1>8. ASSUME NEW k \in Batches, Finish(k) PROVE DebitInv'
  BY <1>8, FinishKeeps
<1>9. ASSUME NEW k \in Batches, NEW h \in Houses, Skip(k, h) PROVE DebitInv'
  BY <1>9, SkipKeeps
<1>10. ASSUME NEW k \in Batches, NEW h \in Houses, Charge(k, h) PROVE DebitInv'
  BY <1>10, ChargeKeeps
<1>11. CASE UNCHANGED debitVars
  BY SMTT(60), <1>11 DEF debitVars, DebitInv, DebitTypes, ItemInv, OnePending, ExecInv, ExecGood,
               Backed, AllocInv, Has, Collected
<1> QED
  BY <1>1, <1>2, <1>3, <1>4, <1>5, <1>6, <1>7, <1>8, <1>9, <1>10, <1>11 DEF DebitNext

(* Whatever the desk, the counter and the executions do, in any order, no  *)
(* bill is paid beyond what it owes, and a debit shown as collected was    *)
(* taken by the bank, within its announced amount, once per household and  *)
(* period.                                                                 *)
THEOREM DebitsBooked == DebitSpec => []DebitsBookedOnce
<1>1. DebitInv => DebitsBookedOnce
  <2> SUFFICES ASSUME DebitInv PROVE DebitsBookedOnce
    OBVIOUS
  <2>1. \A h \in Houses, m \in Months : owed[h][m] >= 0
    BY DebitAssumption DEF DebitInv, DebitTypes, Owed
  <2> QED
    BY <2>1 DEF DebitInv, ItemInv, Collected, DebitsBookedOnce
<1> QED
  BY <1>1, DebitStart, DebitStep, PTL DEF DebitSpec

(* A debit again only after an execution that charged and did not commit:  *)
(* whatever ends an execution otherwise (the DONE of its batch, an end     *)
(* before its first charge), no item is charged more than it announces.    *)
ChargesKept ==
    \A k \in Batches : exec[k].on /\ ~ exec'[k].on
        => batch'[k].done \/ \A h \in Houses : taken[k][h] = 0

TakenInv == \A k \in Batches, h \in Houses :
    /\ taken[k][h] <= item[k][h].amount
    /\ ~ exec[k].on /\ ~ batch[k].done => taken[k][h] = 0
    /\ exec[k].on => exec[k].row[h].amount = item[k][h].amount
    /\ exec[k].on /\ exec[k].row[h].status = "PENDING" /\ exec[k].charge.house # h
          => taken[k][h] = 0

LEMMA TakenStart == DebitInit => TakenInv
BY EmptyRows DEF DebitInit, TakenInv, NoItem, NoBatch

(* The tables and the record of one execution, by their types.             *)
LEMMA DebitTables ==
    ASSUME DebitInv, NEW k \in Batches
    PROVE  /\ exec \in [Batches -> Execs] /\ exec[k] \in Execs
           /\ batch \in [Batches -> BatchRows] /\ batch[k] \in BatchRows
           /\ taken \in [Batches -> [Houses -> Nat]] /\ item \in [Batches -> [Houses -> ItemRows]]
           /\ \A h \in Houses : item[k][h].amount \in Int /\ taken[k][h] \in Nat
BY DEF DebitInv, DebitTypes, ItemRows

(* The record of k becomes e, which is under way as before, with the same  *)
(* amounts; only what it charges now may be taken.                         *)
LEMMA TakenGoesOn ==
    ASSUME DebitInv, TakenInv, NEW k \in Batches, NEW e, exec' = [exec EXCEPT ![k] = e],
           UNCHANGED <<batch, item, taken>>, exec[k].on, e.on,
           \A h \in Houses : /\ e.row[h].amount = exec[k].row[h].amount
                             /\ e.row[h].status = "PENDING" /\ e.charge.house # h
                                  => /\ exec[k].row[h].status = "PENDING"
                                     /\ exec[k].charge.house # h
    PROVE  TakenInv'
<1>1. exec'[k] = e /\ \A j \in Batches \ {k} : exec'[j] = exec[j]
  BY DebitTables
<1> SUFFICES ASSUME NEW j \in Batches, NEW h \in Houses
             PROVE  /\ taken'[j][h] <= item'[j][h].amount
                    /\ ~ exec'[j].on /\ ~ batch'[j].done => taken'[j][h] = 0
                    /\ exec'[j].on => exec'[j].row[h].amount = item'[j][h].amount
                    /\ exec'[j].on /\ exec'[j].row[h].status = "PENDING"
                         /\ exec'[j].charge.house # h => taken'[j][h] = 0
  BY DEF TakenInv
<1>2. CASE j = k
  BY <1>1, <1>2 DEF TakenInv
<1>3. CASE j # k
  BY <1>1, <1>3 DEF TakenInv
<1> QED BY <1>2, <1>3

(* The execution of k is not under way after the step, and what it took is *)
(* either nothing or stays with a DONE batch.                              *)
LEMMA TakenSettles ==
    ASSUME DebitInv, TakenInv, NEW k \in Batches, exec' = [exec EXCEPT ![k] = NoExec],
           UNCHANGED taken, \A j \in Batches \ {k} : batch'[j] = batch[j] /\ item'[j] = item[j],
           \A h \in Houses : /\ item'[k][h].amount = item[k][h].amount
                             /\ batch'[k].done \/ taken[k][h] = 0
    PROVE  TakenInv'
<1>1. ~ exec'[k].on /\ \A j \in Batches \ {k} : exec'[j] = exec[j]
  BY DebitTables, EmptyRows
<1> SUFFICES ASSUME NEW j \in Batches, NEW h \in Houses
             PROVE  /\ taken'[j][h] <= item'[j][h].amount
                    /\ ~ exec'[j].on /\ ~ batch'[j].done => taken'[j][h] = 0
                    /\ exec'[j].on => exec'[j].row[h].amount = item'[j][h].amount
                    /\ exec'[j].on /\ exec'[j].row[h].status = "PENDING"
                         /\ exec'[j].charge.house # h => taken'[j][h] = 0
  BY DEF TakenInv
<1>2. CASE j = k
  BY <1>1, <1>2 DEF TakenInv
<1>3. CASE j # k
  BY <1>1, <1>3 DEF TakenInv
<1> QED BY <1>2, <1>3

LEMMA TakenStep ==
    ASSUME DebitInv, TakenInv, [DebitNext]_debitVars, [ChargesKept]_debitVars
    PROVE  TakenInv'
<1>1. CASE UNCHANGED <<batch, item, taken, exec>>
  BY <1>1 DEF TakenInv
<1>2. ASSUME NEW k \in Batches, SaveBatch(k) PROVE TakenInv'
  <2>1. CASE UNCHANGED <<batch, item>>
    BY <1>1, <1>2, <2>1 DEF SaveBatch
  <2>2. CASE ~ UNCHANGED <<batch, item>>
    <3>1. /\ draft[k] # NoDraft /\ UNCHANGED <<taken, exec>>
          /\ batch' = [batch EXCEPT ![k].month = draft[k].month]
          /\ item' = [item EXCEPT ![k] =
                        [h \in Houses |->
                           IF draft[k].amount[h] > 0
                           THEN [status |-> "PENDING", amount |-> draft[k].amount[h], paid |-> 0]
                           ELSE NoItem]]
      BY <1>2, <2>2 DEF SaveBatch
    <3>2. exec[k] \in Execs /\ ExecGood(k, exec[k]) /\ batch[k] = NoBatch
      BY <3>1, DebitTables DEF DebitInv, ExecInv
    <3>3. ~ exec[k].on /\ ~ batch[k].done
      BY <3>2 DEF ExecGood, NoBatch
    <3>4. \A h \in Houses : taken[k][h] = 0
      BY <3>3 DEF TakenInv
    <3>5. /\ \A h \in Houses : item'[k][h].amount >= 0
          /\ \A j \in Batches \ {k} : item'[j] = item[j]
          /\ \A j \in Batches : batch'[j].done = batch[j].done
      <4>1. ASSUME NEW h \in Houses PROVE item'[k][h].amount >= 0
        <5>1. draft[k].amount[h] \in Int
          BY DEF DebitInv, DebitTypes
        <5>2. item'[k][h] = IF draft[k].amount[h] > 0
                            THEN [status |-> "PENDING", amount |-> draft[k].amount[h], paid |-> 0]
                            ELSE NoItem
          BY <3>1, DebitTables
        <5> QED BY <5>1, <5>2 DEF NoItem
      <4>2. \A j \in Batches \ {k} : item'[j] = item[j]
        BY <3>1, DebitTables
      <4>3. \A j \in Batches : batch'[j].done = batch[j].done
        BY <3>1, DebitTables DEF BatchRows
      <4> QED BY <4>1, <4>2, <4>3
    <3> SUFFICES ASSUME NEW j \in Batches, NEW h \in Houses
                 PROVE  /\ taken'[j][h] <= item'[j][h].amount
                        /\ ~ exec'[j].on /\ ~ batch'[j].done => taken'[j][h] = 0
                        /\ exec'[j].on => exec'[j].row[h].amount = item'[j][h].amount
                        /\ exec'[j].on /\ exec'[j].row[h].status = "PENDING"
                             /\ exec'[j].charge.house # h => taken'[j][h] = 0
      BY DEF TakenInv
    <3>6. CASE j = k
      BY <3>1, <3>3, <3>4, <3>5, <3>6
    <3>7. CASE j # k
      BY <3>1, <3>5, <3>7 DEF TakenInv
    <3> QED BY <3>6, <3>7
  <2> QED BY <2>1, <2>2
<1>3. ASSUME NEW k \in Batches, Start(k) PROVE TakenInv'
  <2>1. PICK e : e = [NoExec EXCEPT !.on = TRUE, !.agreed = agreed, !.row = item[k]]
    OBVIOUS
  <2>2. exec' = [exec EXCEPT ![k] = e] /\ e.on /\ e.row = item[k]
    BY <1>3, <2>1 DEF Start, NoExec
  <2>3. /\ UNCHANGED <<batch, item, taken>> /\ \A h \in Houses : taken[k][h] = 0
    BY <1>3 DEF Start, TakenInv
  <2>4. exec'[k] = e /\ \A j \in Batches \ {k} : exec'[j] = exec[j]
    BY <2>2, DebitTables
  <2> SUFFICES ASSUME NEW j \in Batches, NEW h \in Houses
               PROVE  /\ taken'[j][h] <= item'[j][h].amount
                      /\ ~ exec'[j].on /\ ~ batch'[j].done => taken'[j][h] = 0
                      /\ exec'[j].on => exec'[j].row[h].amount = item'[j][h].amount
                      /\ exec'[j].on /\ exec'[j].row[h].status = "PENDING"
                           /\ exec'[j].charge.house # h => taken'[j][h] = 0
    BY DEF TakenInv
  <2>5. CASE j = k
    BY <2>2, <2>3, <2>4, <2>5 DEF TakenInv
  <2>6. CASE j # k
    BY <2>3, <2>4, <2>6 DEF TakenInv
  <2> QED BY <2>5, <2>6
<1>4. ASSUME NEW k \in Batches, exec' = [exec EXCEPT ![k] = NoExec], exec[k].on,
             UNCHANGED <<batch, item, taken>>
      PROVE  TakenInv'
  <2>1. ~ exec'[k].on /\ exec' # exec
    BY <1>4, DebitTables, EmptyRows
  <2>2. ChargesKept
    BY <2>1 DEF debitVars
  <2>3. \A h \in Houses : batch'[k].done \/ taken[k][h] = 0
    BY <1>4, <2>1, <2>2 DEF ChargesKept
  <2> QED BY <1>4, <2>3, TakenSettles
<1>5. ASSUME NEW k \in Batches, Pay(k) PROVE TakenInv'
  <2>1. /\ exec[k] \in Execs /\ ExecGood(k, exec[k]) /\ exec[k].charge # NoCharge
        /\ UNCHANGED <<batch, item, taken>>
    BY <1>5, DebitTables DEF Pay, DebitInv, ExecInv
  <2>2. exec[k].on /\ exec[k].charge.house \in Houses
    BY <2>1 DEF ExecGood
  <2>3. CASE exec' = [exec EXCEPT ![k] = NoExec]
    BY <1>4, <2>1, <2>2, <2>3
  <2>4. CASE exec' = [exec EXCEPT ![k] = Booked(exec[k])]
    <3>1. PICK e : e = Booked(exec[k])
      OBVIOUS
    <3>2. PICK g : g = exec[k].charge.house
      OBVIOUS
    <3>3. /\ e.on = exec[k].on
          /\ e.row[g].status = "SUCCESS" /\ e.row[g].amount = exec[k].row[g].amount
          /\ \A h \in Houses \ {g} : e.row[h] = exec[k].row[h]
      BY <2>1, <2>2, <3>1, <3>2 DEF Booked, Execs, ItemRows
    <3>4. exec' = [exec EXCEPT ![k] = e]
      BY <2>4, <3>1
    <3>5. \A h \in Houses : /\ e.row[h].amount = exec[k].row[h].amount
                            /\ e.row[h].status = "PENDING" /\ e.charge.house # h
                                 => /\ exec[k].row[h].status = "PENDING"
                                    /\ exec[k].charge.house # h
      BY <3>2, <3>3
    <3> QED BY <2>1, <2>2, <3>3, <3>4, <3>5, TakenGoesOn
  <2> QED BY <1>5, <2>3, <2>4 DEF Pay
<1>6. ASSUME NEW k \in Batches, RollBack(k) PROVE TakenInv'
  BY <1>4, <1>6 DEF RollBack
<1>7. ASSUME NEW k \in Batches, Finish(k) PROVE TakenInv'
  <2>1. exec[k].on /\ exec' = [exec EXCEPT ![k] = NoExec] /\ UNCHANGED taken
    BY <1>7 DEF Finish
  <2>2. batch'[k].done /\ \A j \in Batches \ {k} : batch'[j] = batch[j] /\ item'[j] = item[j]
    BY <1>7, DebitTables DEF Finish, BatchRows
  <2>3. item'[k] = exec[k].row
    BY <1>7, DebitTables DEF Finish
  <2>4. \A h \in Houses : item'[k][h].amount = item[k][h].amount
    BY <2>1, <2>3 DEF TakenInv
  <2> QED BY <2>1, <2>2, <2>4, TakenSettles
<1>8. ASSUME NEW k \in Batches, NEW h \in Houses, NEW st \in {"SKIPPED", "FAILED"},
             exec[k].on, exec[k].charge = NoCharge,
             exec' = [exec EXCEPT ![k].row[h].status = st], UNCHANGED <<batch, item, taken>>
      PROVE  TakenInv'
  <2>1. PICK e : e = [exec[k] EXCEPT !.row[h].status = st]
    OBVIOUS
  <2>2. exec' = [exec EXCEPT ![k] = e]
    BY <1>8, <2>1, DebitTables
  <2>3. /\ e.on = exec[k].on /\ e.row[h].status = st /\ e.row[h].amount = exec[k].row[h].amount
        /\ e.charge = exec[k].charge /\ \A g \in Houses \ {h} : e.row[g] = exec[k].row[g]
    BY <2>1, DebitTables DEF Execs, ItemRows
  <2>4. \A g \in Houses : /\ e.row[g].amount = exec[k].row[g].amount
                          /\ e.row[g].status = "PENDING" => exec[k].row[g].status = "PENDING"
    BY <2>3
  <2>5. NoCharge.house \notin Houses /\ e.charge.house = exec[k].charge.house
    BY <2>3, DebitAssumption DEF NoCharge
  <2>6. \A g \in Houses : /\ e.row[g].amount = exec[k].row[g].amount
                          /\ e.row[g].status = "PENDING" /\ e.charge.house # g
                               => /\ exec[k].row[g].status = "PENDING"
                                  /\ exec[k].charge.house # g
    BY <2>4, <2>5
  <2>7. e.on
    BY <1>8, <2>3
  <2> QED BY <1>8, <2>2, <2>6, <2>7, TakenGoesOn
<1>9. ASSUME NEW k \in Batches, NEW h \in Houses, Skip(k, h) PROVE TakenInv'
  BY <1>8, <1>9 DEF Skip
<1>10. ASSUME NEW k \in Batches, NEW h \in Houses, Charge(k, h) PROVE TakenInv'
  <2>1. /\ exec[k] \in Execs /\ ExecGood(k, exec[k]) /\ exec[k].on
        /\ exec[k].charge = NoCharge /\ exec[k].row[h].status = "PENDING"
        /\ UNCHANGED <<batch, item>>
    BY <1>10, DebitTables DEF Charge, Todo, DebitInv, ExecInv
  <2>2. CASE exec' = [exec EXCEPT ![k].row[h].status = "FAILED"] /\ UNCHANGED taken
    BY <1>8, <2>1, <2>2
  <2>3. CASE /\ taken' = [taken EXCEPT ![k][h] = @ + ToCharge(k, h)]
             /\ \E f : exec' = [exec EXCEPT ![k].charge = [house |-> h, alloc |-> f]]
    <3>1. PICK f : exec' = [exec EXCEPT ![k].charge = [house |-> h, alloc |-> f]]
      BY <2>3
    <3>2. NoCharge.house \notin Houses
      BY DebitAssumption DEF NoCharge
    <3>3. taken[k][h] = 0 /\ \A g \in Houses \ {h} :
                               exec[k].row[g].status = "PENDING" => taken[k][g] = 0
      BY <2>1, <3>2 DEF TakenInv
    <3>4. PICK n : n = ToCharge(k, h)
      OBVIOUS
    <3>5. n \in Int /\ n <= item[k][h].amount
      <4>0. PICK m \in 0 .. LastMonth : m = batch[k].month
        BY DebitTables DEF BatchRows
      <4>1. Due(h, batch[k].month) \in Int
        BY <4>0, DueInt DEF DebitInv
      <4>2. item[k][h].amount \in Int
        BY DebitTables
      <4> QED BY <3>4, <4>1, <4>2 DEF ToCharge
    <3>6. /\ taken'[k][h] = n /\ \A g \in Houses \ {h} : taken'[k][g] = taken[k][g]
          /\ \A j \in Batches \ {k} : taken'[j] = taken[j]
      BY <2>3, <3>3, <3>4, <3>5, DebitTables
    <3>7. /\ exec'[k].on /\ exec'[k].row = exec[k].row /\ exec'[k].charge.house = h
          /\ \A j \in Batches \ {k} : exec'[j] = exec[j]
      BY <2>1, <3>1, DebitTables DEF Execs
    <3> SUFFICES ASSUME NEW j \in Batches, NEW g \in Houses
                 PROVE  /\ taken'[j][g] <= item'[j][g].amount
                        /\ ~ exec'[j].on /\ ~ batch'[j].done => taken'[j][g] = 0
                        /\ exec'[j].on => exec'[j].row[g].amount = item'[j][g].amount
                        /\ exec'[j].on /\ exec'[j].row[g].status = "PENDING"
                             /\ exec'[j].charge.house # g => taken'[j][g] = 0
      BY DEF TakenInv
    <3>8. CASE j = k /\ g = h
      BY <2>1, <3>5, <3>6, <3>7, <3>8 DEF TakenInv
    <3>9. CASE j = k /\ g # h
      BY <2>1, <3>3, <3>6, <3>7, <3>9 DEF TakenInv
    <3>10. CASE j # k
      BY <2>1, <3>6, <3>7, <3>10 DEF TakenInv
    <3> QED BY <3>8, <3>9, <3>10
  <2> QED BY <1>10, <2>2, <2>3 DEF Charge
<1>11. \/ UNCHANGED debitVars
       \/ \E h \in Houses : Sign(h) \/ Cancel(h)
       \/ \E h \in Houses, m \in Months, n \in 1 .. MostOwed : PayCash(h, m, n)
       \/ \E k \in Batches, m \in Months : ReadForBatch(k, m)
       => UNCHANGED <<batch, item, taken, exec>>
  BY DEF debitVars, Sign, Cancel, PayCash, ReadForBatch
<1> QED
  BY <1>1, <1>2, <1>3, <1>5, <1>6, <1>7, <1>9, <1>10, <1>11 DEF DebitNext

(* The bank takes no more for an item than it announced, unless an         *)
(* execution that has charged ends without committing: reruns after an end *)
(* before the first charge, refusals, skips and retries are all harmless.  *)
THEOREM OnlyLostChargesRepeat ==
  DebitSpec /\ [][ChargesKept]_debitVars => []NeverChargedAgain
<1>1. TakenInv => NeverChargedAgain
  BY DEF TakenInv, NeverChargedAgain
<1>2. DebitInv /\ TakenInv /\ [DebitNext]_debitVars /\ [ChargesKept]_debitVars
        => DebitInv' /\ TakenInv'
  BY DebitStep, TakenStep
<1> QED
  BY <1>1, <1>2, DebitStart, TakenStart, PTL DEF DebitSpec

-----------------------------------------------------------------------------
(* Idempotency keys.  What ties the keys, the open transactions and the    *)
(* runs together.                                                          *)
KeysLinked ==
    /\ \A r \in Requests : pc[r] = "work" => InTx(r)
    /\ \A k \in Keys : holder[k] # None => keyRow[k].status = "ABSENT"
    /\ \A k \in Keys : keyRow[k].status # "ABSENT"
                          => /\ keyRow[k].by \in Requests /\ KeyOf[keyRow[k].by] = k
                             /\ keyRow[k].run \in {None, keyRow[k].by}
    /\ \A r \in Requests : pc[r] = "generate" /\ r \in landed
                              => keyRow[KeyOf[r]].status = "PROCESSING"

KeysInv == TypeOK /\ LandedOncePerKey /\ KeysLinked

LEMMA KeysStart == Init => KeysInv
BY KeyAssumption DEF Init, KeysInv, TypeOK, LandedOncePerKey, KeysLinked, NoRow, Row, InTx

LEMMA KeysStep == KeysInv /\ [Next]_vars => KeysInv'
<1> SUFFICES ASSUME KeysInv, [Next]_vars PROVE KeysInv'
  OBVIOUS
<1> USE KeyAssumption
<1>1. ASSUME NEW r \in Requests, Find(r) PROVE KeysInv'
  <2>1. UNCHANGED <<keyRow, holder, landed, crashes>> /\ pc[r] = "find"
    BY <1>1 DEF Find
  <2>2. \E a \in Requests \cup {None, Refused} : answer' = [answer EXCEPT ![r] = a]
    BY <1>1 DEF Find, Settle, Reply, Seen, KeysInv, TypeOK, KeysLinked, Row
  <2>3. \E place \in {"insert", "done"} : pc' = [pc EXCEPT ![r] = place]
    BY <1>1 DEF Find, Settle, Reply, Go
  <2> QED
    BY <2>1, <2>2, <2>3 DEF KeysInv, TypeOK, LandedOncePerKey, KeysLinked, InTx, Seen
<1>2. ASSUME NEW r \in Requests, Insert(r) PROVE KeysInv'
  <2>1. UNCHANGED <<keyRow, landed, answer, crashes>> /\ pc[r] = "insert"
    BY <1>2 DEF Insert
  <2>2. CASE UniqueViolation(r)
    <3>1. pc' = [pc EXCEPT ![r] = "reread"] /\ UNCHANGED holder
      BY <1>2, <2>2 DEF Insert, Go
    <3> QED
      BY <2>1, <3>1 DEF KeysInv, TypeOK, LandedOncePerKey, KeysLinked, InTx, Seen
  <2>3. CASE ~ UniqueViolation(r)
    <3>1. /\ pc' = [pc EXCEPT ![r] = "work"]
          /\ holder' = [holder EXCEPT ![KeyOf[r]] = r]
          /\ holder[KeyOf[r]] = None /\ keyRow[KeyOf[r]].status = "ABSENT"
      BY <1>2, <2>3 DEF Insert, Go, Key, UniqueViolation, Seen
    <3>2. \A q \in Requests : pc[q] = "work" => KeyOf[q] # KeyOf[r]
      BY <3>1 DEF KeysInv, KeysLinked, InTx
    <3>3. TypeOK'
      BY <2>1, <3>1, <3>2 DEF KeysInv, TypeOK
    <3>4. LandedOncePerKey'
      BY <2>1 DEF KeysInv, LandedOncePerKey, Seen
    <3>5. KeysLinked'
      BY <2>1, <3>1, <3>2 DEF KeysInv, TypeOK, KeysLinked, InTx
    <3> QED BY <3>3, <3>4, <3>5 DEF KeysInv
  <2> QED BY <2>2, <2>3
<1>3. ASSUME NEW r \in Requests, Reread(r) PROVE KeysInv'
  <2>1. Seen(r) \in Row /\ (Seen(r).status # "ABSENT" => Seen(r).by \in Requests)
    BY KeyAssumption DEF Seen, KeysInv, KeysLinked, TypeOK
  <2>2. PICK a \in Requests \cup {None, Refused} : Reply(r, a)
    <3>1. CASE Seen(r).status = "ABSENT"
      BY <1>3, <3>1 DEF Reread
    <3>2. CASE Seen(r).status # "ABSENT"
      BY <1>3, <2>1, <3>2 DEF Reread, Settle
    <3> QED BY <3>1, <3>2
  <2>3. UNCHANGED <<keyRow, holder, landed, crashes>> /\ pc[r] = "reread"
    BY <1>3 DEF Reread
  <2> QED
    BY <2>2, <2>3 DEF Reply, Go, Seen, KeysInv, TypeOK, LandedOncePerKey, KeysLinked,
                      InTx, Row
<1>4. ASSUME NEW r \in Requests, CommitOnce(r) PROVE KeysInv'
  BY <1>4 DEF CommitOnce, Stored, Release, Key, Reply, Go, Seen, KeysInv, TypeOK,
              LandedOncePerKey, KeysLinked, InTx, Row
<1>5. ASSUME NEW r \in Requests, Throw(r) PROVE KeysInv'
  BY <1>5 DEF Throw, Release, Key, Reply, Go, Seen, KeysInv, TypeOK, LandedOncePerKey,
              KeysLinked, InTx, Row
<1>6. ASSUME NEW r \in Requests, CommitClaim(r) PROVE KeysInv'
  BY <1>6 DEF CommitClaim, Release, Key, Reply, Go, Seen, KeysInv, TypeOK,
              LandedOncePerKey, KeysLinked, InTx, Row
<1>7. ASSUME NEW r \in Requests, Finalize(r) PROVE KeysInv'
  <2>1. /\ UNCHANGED <<holder, landed, crashes>> /\ pc[r] = "generate"
        /\ pc' = [pc EXCEPT ![r] = "done"]
        /\ \E a \in Requests \cup {Refused} : answer' = [answer EXCEPT ![r] = a]
    BY <1>7 DEF Finalize, Reply, Go
  <2>2. CASE r \notin landed
    <3>1. UNCHANGED keyRow
      BY <1>7, <2>2 DEF Finalize, RunStands
    <3> QED
      BY <2>1, <3>1 DEF KeysInv, TypeOK, LandedOncePerKey, KeysLinked, InTx, Seen
  <2>3. CASE r \in landed
    <3>1. keyRow' = [keyRow EXCEPT ![KeyOf[r]] = Stored(r, r)]
      BY <1>7, <2>3 DEF Finalize, RunStands, Key
    <3>2. keyRow[KeyOf[r]].status = "PROCESSING" /\ keyRow[KeyOf[r]].by = r
      BY <2>1, <2>3 DEF KeysInv, KeysLinked, LandedOncePerKey, Seen
    <3>3. \A q \in landed : KeyOf[q] = KeyOf[r] => q = r
      BY <2>3 DEF KeysInv, LandedOncePerKey
    <3>4. KeyOf[r] \in Keys /\ holder[KeyOf[r]] = None
      BY <3>2 DEF KeysInv, KeysLinked
    <3>5. TypeOK'
      BY <2>1, <3>1, <3>4 DEF KeysInv, TypeOK, Stored, Row
    <3>6. LandedOncePerKey'
      BY <2>1, <3>1, <3>3, <3>4 DEF KeysInv, TypeOK, LandedOncePerKey, Seen, Stored
    <3>7. KeysLinked'
      <4>1. \A q \in Requests : pc'[q] = "work" => InTx(q)'
        BY <2>1 DEF KeysInv, TypeOK, KeysLinked, InTx
      <4>2. \A k \in Keys : holder'[k] # None => keyRow'[k].status = "ABSENT"
        BY <2>1, <3>1, <3>4 DEF KeysInv, TypeOK, KeysLinked
      <4>3. \A k \in Keys : keyRow'[k].status # "ABSENT"
                               => /\ keyRow'[k].by \in Requests /\ KeyOf[keyRow'[k].by] = k
                                  /\ keyRow'[k].run \in {None, keyRow'[k].by}
        BY <3>1, <3>4 DEF KeysInv, TypeOK, KeysLinked, Stored
      <4>4. \A q \in Requests : pc'[q] = "generate" /\ q \in landed'
                                   => keyRow'[KeyOf[q]].status = "PROCESSING"
        BY <2>1, <3>1, <3>3 DEF KeysInv, TypeOK, KeysLinked
      <4> QED BY <4>1, <4>2, <4>3, <4>4 DEF KeysLinked
    <3> QED BY <3>5, <3>6, <3>7 DEF KeysInv
  <2> QED BY <2>2, <2>3
<1>8. ASSUME NEW r \in Requests, Abandon(r) PROVE KeysInv'
  BY <1>8 DEF Abandon, Reply, Go, Seen, KeysInv, TypeOK, LandedOncePerKey, KeysLinked,
              InTx, Row
<1>9. ASSUME NEW r \in Requests, Discard(r) PROVE KeysInv'
  BY <1>9 DEF Discard, Unlinked, NoRow, Seen, KeysInv, TypeOK, LandedOncePerKey, KeysLinked,
              InTx, Row
<1>10. ASSUME NEW r \in Requests, Crash(r) PROVE KeysInv'
  <2>1. /\ UNCHANGED <<keyRow, landed>> /\ crashes \in Int /\ crashes' = crashes + 1
        /\ crashes < MaxCrashes
        /\ pc' = [pc EXCEPT ![r] = "done"] /\ answer' = [answer EXCEPT ![r] = None]
    BY <1>10 DEF Crash, Reply, Go, KeysInv, TypeOK
  <2>2. \A k \in Keys : holder'[k] = IF holder[k] = r THEN None ELSE holder[k]
    BY <1>10 DEF Crash, Release, Key, InTx, KeysInv, TypeOK
  <2>3. holder' \in [Keys -> Requests \cup {None}]
    BY <1>10 DEF Crash, Release, Key, KeysInv, TypeOK
  <2>4. TypeOK'
    BY <2>1, <2>2, <2>3 DEF KeysInv, TypeOK
  <2>5. LandedOncePerKey'
    BY <2>1 DEF KeysInv, LandedOncePerKey, Seen
  <2>6. KeysLinked'
    BY <2>1, <2>2 DEF KeysInv, TypeOK, KeysLinked, InTx
  <2> QED BY <2>4, <2>5, <2>6 DEF KeysInv
<1>11. ASSUME NEW r \in Requests, Retry(r) PROVE KeysInv'
  BY <1>11 DEF Retry, Go, Seen, KeysInv, TypeOK, LandedOncePerKey, KeysLinked, InTx, Row
<1>12. CASE UNCHANGED vars
  BY <1>12 DEF vars, Seen, KeysInv, TypeOK, LandedOncePerKey, KeysLinked, InTx, Row
<1> QED BY <1>1, <1>2, <1>3, <1>4, <1>5, <1>6, <1>7, <1>8, <1>9, <1>10, <1>11,
           <1>12 DEF Next, Handle
-----------------------------------------------------------------------------
LEMMA KeysHold == Spec => []KeysInv
BY KeysStart, KeysStep, PTL DEF Spec

(* A request holds a key only inside the transaction that inserted it, and *)
(* every row keeps its shape.                                              *)
THEOREM TypeCorrect == Spec => []TypeOK
BY KeysHold, PTL DEF KeysInv

(* No key ever has two committed business writes, and none is without its  *)
(* key row.                                                                *)
THEOREM NeverLandsTwice == Spec => []LandedOncePerKey
BY KeysHold, PTL DEF KeysInv
-----------------------------------------------------------------------------
(* The key's result as the client may learn it: nothing of the service but *)
(* Result and answer is visible to AnswerOnce.                             *)
LEMMA ResultOfUnchangedRow ==
    ASSUME UNCHANGED keyRow PROVE UNCHANGED Result
BY DEF Result

LEMMA SettleAnswers ==
    ASSUME KeysInv, NEW r \in Requests, Settle(r), UNCHANGED keyRow,
           Seen(r).status # "ABSENT"
    PROVE  Promise!Next
<1> USE KeyAssumption
<1>1. UNCHANGED Result
  BY ResultOfUnchangedRow
<1>2. CASE Mismatch(r) \/ Seen(r).status # "COMPLETED"
  BY <1>1, <1>2 DEF Settle, Reply, Promise!Next, Promise!Refuse
<1>3. CASE ~ Mismatch(r) /\ Seen(r).status = "COMPLETED"
  <2>1. Result[KeyOf[r]] = Seen(r).by /\ Seen(r).by \in Requests
    BY <1>3 DEF Result, Seen, KeysInv, KeysLinked
  <2> QED
    BY <1>1, <1>3, <2>1 DEF Settle, Reply, Mismatch, Promise!Next, Promise!Replay
<1> QED BY <1>2, <1>3

LEMMA CompletedKeyExecutes ==
    ASSUME KeysInv, NEW r \in Requests, NEW made,
           Seen(r).status # "COMPLETED",
           keyRow' = [keyRow EXCEPT ![Key(r)] = Stored(r, made)], Reply(r, r)
    PROVE  Promise!Next
<1> USE KeyAssumption
<1>1. Result[KeyOf[r]] = None
  BY DEF Result, Seen
<1>2. Result' = [Result EXCEPT ![KeyOf[r]] = r]
  BY DEF Result, Key, Stored, KeysInv, TypeOK
<1> QED BY <1>1, <1>2 DEF Reply, Promise!Next, Promise!Execute

LEMMA DiscardKeepsResult ==
    ASSUME KeysInv, NEW r \in Requests, Discard(r)
    PROVE  UNCHANGED <<Result, answer>>
BY DEF Discard, Unlinked, NoRow, Result, KeysInv, TypeOK, Row

LEMMA StepRefines == KeysInv /\ [Next]_vars => [Promise!Next]_<<Result, answer>>
<1> SUFFICES ASSUME KeysInv, [Next]_vars PROVE [Promise!Next]_<<Result, answer>>
  OBVIOUS
<1> USE KeyAssumption
<1>1. ASSUME NEW r \in Requests, Find(r) \/ Reread(r)
      PROVE  [Promise!Next]_<<Result, answer>>
  <2>1. UNCHANGED keyRow /\ UNCHANGED Result
    BY <1>1, ResultOfUnchangedRow DEF Find, Reread
  <2>2. CASE Seen(r).status = "ABSENT"
    BY <1>1, <2>1, <2>2 DEF Find, Reread, Reply, Promise!Next, Promise!Refuse
  <2>3. CASE Seen(r).status # "ABSENT"
    BY <1>1, <2>1, <2>3, SettleAnswers DEF Find, Reread
  <2> QED BY <2>2, <2>3
<1>2. ASSUME NEW r \in Requests, Insert(r) PROVE UNCHANGED <<Result, answer>>
  BY <1>2, ResultOfUnchangedRow DEF Insert
<1>3. ASSUME NEW r \in Requests, CommitOnce(r) PROVE Promise!Next
  <2>1. Seen(r).status = "ABSENT"
    BY <1>3 DEF CommitOnce, KeysInv, KeysLinked, InTx, Seen
  <2> QED BY <1>3, <2>1, CompletedKeyExecutes DEF CommitOnce
<1>4. ASSUME NEW r \in Requests, Throw(r) \/ Abandon(r) PROVE Promise!Next
  BY <1>4, ResultOfUnchangedRow
     DEF Throw, Abandon, Reply, Promise!Next, Promise!Refuse
<1>5. ASSUME NEW r \in Requests, CommitClaim(r) PROVE UNCHANGED <<Result, answer>>
  BY <1>5 DEF CommitClaim, Key, Result, KeysInv, TypeOK, KeysLinked, InTx
<1>6. ASSUME NEW r \in Requests, Finalize(r) PROVE Promise!Next
  <2>1. CASE RunStands(r)
    <3>1. Seen(r).status = "PROCESSING"
      BY <1>6, <2>1 DEF Finalize, RunStands, KeysInv, KeysLinked, Seen
    <3> QED BY <1>6, <2>1, <3>1, CompletedKeyExecutes DEF Finalize
  <2>2. CASE ~ RunStands(r)
    BY <1>6, <2>2, ResultOfUnchangedRow
       DEF Finalize, Reply, Promise!Next, Promise!Refuse
  <2> QED BY <2>1, <2>2
<1>7. ASSUME NEW r \in Requests, Discard(r) PROVE UNCHANGED <<Result, answer>>
  BY <1>7, DiscardKeepsResult
<1>8. ASSUME NEW r \in Requests, Crash(r) \/ Retry(r) PROVE Promise!Next
  BY <1>8, ResultOfUnchangedRow
     DEF Crash, Retry, Reply, Promise!Next, Promise!AskAgain
<1>9. CASE UNCHANGED vars
  BY <1>9, ResultOfUnchangedRow DEF vars
<1> QED
  BY <1>1, <1>2, <1>3, <1>4, <1>5, <1>6, <1>7, <1>8, <1>9 DEF Next, Handle

(* The service implements the promise made to its clients: one execution   *)
(* per key, and only its answer, or a refusal, for whoever asks.           *)
THEOREM KeepsPromise == Spec => PromiseKept
<1>1. Init => Promise!Init
  BY KeyAssumption DEF Init, Promise!Init, Result, NoRow
<1> QED BY <1>1, KeysHold, StepRefines, PTL DEF Spec, PromiseKept, Promise!Spec
=============================================================================
