------------------------------ MODULE Numbering ------------------------------
(***************************************************************************)
(* Document numbers.  SequenceService keeps one counter per kind and       *)
(* period: nextFormatted draws the next number of one kind, nextAligned    *)
(* one number that is free for every kind of a new household.  A payment   *)
(* takes its receipt number from the cashier's receipt book, if there is   *)
(* one.  Numbers are drawn inside the transaction that writes the rows     *)
(* they name, and a rollback returns them.                                 *)
(***************************************************************************)
EXTENDS Integers

CONSTANTS Kinds,     \* the kinds of number a household has
          LastNo,    \* bound: numbers are 1 .. LastNo
          MaxTries,  \* how many suffixes nextAligned tries (50 in the code)
          BookEnd,   \* the receipt book holds the numbers 1 .. BookEnd
          Clerks     \* transactions that may be open at once

ASSUME NumberingAssumption ==
    /\ LastNo \in Nat \ {0} /\ MaxTries \in Nat \ {0} /\ BookEnd \in Nat \ {0}
    /\ Kinds # {}

VARIABLES seq,      \* seq[k]: cur_val of the counter of kind k, 0 if no row
          row,      \* row[k][n]: "free", "typed" by an operator, or "drawn"
          draw,     \* draw[c]: the numbers clerk c has drawn, 0 if none
          book,     \* the receipt book of a cashier
          printed,  \* the numbers of its committed receipts
          slip      \* slip[c]: the receipt number c has read, and holds
numberVars == <<seq, row, draw, book, printed, slip>>

Numbers == 1 .. LastNo
NoDraw  == [k \in Kinds |-> 0]
NoSlip  == [no |-> 0, held |-> FALSE]

NumberInit ==
    /\ seq = [k \in Kinds |-> 0]
    /\ row = [k \in Kinds |-> [n \in Numbers |-> "free"]]
    /\ draw = [c \in Clerks |-> NoDraw]
    /\ book = [next |-> 1, status |-> "STOCK"]
    /\ printed = {}
    /\ slip = [c \in Clerks |-> NoSlip]

receiptVars == <<book, printed, slip>>
-----------------------------------------------------------------------------
(* The counter row of a kind stays locked until the transaction that drew  *)
(* from it ends.                                                           *)
Unlocked(k) == \A c \in Clerks : draw[c][k] = 0

(* nextFormatted: the upsert returns cur_val + 1 and looks at no row.      *)
DrawOne(c, k) ==
    /\ draw[c] = NoDraw /\ Unlocked(k)
    /\ seq[k] < LastNo
    /\ draw' = [draw EXCEPT ![c][k] = seq[k] + 1]
    /\ UNCHANGED <<seq, row, receiptVars>>

(* nextAligned: beyond every counter, the first number that no row has.    *)
FreeForAll(n) == \A k \in Kinds : row[k][n] = "free"
Tried == {n \in Numbers : /\ \A k \in Kinds : seq[k] < n
                          /\ \E k \in Kinds : n <= seq[k] + MaxTries}

DrawAligned(c) ==
    /\ draw[c] = NoDraw /\ \A k \in Kinds : Unlocked(k)
    /\ \E n \in Tried :
          /\ FreeForAll(n)
          /\ \A m \in Tried : m < n => ~ FreeForAll(m)
          /\ draw' = [draw EXCEPT ![c] = [k \in Kinds |-> n]]
    /\ UNCHANGED <<seq, row, receiptVars>>

(* The rows are inserted.  A number that an operator typed meanwhile fails *)
(* on its unique index, and the transaction with it.                       *)
Taken(c) == \E k \in Kinds : draw[c][k] # 0 /\ row[k][draw[c][k]] # "free"
StepOfOne(c, k) == IF draw[c][k] = 0 THEN seq[k] ELSE seq[k] + 1   \* faulty
Raised(c, k) == IF draw[c][k] = 0 THEN seq[k] ELSE draw[c][k]

SaveDraw(c) ==
    /\ draw[c] # NoDraw
    /\ draw' = [draw EXCEPT ![c] = NoDraw]
    /\ IF Taken(c)
       THEN UNCHANGED <<seq, row>>
       ELSE /\ seq' = [k \in Kinds |-> Raised(c, k)]
            /\ row' = [k \in Kinds |-> [n \in Numbers |->
                         IF draw[c][k] = n THEN "drawn" ELSE row[k][n]]]
    /\ UNCHANGED receiptVars

DropDraw(c) ==
    /\ draw[c] # NoDraw
    /\ draw' = [draw EXCEPT ![c] = NoDraw]
    /\ UNCHANGED <<seq, row, receiptVars>>

(* An explicit or migrated number leaves the counters alone.               *)
TypeIn(k, n) ==
    /\ row[k][n] = "free"
    /\ row' = [row EXCEPT ![k][n] = "typed"]
    /\ UNCHANGED <<seq, draw, receiptVars>>
-----------------------------------------------------------------------------
(* The receipt book: issued to the cashier, retired, and read without a    *)
(* lock by the payments the cashier takes.                                 *)
Issue ==
    /\ book.status = "STOCK"
    /\ book' = [book EXCEPT !.status = "ISSUED"]
    /\ UNCHANGED <<seq, row, draw, printed, slip>>

BookFree == \A c \in Clerks : ~ slip[c].held

Retire ==
    /\ book.status \in {"STOCK", "ISSUED"} /\ BookFree
    /\ book' = [book EXCEPT !.status = "RETIRED"]
    /\ UNCHANGED <<seq, row, draw, printed, slip>>

ReadBook(c) ==
    /\ slip[c] = NoSlip
    /\ book.status = "ISSUED" /\ book.next <= BookEnd
    /\ slip' = [slip EXCEPT ![c].no = book.next]
    /\ UNCHANGED <<seq, row, draw, book, printed>>

(* next_no = next_no + 1, which locks the row of the book.                 *)
Advance(c) ==
    /\ slip[c].no # 0 /\ BookFree
    /\ slip' = [slip EXCEPT ![c].held = TRUE]
    /\ UNCHANGED <<seq, row, draw, book, printed>>

AnyNumber(c) == FALSE             \* faulty variant of Reprint
Reprint(c) == slip[c].no \in printed

PrintReceipt(c) ==
    /\ slip[c].held
    /\ slip' = [slip EXCEPT ![c] = NoSlip]
    /\ IF Reprint(c)
       THEN UNCHANGED <<book, printed>>
       ELSE /\ printed' = printed \cup {slip[c].no}
            /\ book' = [next |-> book.next + 1,
                        status |-> IF slip[c].no >= BookEnd THEN "EXHAUSTED"
                                   ELSE book.status]
    /\ UNCHANGED <<seq, row, draw>>

DropSlip(c) ==
    /\ slip[c] # NoSlip
    /\ slip' = [slip EXCEPT ![c] = NoSlip]
    /\ UNCHANGED <<seq, row, draw, book, printed>>
-----------------------------------------------------------------------------
NumberNext ==
    \/ \E c \in Clerks :
          \/ \E k \in Kinds : DrawOne(c, k)
          \/ DrawAligned(c) \/ SaveDraw(c) \/ DropDraw(c)
          \/ ReadBook(c) \/ Advance(c) \/ PrintReceipt(c) \/ DropSlip(c)
    \/ \E k \in Kinds, n \in Numbers : TypeIn(k, n)
    \/ Issue \/ Retire

NumberSpec == NumberInit /\ [][NumberNext]_numberVars
-----------------------------------------------------------------------------
(* No counter falls behind a number it gave out, aligned jumps included:   *)
(* the next number of a kind is never one that was drawn before, and two   *)
(* clerks never hold the same number of a kind.                            *)
CountersLead ==
    \A k \in Kinds :
        /\ \A n \in Numbers : row[k][n] = "drawn" => n <= seq[k]
        /\ \A c, d \in Clerks :
              draw[c][k] = draw[d][k] => c = d \/ draw[c][k] = 0

(* The receipts printed from a book are its first numbers, each once and   *)
(* none left out, although two payments may read the same next number; it  *)
(* is EXHAUSTED only when all are used.                                    *)
BookInOrder ==
    /\ printed = 1 .. book.next - 1
    /\ book.status = "EXHAUSTED" => book.next = BookEnd + 1
=============================================================================
