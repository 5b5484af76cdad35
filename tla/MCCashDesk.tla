----------------------------- MODULE MCCashDesk -----------------------------
(* The instances of the payment desk.  part says what a behaviour is about: *)
(* "drawers" two cashiers, their payments and day closes over two days;     *)
(* "debit" the bank debits of two households and two batches; "numbers" the *)
(* counters and a receipt book; "dues" the bill of one account.             *)
EXTENDS DayClose, BankDebit, Numbering, AccountDues, TLC

CONSTANTS h1, h2

VARIABLE part
deskVars == <<vars, drawerVars>>
mcVars == <<part, deskVars, debitVars, numberVars, duesVars>>

MCOwed == h1 :> <<1, 1>> @@ h2 :> <<1, 0>>

DeskInit ==
    /\ part \in {"drawers", "debit", "numbers", "dues"}
    /\ DrawerInit /\ DebitInit /\ NumberInit /\ DuesInit
    /\ owed = MCOwed
    /\ part # "dues" => funds = 0

(* Of the numbers: the counters and the book are apart, so a behaviour is  *)
(* about either.                                                           *)
Drawn == \E k \in Kinds : row[k] # [n \in Numbers |-> "free"]
Apart ==
    /\ draw' # draw \/ row' # row => book.status = "STOCK"
    /\ book' # book => ~ Drawn /\ \A c \in Clerks : draw[c] = NoDraw

(* Of the debits: two households share one batch, or one has two batches.  *)
(* The bank takes an amount at most twice: a rollback and one rerun.       *)
(* Agreements are signed before the first batch.                           *)
Used(k) == draft'[k] # NoDraft \/ batch'[k] # NoBatch
DebitBounds ==
    /\ \A k \in Batches, h \in Houses : taken'[k][h] <= 2
    /\ Used(2) => Used(1) /\ h2 \notin agreed'
    /\ h2 \in agreed' => h1 \in agreed' \/ Used(1)
    /\ ~ agreed' \subseteq agreed => ~ Used(1)

DeskNext ==
    \/ /\ part = "drawers" /\ DrawerNext
       /\ UNCHANGED <<part, debitVars, numberVars, duesVars>>
    \/ /\ part = "debit" /\ DebitNext /\ DebitBounds
       /\ UNCHANGED <<part, deskVars, numberVars, duesVars>>
    \/ /\ part = "numbers" /\ NumberNext /\ Apart
       /\ UNCHANGED <<part, deskVars, debitVars, duesVars>>
    \/ /\ part = "dues" /\ DuesNext
       /\ UNCHANGED <<part, deskVars, debitVars, numberVars>>

DeskSpec == DeskInit /\ [][DeskNext]_mcVars
Symmetry == Permutations(Cashiers)
=============================================================================
