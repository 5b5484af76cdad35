----------------------------- MODULE AnnualLadder -----------------------------
(***************************************************************************)
(* The annual ladder of one water account: the price of a bill by the      *)
(* cumulative tiers of its year (billing-core's tieredAmount, computeBill, *)
(* allocateUsage and reprice), the cursor it starts from (ytdBeforeQty),   *)
(* and the corrections that move it: reversal, replacement and the         *)
(* ADJUSTMENT bill of a reconciliation.                                    *)
(*                                                                         *)
(* Quantities are whole cubic metres, so a share is rounded to a whole     *)
(* one where the code rounds to 4 decimals.  Who paid the bills is left to *)
(* SettleFunds, how their usage was read to Settlements.                   *)
(***************************************************************************)
EXTENDS Sums, Sequences, FiniteSetsExt

CONSTANTS LastMonth,   \* bound: the periods are 1 .. LastMonth
          YearEnd,     \* the last period of the first year
          Ladder,      \* tiers of the first PER_QTY item: [to, price], only the last is Unbounded
          Unbounded,   \* to_qty NULL
          FlatPrice,   \* price of the second PER_QTY item
          Fixed,       \* the FIXED item
          Percent,     \* the PERCENT item, in hundredths
          MostUsage,   \* bound: usage of a period
          Habits       \* bounds of a behaviour: PER_QTY items of the plan,
                       \* shift of the tiers by the household, the policy,
                       \* the replacements and the reconciliations

Months == 1 .. LastMonth
Policies == {"PROPORTIONAL_TO_SETTLED", "ALL_TO_CURRENT"}

ASSUME LadderAssumption ==
    /\ LastMonth \in Nat \ {0} /\ YearEnd \in Months
    /\ MostUsage \in Nat /\ FlatPrice \in Nat /\ Fixed \in Nat /\ Percent \in Nat
    /\ Unbounded \notin Nat
    /\ Ladder \in Seq([to : Nat \cup {Unbounded}, price : Nat]) /\ Ladder # <<>>
    /\ \A i \in DOMAIN Ladder : Ladder[i].to = Unbounded <=> i = Len(Ladder)
    /\ \A i, j \in 1 .. Len(Ladder) - 1 : i < j => Ladder[i].to < Ladder[j].to
    /\ Habits \subseteq [items : 1 .. 2, shift : Nat, policy : Policies,
                          replaces : Nat, recons : Nat]

VARIABLES habit,    \* the bounds of this behaviour
          metered,  \* metered[m]: total_usage_qty of the FINAL settlement, or NoUsage
          charge,   \* charge[m]: the NORMAL bill of m, or the REPLACEMENT of it
          adjusts,  \* the ADJUSTMENT bills, oldest first
          recons,   \* reconciliations recorded so far
          replaced, \* replacements so far
          calm      \* every bill and correction came in the order of the periods
ladderVars == <<habit, metered, charge, adjusts, recons, replaced, calm>>

NoUsage == -1
NoCharge == [kind |-> "NORMAL", status |-> "NONE", qty |-> 0, amount |-> 0, ytd |-> 0]

LadderInit ==
    /\ habit \in Habits
    /\ metered = [m \in Months |-> NoUsage]
    /\ charge = [m \in Months |-> NoCharge]
    /\ adjusts = <<>> /\ recons = 0 /\ replaced = 0 /\ calm = TRUE
-----------------------------------------------------------------------------
(* What a quantity costs from a cursor on.                                 *)

RoundHalfUp(n, d) == (2 * n + d) \div (2 * d)
AtMost(a, b) == IF a < b THEN a ELSE b

ScaledTiers(shift) ==
    [i \in DOMAIN Ladder |->
        IF Ladder[i].to = Unbounded THEN Ladder[i]
        ELSE [Ladder[i] EXCEPT !.to = @ + shift]]

Take(acc, t) ==
    LET cap == IF t.to = Unbounded THEN acc.left
               ELSE IF t.to > acc.cursor THEN t.to - acc.cursor ELSE 0
        inTier == AtMost(acc.left, cap)
    IN  [left |-> acc.left - inTier, cursor |-> acc.cursor + inTier,
         cent |-> acc.cent + inTier * t.price]

TieredAmount(qty, ytd, tiers) ==
    LET walk[i \in 0 .. Len(tiers)] ==
            IF i = 0 THEN [left |-> qty, cursor |-> ytd, cent |-> 0]
                     ELSE Take(walk[i - 1], tiers[i])
    IN  walk[Len(tiers)].cent

ComputeBill(qty, ytd) ==
    LET base == TieredAmount(qty, ytd, ScaledTiers(habit.shift))
                  + (IF habit.items = 2 THEN FlatPrice * qty ELSE 0) + Fixed
    IN  base + RoundHalfUp(base * Percent, 100)

(* The rows of a bill carry the quantity once per PER_QTY item.            *)
RowsQty(qty) == habit.items * qty
-----------------------------------------------------------------------------
(* The cursor: usage already billed in the year before a period.           *)
Over(S, f) == SumTo([q \in Months |-> IF q \in S THEN f[q] ELSE 0], LastMonth)
YearOf(m) == IF m <= YearEnd THEN 1 ELSE 2
Posted(m) == charge[m].status = "POSTED"

BilledUsage(m) == IF charge[m].kind = "NORMAL" THEN metered[m] ELSE RowsQty(charge[m].qty)

(* The ADJUSTMENT bills issued up to a period that correct period q; the   *)
(* latest of them counts, unless the period is not in the map: a           *)
(* replacement by nothing has no row that would bring it in.               *)
Corrections(q, upTo) ==
    {i \in DOMAIN adjusts : adjusts[i].at <= upTo /\ q \in DOMAIN adjusts[i].delta}
LastDelta(q, upTo) == adjusts[Max(Corrections(q, upTo))].delta[q]

HasUsage(q) == charge[q].kind = "NORMAL" \/ charge[q].qty > 0

UsageAt(q, upTo) ==
    IF Corrections(q, upTo) = {} \/ ~HasUsage(q) THEN BilledUsage(q)
    ELSE metered[q] + LastDelta(q, upTo)

EarlierInYear(m) == {q \in 1 .. m - 1 : YearOf(q) = YearOf(m) /\ Posted(q)}

(* The cursor, and a faulty variant that adds every correction there was.  *)
SummedDeltas(m) ==
    LET Delta(q, i) == IF i \in Corrections(q, m) THEN adjusts[i].delta[q] ELSE 0
        Used(q) == BilledUsage(q)
                     + SumTo([i \in DOMAIN adjusts |-> Delta(q, i)], Len(adjusts))
    IN  Over(EarlierInYear(m), [q \in Months |-> Used(q)])
YtdBefore(m) == Over(EarlierInYear(m), [q \in Months |-> UsageAt(q, m)])
-----------------------------------------------------------------------------
NothingAfter(m) == \A q \in m + 1 .. LastMonth : charge[q].status = "NONE"
Untouched(m) == \A i \in DOMAIN adjusts : m \notin DOMAIN adjusts[i].delta

SettleMonth(m, u) ==
    /\ metered[m] = NoUsage /\ \A q \in 1 .. m - 1 : metered[q] # NoUsage
    /\ metered' = [metered EXCEPT ![m] = u]
    /\ UNCHANGED <<habit, charge, adjusts, recons, replaced, calm>>

PriceMonth(m) ==
    /\ metered[m] # NoUsage /\ charge[m].status = "NONE"
    /\ LET ytd == YtdBefore(m)
       IN  charge' = [charge EXCEPT ![m] =
               [kind |-> "NORMAL", status |-> "DRAFT", qty |-> metered[m],
                amount |-> ComputeBill(metered[m], ytd), ytd |-> ytd]]
    /\ UNCHANGED <<habit, metered, adjusts, recons, replaced, calm>>

Post(m) ==
    /\ charge[m].status = "DRAFT"
    /\ charge' = [charge EXCEPT ![m].status = "POSTED"]
    /\ calm' = (calm /\ NothingAfter(m) /\ charge[m].ytd = YtdBefore(m))
    /\ UNCHANGED <<habit, metered, adjusts, recons, replaced>>

DropDraft(m) ==
    /\ charge[m].status = "DRAFT"
    /\ charge' = [charge EXCEPT ![m] = NoCharge]
    /\ UNCHANGED <<habit, metered, adjusts, recons, replaced, calm>>

ReverseMonth(m) ==
    /\ Posted(m)
    /\ charge' = [charge EXCEPT ![m].status = "REVERSED"]
    /\ calm' = (calm /\ NothingAfter(m) /\ Untouched(m))
    /\ UNCHANGED <<habit, metered, adjusts, recons, replaced>>

ReplaceMonth(m, u) ==
    /\ Posted(m) /\ charge[m].kind = "NORMAL" /\ replaced < habit.replaces
    /\ LET ytd == YtdBefore(m)
       IN  charge' = [charge EXCEPT ![m] =
               [kind |-> "REPLACEMENT", status |-> "POSTED", qty |-> u,
                amount |-> ComputeBill(u, ytd), ytd |-> ytd]]
    /\ replaced' = replaced + 1
    /\ calm' = (calm /\ NothingAfter(m) /\ Untouched(m))
    /\ UNCHANGED <<habit, metered, adjusts, recons>>
-----------------------------------------------------------------------------
(* Reconciliation of the periods a + 1 .. m with the usage t that the dial *)
(* shows for them.                                                         *)
Allocate(a, m, t) ==
    LET S == Over(a + 1 .. m, metered)
        Share(q) == IF habit.policy = "ALL_TO_CURRENT" THEN metered[q]
                    ELSE IF S = 0 THEN 0 ELSE RoundHalfUp(t * metered[q], S)
        before == Over(a + 1 .. m - 1, [q \in Months |-> Share(q)])
    IN  [q \in a + 1 .. m |-> IF q < m THEN Share(q) ELSE t - before]

(* The cursor walks over the span and starts again at a new year.          *)
RepriceCursor(a, alloc, q) ==
    Over({r \in a + 1 .. q - 1 : YearOf(r) = YearOf(q)}, alloc)
      + (IF YearOf(q) = YearOf(a + 1) THEN YtdBefore(a + 1) ELSE 0)

CorrectCharge(a, m, alloc) ==
    Over(a + 1 .. m,
         [q \in a + 1 .. m |-> ComputeBill(alloc[q], RepriceCursor(a, alloc, q))])

AdjustedAt(S) ==
    SumTo([i \in DOMAIN adjusts |-> IF adjusts[i].at \in S THEN adjusts[i].amount ELSE 0],
          Len(adjusts))

PostedCharge(a, m) ==
    Over(a + 1 .. m, [q \in Months |-> charge[q].amount]) + AdjustedAt(a + 1 .. m)

PriorDelta(q, m) == IF Corrections(q, m) = {} THEN 0 ELSE LastDelta(q, m)

(* A later span starts where an earlier correction ended.                  *)
Within(a) == \A i \in DOMAIN adjusts :
    adjusts[i].at <= a \/ \A q \in DOMAIN adjusts[i].delta : q > a

Reconcile(a, m, t) ==
    /\ recons < habit.recons
    /\ \A q \in a + 1 .. m : Posted(q)
    /\ LET alloc == Allocate(a, m, t)
           amount == CorrectCharge(a, m, alloc) - PostedCharge(a, m)
           changed == \E q \in a + 1 .. m : alloc[q] # metered[q] + PriorDelta(q, m)
       IN  /\ \A q \in a + 1 .. m : alloc[q] >= 0
           /\ adjusts' = IF amount = 0 /\ ~changed THEN adjusts
                         ELSE Append(adjusts, [at |-> m, amount |-> amount,
                                delta |-> [q \in a + 1 .. m |-> alloc[q] - metered[q]]])
    /\ recons' = recons + 1
    /\ calm' = (calm /\ NothingAfter(m) /\ Within(a) /\ \A q \in a + 1 .. m : HasUsage(q))
    /\ UNCHANGED <<habit, metered, charge, replaced>>
-----------------------------------------------------------------------------
LadderNext ==
    \/ \E m \in Months, u \in 0 .. MostUsage : SettleMonth(m, u) \/ ReplaceMonth(m, u)
    \/ \E m \in Months : PriceMonth(m) \/ Post(m) \/ DropDraft(m) \/ ReverseMonth(m)
    \/ \E m \in Months : \E a \in 0 .. m - 1 :
          \E t \in 0 .. (m - a) * MostUsage : Reconcile(a, m, t)

LadderSpec == LadderInit /\ [][LadderNext]_ladderVars
-----------------------------------------------------------------------------
(* What a period finally counts: the latest correction, the operator's     *)
(* quantity, or the settlement.                                            *)
FinalUsage(q) ==
    IF Corrections(q, LastMonth) # {} THEN metered[q] + LastDelta(q, LastMonth)
    ELSE IF charge[q].kind = "REPLACEMENT" THEN charge[q].qty ELSE metered[q]

(* The price of the k-th cubic metre of a year.                            *)
PriceOfUnit(k) ==
    LET tiers == ScaledTiers(habit.shift)
        Reaches(i) == tiers[i].to = Unbounded \/ k <= tiers[i].to
    IN  tiers[CHOOSE i \in DOMAIN tiers :
                 Reaches(i) /\ \A j \in 1 .. i - 1 : ~Reaches(j)].price

YearPrice(y) ==
    LET S == {m \in Months : Posted(m) /\ YearOf(m) = y}
        used == Over(S, [m \in Months |-> FinalUsage(m)])
        base == SumTo([k \in 1 .. used |-> PriceOfUnit(k)], used)
                  + Over(S, [m \in Months |-> Fixed])
                  + (IF habit.items = 2 THEN FlatPrice * used ELSE 0)
    IN  base + RoundHalfUp(base * Percent, 100)

(* Types; a bill has a settlement, and an adjustment never brings a period *)
(* below zero.                                                             *)
LadderTypeOK ==
    /\ habit \in Habits /\ recons \in Nat /\ replaced \in Nat /\ calm \in BOOLEAN
    /\ \A m \in Months :
          /\ metered[m] \in {NoUsage} \cup 0 .. MostUsage
          /\ charge[m].kind \in {"NORMAL", "REPLACEMENT"}
          /\ charge[m].status \in {"NONE", "DRAFT", "POSTED", "REVERSED"}
          /\ charge[m].status # "NONE" => metered[m] # NoUsage
    /\ \A i \in DOMAIN adjusts : \A m \in DOMAIN adjusts[i].delta :
          m \in 1 .. adjusts[i].at /\ metered[m] + adjusts[i].delta[m] >= 0

(* Under some plans no bill rounds: the percentage of every price is a     *)
(* whole number of cents.  And a plan under which bills are replaced may   *)
(* have one item per quantity (see CursorCountsUsage for one with two).    *)
Whole(x) == (x * Percent) % 100 = 0
PricesExact ==
    Whole(FlatPrice) /\ Whole(Fixed) /\ \A i \in DOMAIN Ladder : Whole(Ladder[i].price)
CountedOnce == \A h \in Habits : h.items = 1 \/ h.replaces = 0

(* The roundings, of half a cent at most, between what an account is       *)
(* billed and the price of its usage: one of each bill, one of each year.  *)
Roundings ==
    IF PricesExact THEN 0
    ELSE Over({m \in Months : Posted(m)}, [m \in Months |-> 1]) + 2

(* What an account is billed is the ladder price of what it used: however  *)
(* the usage of a year was split over bills, replaced, reversed and        *)
(* reconciled, also across a year's end, the posted bills and adjustments  *)
(* add up to the price of the year's usage in one piece, but for the       *)
(* rounding of the percentage: a correction adds none of its own.          *)
LadderExact ==
    calm => LET billed == Over({m \in Months : Posted(m)}, [m \in Months |-> charge[m].amount])
                            + AdjustedAt(Months)
                due == YearPrice(1) + YearPrice(2)
            IN  2 * (billed - due) <= Roundings /\ 2 * (due - billed) <= Roundings

(* The cursor of the next bill is the usage its year has been billed for.  *)
CursorCountsUsage ==
    calm => \A m \in Months :
        charge[m].status = "NONE" /\ NothingAfter(m)
          => YtdBefore(m) = Over(EarlierInYear(m), [q \in Months |-> FinalUsage(q)])
=============================================================================
