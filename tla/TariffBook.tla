------------------------------ MODULE TariffBook ------------------------------
(***************************************************************************)
(* The price book (TariffPlanService, the pick and the plan lock of        *)
(* pricing.ts) and the bills that quote it: the versions of the plans of   *)
(* one usage category, edited, activated and retired by transactions under *)
(* READ COMMITTED while bills are priced, inserted and posted.             *)
(*                                                                         *)
(* A month has two days; a window is [from, to), and a plan without        *)
(* effective_to ends at OpenEnd.  The tiers and the household scale of a   *)
(* plan are one value, its facts.                                          *)
(***************************************************************************)
EXTENDS Integers, FiniteSets

CONSTANTS Versions,      \* rows of tariff_plan
          TariffMonths,  \* bound: the months are 1 .. TariffMonths
          Facts,         \* what a plan's tiers and scale may be
          NoTiers,       \* the facts of a plan without tiers
          Editors,       \* transactions that edit plans
          Window,        \* bound: how many of them may have read a plan to PATCH
          Quotes         \* bills

ASSUME TariffAssumption ==
    TariffMonths \in Nat \ {0} /\ Window \in Nat /\ NoTiers \notin Facts

VARIABLES tariff,  \* tariff[v]: a plan row
          edit,    \* edit[e]: the transaction that e has under way
          quoted   \* quoted[b]: a bill and the facts it was priced with
tariffVars == <<tariff, edit, quoted>>

OpenEnd == 2 * TariffMonths + 1
Days == 0 .. 2 * TariffMonths
MonthStart(m) == 2 * (m - 1)
MonthEnd(m) == 2 * m

NoVersion == [status |-> "NONE", from |-> 0, to |-> OpenEnd, facts |-> NoTiers]
NoEdit == [step |-> "idle"]
NoQuote == [status |-> "NONE"]

TariffInit ==
    /\ tariff = [v \in Versions |-> NoVersion]
    /\ edit = [e \in Editors |-> NoEdit]
    /\ quoted = [b \in Quotes |-> NoQuote]
-----------------------------------------------------------------------------
(* The row lock of a plan: an activation holds it from its first read, a   *)
(* bill that is being posted until it commits.                             *)
RowFree(v) ==
    /\ \A e \in Editors : edit[e].step \in {"locked", "checked"} => edit[e].plan # v
    /\ \A b \in Quotes : quoted[b].status = "POSTING" => quoted[b].plan # v

NoAdvisory == TRUE
AdvisoryFree == \A e \in Editors : edit[e].step # "checked"

(* A bill past DRAFT names the plan.                                       *)
PostedOn(v) == \E b \in Quotes : quoted[b].status = "POSTED" /\ quoted[b].plan = v

WindowOK(from, to) == to > from

(* (tenant, code, effective_from) is unique; the versions have one code.   *)
VersionFree(v, from) ==
    \A u \in Versions \ {v} : tariff[u].status # "NONE" => tariff[u].from # from

InsertPlan(v, from, to, facts) ==
    /\ tariff[v].status = "NONE"
    /\ WindowOK(from, to) /\ VersionFree(v, from)
    /\ tariff' = [tariff EXCEPT ![v] = [status |-> "DRAFT", from |-> from,
                                        to |-> to, facts |-> facts]]
    /\ UNCHANGED <<edit, quoted>>

CreatePlan(v, from, to, facts) == InsertPlan(v, from, to, facts)

(* The source's tiers are copied, or the request brings its own; any       *)
(* status of the source will do.                                           *)
NewVersion(u, v, from, to, facts) ==
    /\ tariff[u].status # "NONE"
    /\ facts \in {tariff[u].facts} \cup Facts
    /\ InsertPlan(v, from, to, facts)
-----------------------------------------------------------------------------
(* PATCH: the request reads the plan, its UPDATE evaluates the guard on    *)
(* its own snapshot, waits for the row, and writes if the status is still  *)
(* the one it needs: a row that was locked but not changed is not checked  *)
(* again, so a bill posted meanwhile goes unseen.                          *)
Shrinks(v, to) == to # OpenEnd /\ to >= tariff[v].from /\ to <= tariff[v].to

PatchMay(v, from, to, facts) ==
    /\ ~PostedOn(v)
    /\ CASE tariff[v].status = "DRAFT" -> WindowOK(from, to)
         [] tariff[v].status = "ACTIVE" ->
              from = tariff[v].from /\ facts = tariff[v].facts /\ Shrinks(v, to)
         [] OTHER -> FALSE

ReadPatch(e, v, from, to, facts) ==
    /\ edit[e].step = "idle"
    /\ Cardinality({c \in Editors : edit[c].step \in {"read", "waiting"}}) < Window
    /\ PatchMay(v, from, to, facts)
    /\ edit' = [edit EXCEPT ![e] = [step |-> "read", plan |-> v,
                    was |-> tariff[v].status, from |-> from, to |-> to, facts |-> facts]]
    /\ UNCHANGED <<tariff, quoted>>

StartUpdate(e) ==
    /\ edit[e].step = "read"
    /\ IF tariff[edit[e].plan].status = edit[e].was /\ ~PostedOn(edit[e].plan)
       THEN edit' = [edit EXCEPT ![e].step = "waiting"]
       ELSE edit' = [edit EXCEPT ![e] = NoEdit]
    /\ UNCHANGED <<tariff, quoted>>

AnyStatus(j) == TRUE
StillHolds(j) == tariff[j.plan].status = j.was

Unique(j) == j.was = "DRAFT" => VersionFree(j.plan, j.from)

ApplyUpdate(e) ==
    LET j == edit[e]
    IN  /\ j.step = "waiting" /\ RowFree(j.plan)
        /\ tariff' = IF StillHolds(j) /\ Unique(j)
                     THEN [tariff EXCEPT ![j.plan] =
                             [status |-> @.status, from |-> j.from, to |-> j.to,
                              facts |-> j.facts]]
                     ELSE tariff
        /\ edit' = [edit EXCEPT ![e] = NoEdit]
        /\ UNCHANGED quoted
-----------------------------------------------------------------------------
(* Activation: the row lock, then the advisory lock of the category and    *)
(* the overlap check under both, then the flip.                            *)
LockPlan(e, v) ==
    /\ edit[e].step = "idle"
    /\ RowFree(v)
    /\ tariff[v].status = "DRAFT" /\ tariff[v].facts # NoTiers
    /\ edit' = [edit EXCEPT ![e] = [step |-> "locked", plan |-> v]]
    /\ UNCHANGED <<tariff, quoted>>

Clashes(v) ==
    \E u \in Versions \ {v} :
        /\ tariff[u].status = "ACTIVE"
        /\ tariff[u].from < tariff[v].to
        /\ tariff[u].to > tariff[v].from

CheckOverlap(e) ==
    /\ edit[e].step = "locked" /\ AdvisoryFree
    /\ edit' = [edit EXCEPT ![e] = IF Clashes(edit[e].plan) THEN NoEdit
                                   ELSE [step |-> "checked", plan |-> edit[e].plan]]
    /\ UNCHANGED <<tariff, quoted>>

Activate(e) ==
    /\ edit[e].step = "checked"
    /\ tariff' = [tariff EXCEPT ![edit[e].plan].status = "ACTIVE"]
    /\ edit' = [edit EXCEPT ![e] = NoEdit]
    /\ UNCHANGED quoted

Retire(v) ==
    /\ tariff[v].status = "ACTIVE" /\ RowFree(v)
    /\ tariff' = [tariff EXCEPT ![v].status = "RETIRED"]
    /\ UNCHANGED <<edit, quoted>>
-----------------------------------------------------------------------------
(* A bill: the pick of the plan and its facts, the insert of the DRAFT     *)
(* behind the plan lock, the post behind it.                               *)
Covers(v, m) ==
    /\ tariff[v].status = "ACTIVE"
    /\ tariff[v].from < MonthEnd(m) /\ tariff[v].to > MonthStart(m)

Picked(v, m) == Covers(v, m) /\ \A u \in Versions : Covers(u, m) => tariff[u].from <= tariff[v].from

PickPlan(b, m) ==
    /\ quoted[b].status = "NONE"
    /\ \E v \in Versions :
          /\ Picked(v, m)
          /\ quoted' = [quoted EXCEPT ![b] = [status |-> "QUOTED", plan |-> v, month |-> m,
                                              from |-> tariff[v].from, facts |-> tariff[v].facts]]
    /\ UNCHANGED <<tariff, edit>>

InsertQuote(b) ==
    /\ quoted[b].status = "QUOTED" /\ RowFree(quoted[b].plan)
    /\ quoted' = [quoted EXCEPT ![b].status = "DRAFT"]
    /\ UNCHANGED <<tariff, edit>>

LockForPost(b) ==
    /\ quoted[b].status = "DRAFT" /\ RowFree(quoted[b].plan)
    /\ quoted' = [quoted EXCEPT ![b].status = "POSTING"]
    /\ UNCHANGED <<tariff, edit>>

PostQuote(b) ==
    /\ quoted[b].status = "POSTING"
    /\ quoted' = [quoted EXCEPT ![b].status = "POSTED"]
    /\ UNCHANGED <<tariff, edit>>

(* A request that fails, or the discard of the run of a DRAFT bill.        *)
DropQuote(b) ==
    /\ quoted[b].status \in {"QUOTED", "DRAFT"}
    /\ quoted' = [quoted EXCEPT ![b] = NoQuote]
    /\ UNCHANGED <<tariff, edit>>
-----------------------------------------------------------------------------
TariffNext ==
    \/ \E v \in Versions, from \in Days, to \in Days \cup {OpenEnd} :
          \/ \E facts \in Facts \cup {NoTiers} :
                \/ CreatePlan(v, from, to, facts)
                \/ \E u \in Versions : NewVersion(u, v, from, to, facts)
                \/ \E e \in Editors : ReadPatch(e, v, from, to, facts)
    \/ \E e \in Editors : StartUpdate(e) \/ ApplyUpdate(e) \/ CheckOverlap(e) \/ Activate(e)
    \/ \E e \in Editors, v \in Versions : LockPlan(e, v)
    \/ \E v \in Versions : Retire(v)
    \/ \E b \in Quotes, m \in 1 .. TariffMonths : PickPlan(b, m)
    \/ \E b \in Quotes : InsertQuote(b) \/ LockForPost(b) \/ PostQuote(b) \/ DropQuote(b)

TariffSpec == TariffInit /\ [][TariffNext]_tariffVars
-----------------------------------------------------------------------------
(* Types; a plan that was inserted has a window that is not negative, and  *)
(* what is under way names a plan that exists.                             *)
TariffTypeOK ==
    /\ \A v \in Versions :
          /\ tariff[v].status \in {"NONE", "DRAFT", "ACTIVE", "RETIRED"}
          /\ tariff[v].from \in Days /\ tariff[v].to \in tariff[v].from .. OpenEnd
          /\ tariff[v].facts \in Facts \cup {NoTiers}
    /\ \A e \in Editors : edit[e].step # "idle" => tariff[edit[e].plan].status # "NONE"
    /\ \A b \in Quotes : quoted[b].status # "NONE" => tariff[quoted[b].plan].status # "NONE"

(* Two published plans never cover one day (the overlap check under the    *)
(* advisory lock, while activations of the category race and one PATCH     *)
(* moves an effective_to): which tariff a bill gets does not depend on     *)
(* the order of the rows.  Two PATCHes of one plan in flight (Window = 2)  *)
(* break it: the second writes back the longer window that the first gave  *)
(* up and an activation has filled since.                                  *)
OnePlanPerDay ==
    \A u, v \in Versions : \A d \in Days :
        /\ tariff[u].status = "ACTIVE" /\ tariff[u].from <= d /\ d < tariff[u].to
        /\ tariff[v].status = "ACTIVE" /\ tariff[v].from <= d /\ d < tariff[v].to
        => u = v

(* The tiers a posted bill was priced with are still those of its plan,    *)
(* and its plan still starts when it did (the freeze of isBillReferenced   *)
(* and the guarded PATCH): the pricing audit trail is not falsified.       *)
QuotedFactsStay ==
    \A b \in Quotes : quoted[b].status = "POSTED" =>
        /\ tariff[quoted[b].plan].facts = quoted[b].facts
        /\ tariff[quoted[b].plan].from = quoted[b].from
=============================================================================
