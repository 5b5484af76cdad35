---------------------------- MODULE MeterCustody ----------------------------
(***************************************************************************)
(* Where a meter is: in a warehouse, on its way, or at an account.         *)
(* MeterInstallationService, MeterStockService, MeterService.updateTx,     *)
(* the status of a water account, and the application for an installation  *)
(* that ends in accounts (InstallService, AllocationService).              *)
(*                                                                         *)
(* A handler that checks a row it has not locked and writes it later is    *)
(* two steps: Read... puts what it saw into work[w], and the step of its   *)
(* own name commits.  A handler under the lock of the account is one.      *)
(***************************************************************************)
EXTENDS TaskDesk

CONSTANTS Accounts, Meters, Workers,
          MaxInstallations,   \* bound: rows of meter_installation
          MaxHandlings,       \* bound: stock movements and status patches
          Warehoused,         \* the tenant has a warehouse
          Starts              \* the initial states: [acct, meter, inst, apply]

VARIABLES acct,      \* acct[a]: the status of the water account
          meter,     \* meter[m]: its status, and whether a warehouse has it
          inst,      \* inst[i]: the row of meter_installation
          apply,     \* the application: its status, what is filled in
          careless,  \* the meters a write without a check has hit (history)
          handled,   \* movements and patches begun
          work       \* work[w]: what request w has read
placeVars == <<acct, meter, inst, apply, careless, handled>>
custodyVars == <<taskVars, placeVars, work>>

Ids == 1 .. MaxInstallations
NoInst == [acct |-> "none", meter |-> "none", live |-> FALSE]
NoApply == [status |-> "NONE", filled |-> FALSE, home |-> FALSE]
Review == <<"review", "application">>  \* INSTALL_REVIEW of the application
Activation(a) == <<"activate", a>>     \* ACCOUNT_ACTIVATE of an account
Over == {"COMPLETED", "REJECTED", "CANCELLED"}
Mountable == {"AVAILABLE", "ISSUED"}
Idle == [do |-> "rest"]

AccountStatuses == {"NONE", "NORMAL", "SUSPENDED", "CLOSED", "RETURNED",
                    "PENDING_ASSIGN", "PENDING_COMPLETE"}
MeterStatuses == {"NONE", "AVAILABLE", "INSTALLED", "MAINTENANCE", "RETIRED",
                  "ISSUED", "IN_TRANSIT"}
ApplyStatuses == {"NONE", "SUBMITTED", "SURVEYED", "APPROVED", "INSTALLING"} \cup Over

(* What is there at the start: rows of the tables, numbered as they came,  *)
(* where an installed meter hangs at one account that is not closed, a     *)
(* meter in no table is in no warehouse, and an application that has had   *)
(* its meter activated is past its submission.                             *)
ASSUME StartsAssumption ==
    /\ MaxInstallations \in Nat /\ MaxHandlings \in Nat
    /\ Warehoused \in BOOLEAN
    /\ "none" \notin Accounts \cup Meters
    /\ \A s \in Starts :
          /\ s.acct \in [Accounts -> AccountStatuses]
          /\ s.meter \in [Meters -> [status : MeterStatuses, stocked : BOOLEAN]]
          /\ s.inst \in [Ids -> [acct : Accounts \cup {"none"},
                                 meter : Meters \cup {"none"}, live : BOOLEAN]]
          /\ \E n \in 0 .. MaxInstallations : \A i \in Ids : s.inst[i].acct # "none" <=> i <= n
          /\ \A i \in Ids : s.inst[i].live =>
                /\ s.inst[i].acct # "none" /\ s.inst[i].meter # "none"
                /\ s.acct[s.inst[i].acct] # "CLOSED"
                /\ s.meter[s.inst[i].meter].status = "INSTALLED"
          /\ \A m \in Meters : s.meter[m].status = "INSTALLED" =>
                \E i \in Ids : {j \in Ids : s.inst[j].live /\ s.inst[j].meter = m} = {i}
          /\ \A m \in Meters : s.meter[m].status = "NONE" => ~ s.meter[m].stocked
          /\ s.apply \in [status : ApplyStatuses, filled : BOOLEAN, home : BOOLEAN]
          /\ s.apply.home => s.apply.status # "SUBMITTED"

CustodyInit ==
    /\ TaskInit
    /\ \E s \in Starts : acct = s.acct /\ meter = s.meter /\ inst = s.inst /\ apply = s.apply
    /\ careless = {} /\ handled = 0
    /\ work = [w \in Workers |-> Idle]

Used == {i \in Ids : inst[i].acct # "none"}
Live == {i \in Ids : inst[i].live}
LiveAt(a) == {i \in Live : inst[i].acct = a}
LiveOf(m) == {i \in Live : inst[i].meter = m}
NewId == Cardinality(Used) + 1
Standing == {"NORMAL", "SUSPENDED"}

Begin(w, r) == /\ work[w] = Idle /\ work' = [work EXCEPT ![w] = r]
               /\ UNCHANGED <<taskVars, placeVars>>
EndWork(w) == work' = [work EXCEPT ![w] = Idle]
GiveUp(w) == work[w] # Idle /\ EndWork(w) /\ UNCHANGED <<taskVars, placeVars>>
SetStatus(m, st) == meter' = [meter EXCEPT ![m].status = st]
Hit(m) == careless' = careless \cup {m}
-----------------------------------------------------------------------------
(* installTx.  It holds the account from its first statement on, so that   *)
(* the status of the account is that of the commit; the meter it reads     *)
(* first and flips, guarded, at the end.                                   *)
FreeToMount(seen) ==
    /\ seen.status \in Mountable
    /\ Warehoused => seen.stocked \/ seen.status = "ISSUED"
Put(a, m) == inst' = [inst EXCEPT ![NewId] = [acct |-> a, meter |-> m, live |-> TRUE]]
AccountAsSeen(r) == r.as # "CLOSED"    \* faulty variant: the account is not locked
AccountOpen(r) == acct[r.acct] # "CLOSED"
UnguardedFlip(m) == TRUE               \* faulty variant: the flip has no guard
StillMountable(m) == meter[m].status \in Mountable

ReadForInstall(w, a, m) ==
    /\ acct[a] \notin {"NONE", "CLOSED"} /\ FreeToMount(meter[m])
    /\ Begin(w, [do |-> "install", acct |-> a, as |-> acct[a], meter |-> m, seen |-> meter[m]])
Install(w) ==
    /\ work[w].do = "install"
    /\ AccountOpen(work[w]) /\ StillMountable(work[w].meter) /\ NewId \in Ids
    /\ Put(work[w].acct, work[w].meter)
    /\ meter' = [meter EXCEPT ![work[w].meter] =
                    [status |-> "INSTALLED", stocked |-> @.stocked /\ ~ work[w].seen.stocked]]
    /\ EndWork(w)
    /\ UNCHANGED <<taskVars, acct, apply, careless, handled>>

(* onboardTx: an account, and its meter from the stock or newly filed.     *)
Onboard(a, m) ==
    /\ acct[a] = "NONE" /\ NewId \in Ids
    /\ IF meter[m].status = "NONE" THEN ~ Warehoused ELSE FreeToMount(meter[m])
    /\ acct' = [acct EXCEPT ![a] = "NORMAL"]
    /\ meter' = [meter EXCEPT ![m] = [status |-> "INSTALLED", stocked |-> FALSE]]
    /\ Put(a, m)
    /\ UNCHANGED <<taskVars, apply, careless, handled, work>>

(* removeTx and replaceTx, under the lock of the account.                  *)
Removed(i) == [inst EXCEPT ![i].live = FALSE]
Remove(i) ==
    /\ i \in Live
    /\ inst' = Removed(i) /\ SetStatus(inst[i].meter, "AVAILABLE")
    /\ UNCHANGED <<acct, apply, careless, handled>>
Replace(i, m) ==
    LET a == inst[i].acct  old == inst[i].meter IN
    /\ i \in Live /\ m # old /\ acct[a] # "CLOSED" /\ NewId \in Ids
    /\ meter[old].status = "INSTALLED" /\ FreeToMount(meter[m])
    /\ meter' = [meter EXCEPT ![old].status = "AVAILABLE",
                              ![m] = [status |-> "INSTALLED", stocked |-> FALSE]]
    /\ inst' = [Removed(i) EXCEPT ![NewId] = [acct |-> a, meter |-> m, live |-> TRUE]]
    /\ UNCHANGED <<acct, apply, careless, handled>>

(* transitionTx of the account: suspendTx, resumeTx, closeTx.  That the     *)
(* account owes nothing is SettleFunds' part of the close.                 *)
NoneLeft(a, left) == left = {}
Turn(a, from, to) ==
    /\ acct[a] \in from
    /\ acct' = [acct EXCEPT ![a] = to]
Suspend(a) == Turn(a, {"NORMAL"}, "SUSPENDED")
Resume(a) == Turn(a, {"SUSPENDED"}, "NORMAL")
Close(a, left) == Turn(a, Standing, "CLOSED") /\ NoneLeft(a, left)
UnchangedMeters == UNCHANGED <<meter, inst, apply, careless, handled>>
-----------------------------------------------------------------------------
(* moveTx of the stock.  A meter already in no warehouse may be taken in   *)
(* whatever its status, and a transfer asks for nothing.                   *)
MayMove(type, seen) ==
    CASE type = "PURCHASE_IN" -> seen.status = "AVAILABLE" \/ ~ seen.stocked
      [] type = "ISSUE_OUT" -> seen.stocked /\ seen.status = "AVAILABLE"
      [] type = "RETURN_IN" -> seen.status \in {"ISSUED", "IN_TRANSIT"}
      [] type = "SCRAP_OUT" -> seen.status # "INSTALLED"
      [] type = "TRANSFER" -> TRUE
After == [PURCHASE_IN |-> [status |-> "AVAILABLE", stocked |-> TRUE],
          RETURN_IN |-> [status |-> "AVAILABLE", stocked |-> TRUE],
          TRANSFER |-> [status |-> "IN_TRANSIT", stocked |-> TRUE],
          ISSUE_OUT |-> [status |-> "ISSUED", stocked |-> FALSE],
          SCRAP_OUT |-> [status |-> "RETIRED", stocked |-> FALSE]]

Begun == handled < MaxHandlings /\ handled' = handled + 1
AskHandling(w, r) == /\ Begun /\ work[w] = Idle /\ work' = [work EXCEPT ![w] = r]
                     /\ UNCHANGED <<taskVars, acct, meter, inst, apply, careless>>
ReadForMove(w, m, type) ==
    /\ Warehoused /\ meter[m].status # "NONE" /\ MayMove(type, meter[m])
    /\ AskHandling(w, [do |-> "handle", meter |-> m, to |-> After[type]])

(* updateTx of the meter: the transitions PATCH allows.                    *)
PatchTo(st) == CASE st = "AVAILABLE" -> {"MAINTENANCE", "RETIRED"}
                 [] st = "MAINTENANCE" -> {"AVAILABLE", "RETIRED"}
                 [] OTHER -> {}
ReadForPatch(w, m, st) ==
    /\ st \in PatchTo(meter[m].status)
    /\ AskHandling(w, [do |-> "handle", meter |-> m,
                       to |-> [status |-> st, stocked |-> meter[m].stocked]])

(* Both write what they decided, whatever the meter is by then.            *)
NoteHit(m) == IF LiveOf(m) # {} THEN Hit(m) ELSE UNCHANGED careless
Handle(w) ==
    /\ work[w].do = "handle"
    /\ meter' = [meter EXCEPT ![work[w].meter] = work[w].to]
    /\ NoteHit(work[w].meter)
    /\ EndWork(w)
    /\ UNCHANGED <<taskVars, acct, inst, apply, handled>>

(* purchaseInTx, or createTx of a meter where there is no warehouse.       *)
File(m) ==
    /\ meter[m].status = "NONE"
    /\ meter' = [meter EXCEPT ![m] = [status |-> "AVAILABLE", stocked |-> Warehoused]]
    /\ UNCHANGED <<taskVars, acct, inst, apply, careless, handled, work>>
-----------------------------------------------------------------------------
(* The application: createTx, transitionTx, installMeters, archiveTx.      *)
NextStages == [SUBMITTED |-> {"SURVEYED", "REJECTED", "CANCELLED"},
               SURVEYED |-> {"APPROVED", "REJECTED", "CANCELLED"},
               APPROVED |-> {"INSTALLING", "REJECTED", "CANCELLED"},
               INSTALLING |-> {"CANCELLED"}]
UnchangedPlaces == UNCHANGED <<acct, meter, inst, careless, handled>>

Submit ==
    /\ apply.status = "SUBMITTED" /\ task[Review].status = "NONE"
    /\ SetTasks(Created(task, Review, Nobody))
    /\ UNCHANGED <<placeVars, work>>
ReadForStage(w, to) ==
    /\ apply.status \in DOMAIN NextStages /\ task[Review].status # "NONE"
    /\ to \in NextStages[apply.status]
    /\ Begin(w, [do |-> "stage", to |-> to, fills |-> FALSE])
ReadForFilling(w) ==
    /\ apply.status \in {"APPROVED", "INSTALLING"}
    /\ Begin(w, [do |-> "stage", to |-> "INSTALLING", fills |-> TRUE])
ReviewAfter(t, to) ==
    IF to \in {"REJECTED", "CANCELLED"} THEN AutoCompleted(t, {Review}) ELSE t
Stage(w) ==
    /\ work[w].do = "stage"
    /\ apply' = [apply EXCEPT !.status = work[w].to, !.filled = @ \/ work[w].fills]
    /\ SetTasks(ReviewAfter(task, work[w].to))
    /\ EndWork(w) /\ UnchangedPlaces
Archive ==
    /\ apply.home /\ apply.status # "COMPLETED"
    /\ apply' = [apply EXCEPT !.status = "COMPLETED"]
    /\ UNCHANGED <<taskVars, work>> /\ UnchangedPlaces
-----------------------------------------------------------------------------
(* allocate, deallocate, activate and completeInfo of one account.         *)
Promised == {"PENDING_ASSIGN", "PENDING_COMPLETE", "NORMAL"}
ReadForAllocate(w) ==
    /\ apply.status = "INSTALLING" /\ apply.filled
    /\ \A a \in Accounts : Activation(a) \in Jobs /\ acct[a] \in Promised
                           => task[Activation(a)].status = "NONE"
    /\ Begin(w, [do |-> "allocate"])
Allocate(w, a, s) ==
    /\ work[w].do = "allocate" /\ acct[a] = "NONE" /\ Activation(a) \in Jobs
    /\ acct' = [acct EXCEPT ![a] = "PENDING_ASSIGN"]
    /\ SetTasks(Created(task, Activation(a), s))
    /\ EndWork(w) /\ UnchangedMeters

ReadForReturn(w, a) ==
    /\ acct[a] = "PENDING_ASSIGN" /\ LiveAt(a) = {}
    /\ Begin(w, [do |-> "return", acct |-> a])
Return(w) ==
    /\ work[w].do = "return"
    /\ acct' = [acct EXCEPT ![work[w].acct] = "RETURNED"]
    /\ SetTasks(Closed(task, {Activation(work[w].acct)}, "CANCELLED"))
    /\ EndWork(w) /\ UnchangedMeters

ReadForActivate(w, a, m) ==
    /\ acct[a] = "PENDING_ASSIGN"
    /\ \A i \in LiveOf(m) : inst[i].acct = a
    /\ Begin(w, [do |-> "activate", acct |-> a, meter |-> m, mounts |-> LiveAt(a) = {}])
Activate(w) ==
    LET a == work[w].acct  m == work[w].meter  done == apply.status # "COMPLETED" IN
    /\ work[w].do = "activate" /\ (work[w].mounts => NewId \in Ids)
    /\ SetStatus(m, "INSTALLED")
    /\ IF work[w].mounts THEN Put(a, m) ELSE UNCHANGED inst
    /\ IF meter[m].status \in Mountable \cup {"NONE"} /\ work[w].mounts
       THEN UNCHANGED careless ELSE Hit(m)
    /\ acct' = [acct EXCEPT ![a] = "PENDING_COMPLETE"]
    /\ apply' = IF done THEN [apply EXCEPT !.status = "COMPLETED", !.home = TRUE] ELSE apply
    /\ SetTasks(AutoCompleted(task, {Activation(a)} \cup (IF done THEN {Review} ELSE {})))
    /\ EndWork(w) /\ UNCHANGED handled

ReadForInfo(w, a) ==
    acct[a] = "PENDING_COMPLETE" /\ Begin(w, [do |-> "info", acct |-> a])
CompleteInfo(w) ==
    /\ work[w].do = "info"
    /\ acct' = [acct EXCEPT ![work[w].acct] = "NORMAL"]
    /\ EndWork(w) /\ UNCHANGED taskVars /\ UnchangedMeters
-----------------------------------------------------------------------------
(* assertDoneStandard: an INSTALL_REVIEW is done when the application is    *)
(* over; the task of an activation has no standard.                        *)
MayComplete(j) == j = Review => apply.status \in Over

Read(w) ==
    \/ \E a \in Accounts : ReadForReturn(w, a) \/ ReadForInfo(w, a)
    \/ \E a \in Accounts, m \in Meters : ReadForInstall(w, a, m) \/ ReadForActivate(w, a, m)
    \/ \E m \in Meters, type \in DOMAIN After : ReadForMove(w, m, type)
    \/ \E m \in Meters, st \in {"AVAILABLE", "MAINTENANCE", "RETIRED"} : ReadForPatch(w, m, st)
    \/ \E to \in {"SURVEYED", "APPROVED", "INSTALLING", "REJECTED", "CANCELLED"} :
           ReadForStage(w, to)
    \/ ReadForFilling(w) \/ ReadForAllocate(w)
Commit(w) ==
    \/ Install(w) \/ Handle(w) \/ Stage(w) \/ Return(w) \/ Activate(w) \/ CompleteInfo(w)
    \/ \E a \in Accounts, s \in Staff : Allocate(w, a, s)
    \/ GiveUp(w)
AtOnce ==
    \/ \E m \in Meters : File(m) \/ \E a \in Accounts : Onboard(a, m)
    \/ \E i \in Ids : /\ Remove(i) \/ \E m \in Meters : Replace(i, m)
                      /\ UNCHANGED <<taskVars, work>>
    \/ \E a \in Accounts : /\ Suspend(a) \/ Resume(a) \/ Close(a, LiveAt(a))
                           /\ UNCHANGED <<taskVars, work>> /\ UnchangedMeters
    \/ Submit \/ Archive
DeskStepHere ==
    /\ \E j \in Jobs : DeskStep(j) \/ (MayComplete(j) /\ \E s \in Staff : Complete(j, s))
    /\ UNCHANGED <<placeVars, work>>

CustodyNext == AtOnce \/ DeskStepHere \/ \E w \in Workers : Read(w) \/ Commit(w)
CustodySpec == CustodyInit /\ [][CustodyNext]_custodyVars
=============================================================================
