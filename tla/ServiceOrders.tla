---------------------------- MODULE ServiceOrders ----------------------------
(***************************************************************************)
(* ServiceOrderService and ViolationService: an order on an account from   *)
(* its application to its archive, the tasks that go with it, and what its *)
(* execution does to the account and its meter in the same transaction.    *)
(***************************************************************************)
EXTENDS MeterCustody

CONSTANTS Orders,      \* the orders of meter_service_order
          Violations,  \* the rows of water_violation
          Kinds        \* the service types of the instance

VARIABLES order,     \* order[o]: its status, type, account and installation
          effects,   \* effects[o]: how often its execution has committed (history)
          offence    \* offence[v]: the status of the violation
orderVars == <<order, effects, offence>>

NoOrder == [status |-> "NONE", kind |-> "none", acct |-> "none", inst |-> 0, swap |-> FALSE]
Approval(o) == <<"approve", o>>
Execution(o) == <<"execute", o>>
Handling(v) == <<"violation", v>>
Cancellable == {"PENDING_APPROVAL", "APPROVED", "DISPATCHED"}
Unfinished == {"PENDING_APPROVAL", "APPROVED", "DISPATCHED", "EXECUTED"}
Handled == {"PROCESSED", "ARCHIVED", "DISMISSED"}

(* Every order has its two tasks among those of the instance.              *)
ASSUME OrdersAssumption ==
    \A o \in Orders : Approval(o) \in Jobs /\ Execution(o) \in Jobs

OrderInit == /\ order = [o \in Orders |-> NoOrder]
             /\ effects = [o \in Orders |-> 0]
             /\ offence = [v \in Violations |-> "NONE"]
-----------------------------------------------------------------------------
(* createTx: the order takes the installation it is given, or one that     *)
(* stands at the account.  The tenant may do without approval.             *)
TargetsOf(a) == IF LiveAt(a) = {} THEN {0} ELSE LiveAt(a)
Placed(o, a, kind, i, swap, approved) ==
    /\ order[o] = NoOrder
    /\ order' = [order EXCEPT ![o] = [status |-> IF approved THEN "APPROVED" ELSE "PENDING_APPROVAL",
                                      kind |-> kind, acct |-> a, inst |-> i, swap |-> swap]]
    /\ SetTasks(IF approved THEN task ELSE Created(task, Approval(o), Nobody))
    /\ UNCHANGED <<placeVars, effects, offence>>
Create(o) ==
    /\ \E a \in Accounts, kind \in Kinds, approved \in BOOLEAN :
          /\ acct[a] \notin {"NONE", "CLOSED"}
          /\ \E i \in TargetsOf(a) : Placed(o, a, kind, i, FALSE, approved)
    /\ UNCHANGED work

(* scanCheckDue: a check is due for any meter that stands and has no        *)
(* unfinished check of its own.                                             *)
CheckOf(m) == {o \in Orders : /\ order[o].kind = "CHECK" /\ order[o].inst # 0
                              /\ inst[order[o].inst].meter = m
                              /\ order[o].status \in Unfinished}
ReadForScan(w, i) ==
    /\ i \in Live /\ acct[inst[i].acct] # "CLOSED" /\ CheckOf(inst[i].meter) = {}
    /\ "CHECK" \in Kinds
    /\ Begin(w, [do |-> "scan", inst |-> i])
Scan(w, o) ==
    /\ work[w].do = "scan"
    /\ acct[inst[work[w].inst].acct] # "CLOSED"
    /\ \E approved \in BOOLEAN :
          Placed(o, inst[work[w].inst].acct, "CHECK", work[w].inst, TRUE, approved)
    /\ EndWork(w)
-----------------------------------------------------------------------------
(* transition, and the tasks each one opens and closes.                    *)
Go(o, from, to) == /\ order[o].status \in from
                   /\ order' = [order EXCEPT ![o].status = to]
                   /\ UNCHANGED <<placeVars, effects, offence, work>>
Approve(o) == /\ Go(o, {"PENDING_APPROVAL"}, "APPROVED")
              /\ SetTasks(AutoCompleted(task, {Approval(o)}))
Reject(o) == /\ Go(o, {"PENDING_APPROVAL"}, "REJECTED")
             /\ SetTasks(AutoCompleted(task, {Approval(o)}))
Dispatch(o) == /\ Go(o, {"APPROVED"}, "DISPATCHED")
               /\ SetTasks(Created(task, Execution(o), Nobody))
ArchiveOrder(o) == /\ Go(o, {"EXECUTED"}, "ARCHIVED")
                   /\ SetTasks(AutoCompleted(task, {Approval(o), Execution(o)}))
OnlyApproval(o) == {Approval(o)}    \* faulty variant: the execution is left open
TasksOf(o) == {Approval(o), Execution(o)}
CancelOrder(o) == /\ Go(o, Cancellable, "CANCELLED")
                  /\ SetTasks(AutoCompleted(task, TasksOf(o)))

(* runLinkage.  The installation is the order's, or else one named by the  *)
(* one who executes it, at whatever account it stands.                     *)
SiteOf(o) == IF order[o].inst # 0 THEN {order[o].inst} ELSE Live
Exchanged(o) == \E i \in SiteOf(o), m \in Meters : Replace(i, m)
TakenDown(o) ==
    \E i \in SiteOf(o) :
       /\ i \in Live /\ inst' = Removed(i) /\ SetStatus(inst[i].meter, "AVAILABLE")
       /\ Close(order[o].acct, LiveAt(order[o].acct) \ {i})
       /\ UNCHANGED <<apply, careless, handled>>
Linkage(o) ==
    LET kind == order[o].kind  a == order[o].acct IN
    \/ kind = "FAULT" /\ Exchanged(o)
    \/ kind = "CHECK" /\ order[o].swap /\ Exchanged(o)
    \/ kind = "CLOSE" /\ TakenDown(o)
    \/ kind = "SUSPEND" /\ Suspend(a) /\ UnchangedMeters
    \/ kind = "RESUME" /\ Resume(a) /\ UnchangedMeters
    \/ kind \in {"CHECK", "SITE"} /\ ~ order[o].swap /\ UNCHANGED placeVars

(* executeTx looks, does its work, and flips the order only while it is    *)
(* dispatched: one that lost is rolled back with all it has done.          *)
ReadForExecute(w, o) ==
    order[o].status = "DISPATCHED" /\ Begin(w, [do |-> "execute", order |-> o])
AnyStatus(o) == TRUE          \* faulty variant: the flip has no guard
StillDispatched(o) == order[o].status = "DISPATCHED"
Execute(w) ==
    LET o == work[w].order IN
    /\ work[w].do = "execute" /\ StillDispatched(o)
    /\ Linkage(o)
    /\ order' = [order EXCEPT ![o].status = "EXECUTED"]
    /\ effects' = [effects EXCEPT ![o] = @ + 1]
    /\ SetTasks(AutoCompleted(task, {Execution(o)}))
    /\ EndWork(w) /\ UNCHANGED offence
-----------------------------------------------------------------------------
(* ViolationService: createTx, verifyTx, processTx, archiveTx.  Each reads *)
(* the status and writes the next one without asking again.                *)
Report(v) ==
    /\ offence[v] = "NONE"
    /\ \E st \in {"PENDING_REVIEW", "PROCESSING"} : offence' = [offence EXCEPT ![v] = st]
    /\ SetTasks(Created(task, Handling(v), Nobody))
    /\ UNCHANGED <<placeVars, order, effects, work>>
AfterOf(st) == CASE st = "PENDING_REVIEW" -> {"PROCESSING", "DISMISSED"}
                 [] st = "PROCESSING" -> {"PROCESSED"}
                 [] st = "PROCESSED" -> {"ARCHIVED"}
                 [] OTHER -> {}
ReadForVerdict(w, v) ==
    \E st \in AfterOf(offence[v]) :
        Begin(w, [do |-> "verdict", offence |-> v, to |-> st])
Verdict(w) ==
    LET v == work[w].offence  to == work[w].to IN
    /\ work[w].do = "verdict"
    /\ offence' = [offence EXCEPT ![v] = to]
    /\ SetTasks(IF to \in {"DISMISSED", "PROCESSED"} THEN AutoCompleted(task, {Handling(v)})
                ELSE task)
    /\ EndWork(w) /\ UNCHANGED <<placeVars, order, effects>>
-----------------------------------------------------------------------------
(* assertDoneStandard for the tasks of orders and violations.              *)
NoStandard(j) == TRUE         \* faulty variant: an empty click completes the task
OrderDone(j) ==
    /\ MayComplete(j)
    /\ \A o \in Orders : j = Approval(o) => order[o].status # "PENDING_APPROVAL"
    /\ \A o \in Orders : j = Execution(o) => order[o].status \notin Cancellable
    /\ \A v \in Violations : j = Handling(v) => offence[v] \in Handled

OrderRead(w) == \/ \E o \in Orders : ReadForExecute(w, o)
                \/ \E i \in Ids : ReadForScan(w, i)
                \/ \E v \in Violations : ReadForVerdict(w, v)
OrderCommit(w) == \/ Execute(w) \/ Verdict(w) \/ \E o \in Orders : Scan(w, o)
OrderAtOnce == \/ \E o \in Orders : \/ Create(o) \/ Approve(o) \/ Reject(o) \/ Dispatch(o)
                                    \/ ArchiveOrder(o) \/ CancelOrder(o)
               \/ \E v \in Violations : Report(v)
DeskStepOfOrders ==
    /\ \E j \in Jobs : DeskStep(j) \/ (OrderDone(j) /\ \E s \in Staff : Complete(j, s))
    /\ UNCHANGED <<placeVars, orderVars, work>>

FieldInit == CustodyInit /\ OrderInit
FieldNext ==
    \/ OrderAtOnce \/ DeskStepOfOrders
    \/ AtOnce /\ UNCHANGED orderVars
    \/ \E w \in Workers : \/ OrderCommit(w)
                          \/ OrderRead(w) /\ UNCHANGED orderVars
                          \/ (Read(w) \/ Commit(w)) /\ UNCHANGED orderVars
fieldVars == <<custodyVars, orderVars>>
FieldSpec == FieldInit /\ [][FieldNext]_fieldVars
-----------------------------------------------------------------------------
FieldTypeOK ==
    /\ task \in [Jobs -> [status : OpenStatuses \cup {"NONE", "DONE", "CANCELLED"},
                          who : Staff \cup {Nobody}]]
    /\ \A j \in Jobs : task[j].status \in {"CLAIMED", "ASSIGNED"} => task[j].who # Nobody
    /\ acct \in [Accounts -> AccountStatuses]
    /\ \A m \in Meters : meter[m].status = "NONE" => ~ meter[m].stocked /\ LiveOf(m) = {}
    /\ \A i \in Live : inst[i].acct \in Accounts /\ inst[i].meter \in Meters
    /\ \A o \in Orders : order[o].status # "NONE" => order[o].kind \in Kinds
    /\ handled \in 0 .. MaxHandlings

(* An account that is closed has no meter standing, whatever is installed, *)
(* exchanged, removed or executed beside the close: each takes the lock of *)
(* the account before it looks (lockAccountForUpdateTx, transitionTx).     *)
ClosedHasNoMeter == \A a \in Accounts : acct[a] = "CLOSED" => LiveAt(a) = {}

(* The status of a meter and its installations agree, and it stands in one *)
(* place at most, unless a write that asks nothing has hit it: a stock     *)
(* movement or a patch of a standing meter, an activation of one not free. *)
(* Install, onboarding, exchange and removal among themselves keep it.     *)
MeterInOnePlace ==
    \A m \in Meters \ careless :
        Cardinality(LiveOf(m)) = IF meter[m].status = "INSTALLED" THEN 1 ELSE 0

(* What the comment in installTx rules out: "silently producing two ACTIVE *)
(* installations" of one meter.                                            *)
NeverTwoPlaces == \A m \in Meters : Cardinality(LiveOf(m)) <= 1

(* The work of an order on the account and the meter is done once when the *)
(* order says executed, and never otherwise: an execution that loses to a  *)
(* cancel or to a second execution leaves nothing behind.                  *)
DoneOnce == \A o \in Orders :
    effects[o] = IF order[o].status \in {"EXECUTED", "ARCHIVED"} THEN 1 ELSE 0

(* A task DONE means its business is done: nobody clears the approval of   *)
(* an order that waits for it, or the execution of one under way.          *)
DoneMeansDone == \A o \in Orders :
    /\ task[Approval(o)].status = "DONE" => order[o].status # "PENDING_APPROVAL"
    /\ task[Execution(o)].status = "DONE" => order[o].status \notin Cancellable
    /\ order[o].status = "DISPATCHED" => task[Execution(o)].status # "NONE"

(* No task stays in the centre for business that is over, except one that  *)
(* a reassignment decided before has opened again.                         *)
Pending(j) ==
    /\ j = Review => apply.status \notin Over
    /\ \A a \in Accounts : j = Activation(a) => acct[a] = "PENDING_ASSIGN"
    /\ \A o \in Orders : j = Approval(o) => order[o].status = "PENDING_APPROVAL"
    /\ \A o \in Orders : j = Execution(o) => order[o].status = "DISPATCHED"
    /\ \A v \in Violations : j = Handling(v) => offence[v] \notin Handled
OpenTaskIsDue == \A j \in Jobs \ revived : IsOpen(j) => Pending(j)
=============================================================================
