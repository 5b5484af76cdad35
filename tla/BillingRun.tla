----------------------------- MODULE BillingRun -----------------------------
(***************************************************************************)
(* Billing runs of one period (BillingRunService): several requests at a   *)
(* time create, post, retry and discard runs.  A request is a sequence of  *)
(* transactions, and the create request's batches are taken apart into     *)
(* their statements, because a sibling run may commit between the          *)
(* already-billed probe of a settlement and its insert.  A request may die *)
(* between any two steps.                                                  *)
(*                                                                         *)
(* billOf[s] is the one NORMAL bill of settlement s: the unique index on   *)
(* (source_id, bill_kind) admits no second one.  Status POSTED stands for  *)
(* every status a bill reaches once posted.  edits counts the changes of   *)
(* the pricing configuration: it is what the fingerprint compares.         *)
(***************************************************************************)
EXTENDS Integers, FiniteSets

CONSTANTS Runs,            \* billing_run ids
          NoRun,
          Plans,           \* tariff plans
          PlanOf,          \* the plan that prices a settlement
          NumSettlements,  \* FINAL settlements of the period, 1 .. N in order
          Monitoring,      \* those of accounts that are never billed
          Workers,         \* requests in flight at a time
          BatchSize,       \* CREATE_BATCH_SIZE
          Blockable,       \* bound: accounts with a blocking task at first
          Closable,        \* bound: accounts that may close
          MaxEdits,        \* bound: pricing changes
          MaxDiscards      \* bound: discarded runs

ASSUME RunAssumption ==
    /\ NumSettlements \in Nat \ {0}
    /\ NoRun \notin Runs
    /\ PlanOf \in [1 .. NumSettlements -> Plans]
    /\ Monitoring \subseteq 1 .. NumSettlements
    /\ Blockable \subseteq 1 .. NumSettlements
    /\ Closable \subseteq 1 .. NumSettlements
    /\ BatchSize \in Nat \ {0}
    /\ MaxEdits \in Nat
    /\ MaxDiscards \in Nat

VARIABLES run, billOf, req, priced, edits, blocked, closed, discards
vars == <<run, billOf, req, priced, edits, blocked, closed, discards>>
envVars == <<priced, edits, blocked, closed>>

Settlements == 1 .. NumSettlements

Statuses == {"NONE", "DRAFT", "PROCESSING", "PARTIAL", "POSTED", "FAILED", "GONE"}
Run  == [status : Statuses,
         gen : {"GENERATING", "READY"}, total : Int, success : Int,
         genFailed : SUBSET Settlements, postFailed : SUBSET Settlements]
Bill == [run : Runs \cup {NoRun}, status : {"NONE", "DRAFT", "POSTED"},
         price : 0 .. MaxEdits]
NoBill == [run |-> NoRun, status |-> "NONE", price |-> 0]

BilledOpen(s) == billOf[s].status = "DRAFT"   \* faulty variant of Billed
Billed(s)    == billOf[s].status # "NONE"
BillsOf(r)   == {s \in Settlements : billOf[s].run = r}
DraftsOf(r)  == {s \in BillsOf(r) : billOf[s].status = "DRAFT"}
DraftBill(r, price) == [run |-> r, status |-> "DRAFT", price |-> price]

(* A request: where it is, the run it works on, the snapshot of TX0 (ver,  *)
(* prices), and what its open transaction has written and locked.          *)
Request == [pc : {"idle", "batch", "probe", "insert", "commit", "finalize",
                  "claim", "stageA", "stageB"},
            run : Runs \cup {NoRun}, i : 1 .. NumSettlements + 1,
            ver : 0 .. MaxEdits, prices : SUBSET Settlements,
            blk : SUBSET Settlements, failed : SUBSET Settlements, skipped : Nat,
            open : SUBSET Settlements, plans : SUBSET Plans, aborted : BOOLEAN,
            todo : SUBSET Settlements, total : Int, from : SUBSET Statuses]
Idle == [pc |-> "idle", run |-> NoRun, i |-> 1, ver |-> 0, prices |-> {},
         blk |-> {}, failed |-> {}, skipped |-> 0, open |-> {}, plans |-> {},
         aborted |-> FALSE, todo |-> {}, total |-> 0, from |-> {}]

(* SELECT ... FOR UPDATE on the run row lasts to the end of the batch, on  *)
(* a plan row from the first bill of the transaction that it prices.       *)
(* Faulty variants: no lock on the run; a plan lock that blocks its owner. *)
RunUnlocked(r) == r \in Runs
PlanFreeOfAll(w, s) == \A v \in Workers : PlanOf[s] \notin req[v].plans

RunFree(r) ==
    \A v \in Workers :
        req[v].run = r => req[v].pc \notin {"probe", "insert", "commit"}
PlanFree(w, s) == \A v \in Workers \ {w} : PlanOf[s] \notin req[v].plans
Awaits(w, v)   == req[w].pc = "insert" /\ PlanOf[req[w].i] \in req[v].plans

Init ==
    /\ run = [r \in Runs |-> [status |-> "NONE", gen |-> "GENERATING", total |-> 0,
                              success |-> 0, genFailed |-> {}, postFailed |-> {}]]
    /\ billOf = [s \in Settlements |-> NoBill]
    /\ req = [w \in Workers |-> Idle]
    /\ priced \in SUBSET Settlements
    /\ edits = 0
    /\ blocked \in SUBSET Blockable
    /\ closed = {}
    /\ discards = 0
-----------------------------------------------------------------------------
(* POST /billing-runs.                                                     *)

(* TX0, claimCreateTx: the run row and the snapshot.                       *)
Create(w, r) ==
    /\ req[w].pc = "idle"
    /\ run[r].status = "NONE"
    /\ run' = [run EXCEPT ![r].status = "DRAFT"]
    /\ req' = [req EXCEPT ![w] = [Idle EXCEPT !.pc = "batch", !.run = r,
                                              !.ver = edits, !.prices = priced]]
    /\ UNCHANGED <<billOf, discards, envVars>>

(* The run must still be DRAFT and GENERATING, under its lock, and the     *)
(* pricing what it was at TX0; otherwise the request fails.                *)
Generating(r) == run[r].status = "DRAFT" /\ run[r].gen = "GENERATING"
PricingUnchanged(w) == req[w].ver = edits
StillDraft(w) == Generating(req[w].run)   \* faulty variant of StillGood
StillGood(w) == Generating(req[w].run) /\ PricingUnchanged(w)

StartBatch(w) ==
    /\ req[w].pc = "batch"
    /\ req[w].i <= NumSettlements
    /\ req' = [req EXCEPT ![w] =
                 IF StillGood(w) THEN [@ EXCEPT !.pc = "probe", !.blk = blocked] ELSE Idle]
    /\ UNCHANGED <<run, billOf, discards, envVars>>

(* On to the next settlement, or to the end of the slice.                  *)
Advance(q) ==
    [q EXCEPT !.i = @ + 1,
              !.pc = IF q.i % BatchSize = 0 \/ q.i = NumSettlements
                     THEN "commit" ELSE "probe"]

(* The checks before the insert.  Once a statement of the transaction has  *)
(* failed, the next one raises, and the request with it.                   *)
Probe(w) ==
    LET q == req[w]
        s == q.i
        next == IF s \in q.blk
                THEN Advance([q EXCEPT !.failed = @ \cup {s}])
                ELSE IF s \in Monitoring
                THEN Advance([q EXCEPT !.skipped = @ + 1])
                ELSE IF q.aborted THEN Idle
                ELSE IF Billed(s) THEN Advance(q)
                ELSE IF s \notin q.prices
                THEN Advance([q EXCEPT !.failed = @ \cup {s}])
                ELSE [q EXCEPT !.pc = "insert"]
    IN  /\ q.pc = "probe"
        /\ req' = [req EXCEPT ![w] = next]
        /\ UNCHANGED <<run, billOf, discards, envVars>>

(* lockPlanForUpdate, then the insert.  The loop takes a unique violation  *)
(* for an already-billed settlement and goes on, in a transaction that     *)
(* PostgreSQL has already aborted.                                         *)
Insert(w) ==
    LET q == req[w]
    IN  /\ q.pc = "insert"
        /\ PlanFree(w, q.i)
        /\ LET locked == [q EXCEPT !.plans = @ \cup {PlanOf[q.i]}]
           IN  req' = [req EXCEPT ![w] =
                         IF Billed(q.i)
                         THEN Advance([locked EXCEPT !.aborted = TRUE])
                         ELSE Advance([locked EXCEPT !.open = @ \cup {q.i}])]
        /\ UNCHANGED <<run, billOf, discards, envVars>>

(* Two batches may lock the plans in opposite orders; PostgreSQL ends one. *)
DeadlockVictim(w) ==
    /\ \E v \in Workers \ {w} : Awaits(w, v) /\ Awaits(v, w)
    /\ req' = [req EXCEPT ![w] = Idle]
    /\ UNCHANGED <<run, billOf, discards, envVars>>

(* COMMIT of an aborted transaction rolls back, and raises nothing.        *)
CommitBatch(w) ==
    LET q == req[w]
    IN  /\ q.pc = "commit"
        /\ billOf' = [s \in Settlements |->
                        IF s \in q.open /\ ~ q.aborted
                        THEN DraftBill(q.run, q.ver) ELSE billOf[s]]
        /\ req' = [req EXCEPT ![w] =
                     [q EXCEPT !.pc = IF q.i > NumSettlements THEN "finalize" ELSE "batch",
                               !.open = {}, !.plans = {}, !.aborted = FALSE]]
        /\ UNCHANGED <<run, discards, envVars>>

(* finalizeCreateTx: counts and failures, GENERATING to READY.             *)
FinalizeCreate(w) ==
    LET q == req[w]
        total == NumSettlements - q.skipped
        failed == Cardinality(q.failed)
        drafted == Cardinality(BillsOf(q.run))
    IN  /\ q.pc = "finalize"
        /\ run' = IF StillGood(w)
                  THEN [run EXCEPT ![q.run] =
                          [@ EXCEPT !.gen = "READY", !.total = total,
                                    !.success = total - failed - drafted,
                                    !.genFailed = q.failed]]
                  ELSE run
        /\ req' = [req EXCEPT ![w] = Idle]
        /\ UNCHANGED <<billOf, discards, envVars>>
-----------------------------------------------------------------------------
(* POST /billing-runs/:id/post and /retry: execute.                        *)

PostFrom  == {"DRAFT", "PARTIAL"}
RetryFrom == {"PARTIAL", "FAILED", "PROCESSING"}

(* A run whose generation never finalized is not postable; the faulty      *)
(* variant looks at nothing.                                               *)
PostableAlways(r) == r \in Runs
Postable(r) == run[r].gen = "READY"

(* The claim reads the run, then flips its status behind a guard; what it  *)
(* read of the failures may be older than the flip.                        *)
ReadRun(w, r, allowedFrom) ==
    /\ req[w].pc = "idle"
    /\ Postable(r)
    /\ run[r].status \in allowedFrom
    /\ req' = [req EXCEPT ![w] = [Idle EXCEPT !.pc = "claim", !.run = r,
                                              !.from = allowedFrom,
                                              !.todo = run[r].genFailed,
                                              !.total = run[r].total]]
    /\ UNCHANGED <<run, billOf, discards, envVars>>

Claim(w) ==
    LET q == req[w]
        won == run[q.run].status \in q.from
    IN  /\ q.pc = "claim"
        /\ run' = IF won THEN [run EXCEPT ![q.run].status = "PROCESSING"] ELSE run
        /\ req' = [req EXCEPT ![w] = IF won THEN [q EXCEPT !.pc = "stageA", !.from = {}]
                                     ELSE Idle]
        /\ UNCHANGED <<billOf, discards, envVars>>

(* Stage A, retryGenerate: one transaction per recorded generate failure,  *)
(* priced from the live configuration.  A lost unique race is resolved.    *)
RetryGenerate(w, s) ==
    LET q == req[w]
        done == [q EXCEPT !.todo = @ \ {s}]
    IN  /\ q.pc = "stageA"
        /\ s \in q.todo
        /\ PlanFree(w, s)
        /\ IF s \in Monitoring \/ Billed(s)
           THEN /\ req' = [req EXCEPT ![w] = done]
                /\ UNCHANGED billOf
           ELSE IF s \notin priced
           THEN /\ req' = [req EXCEPT ![w] = [done EXCEPT !.failed = @ \cup {s}]]
                /\ UNCHANGED billOf
           ELSE /\ req' = [req EXCEPT ![w] = done]
                /\ billOf' = [billOf EXCEPT ![s] = DraftBill(q.run, edits)]
        /\ UNCHANGED <<run, discards, envVars>>

ReadDrafts(w) ==
    /\ req[w].pc = "stageA"
    /\ req[w].todo = {}
    /\ req' = [req EXCEPT ![w].pc = "stageB", ![w].todo = DraftsOf(req[w].run)]
    /\ UNCHANGED <<run, billOf, discards, envVars>>

(* Stage B, postOneBill: a CLOSED account keeps the bill a DRAFT; the flip *)
(* is guarded, and a bill that is posted already is no failure.            *)
PostOneBill(w, s) ==
    /\ req[w].pc = "stageB"
    /\ s \in req[w].todo
    /\ PlanFree(w, s)
    /\ req' = [req EXCEPT ![w].todo = @ \ {s}]
    /\ billOf' = IF s \notin closed /\ billOf[s].status = "DRAFT"
                 THEN [billOf EXCEPT ![s].status = "POSTED"] ELSE billOf
    /\ UNCHANGED <<run, discards, envVars>>

(* Faulty variant of Outcome: some success is enough.                      *)
OutcomeOptimistic(failed, success) ==
    IF failed = 0 \/ success > 0 THEN "POSTED" ELSE "FAILED"

Outcome(failed, success) ==
    IF failed = 0 THEN "POSTED" ELSE IF success = 0 THEN "FAILED" ELSE "PARTIAL"

(* The last transaction writes the run with no guard on its status.        *)
FinalizePost(w) ==
    LET q == req[w]
        failed == Cardinality(q.failed) + Cardinality(DraftsOf(q.run))
    IN  /\ q.pc = "stageB"
        /\ q.todo = {}
        /\ run' = [run EXCEPT ![q.run] =
                     [@ EXCEPT !.status = Outcome(failed, q.total - failed),
                               !.success = q.total - failed,
                               !.genFailed = q.failed,
                               !.postFailed = DraftsOf(q.run)]]
        /\ req' = [req EXCEPT ![w] = Idle]
        /\ UNCHANGED <<billOf, discards, envVars>>
-----------------------------------------------------------------------------
(* discardTx: a DRAFT run and its DRAFT bills, in one transaction.         *)
Discard(r) ==
    /\ discards < MaxDiscards
    /\ RunFree(r)
    /\ run[r].status = "DRAFT"
    /\ run' = [run EXCEPT ![r].status = "GONE"]
    /\ billOf' = [s \in Settlements |-> IF s \in DraftsOf(r) THEN NoBill ELSE billOf[s]]
    /\ discards' = discards + 1
    /\ UNCHANGED <<req, envVars>>

(* The process dies, or the interactive transaction times out.             *)
Crash(w) ==
    /\ req[w].pc # "idle"
    /\ req' = [req EXCEPT ![w] = Idle]
    /\ UNCHANGED <<run, billOf, discards, envVars>>

(* Meanwhile: a tariff covers a settlement or stops to, a blocking task is *)
(* completed, an account closes (a DRAFT bill only prevents that when no   *)
(* credit of the settle account offsets it).                               *)
EditPricing(s) ==
    /\ edits < MaxEdits
    /\ edits' = edits + 1
    /\ priced' = IF s \in priced THEN priced \ {s} ELSE priced \cup {s}
    /\ UNCHANGED <<run, billOf, req, discards, blocked, closed>>

CompleteTask(s) ==
    /\ s \in blocked
    /\ blocked' = blocked \ {s}
    /\ UNCHANGED <<run, billOf, req, discards, priced, edits, closed>>

CloseAccount(s) ==
    /\ s \in Closable \ closed
    /\ closed' = closed \cup {s}
    /\ UNCHANGED <<run, billOf, req, discards, priced, edits, blocked>>

RequestStep(w) ==
    \/ StartBatch(w) \/ Probe(w) \/ Insert(w) \/ DeadlockVictim(w)
    \/ CommitBatch(w) \/ FinalizeCreate(w)
    \/ Claim(w) \/ ReadDrafts(w) \/ FinalizePost(w)
    \/ \E s \in Settlements : RetryGenerate(w, s) \/ PostOneBill(w, s)

Next ==
    \/ \E w \in Workers :
         \/ RequestStep(w)
         \/ Crash(w)
         \/ \E r \in Runs : Create(w, r) \/ ReadRun(w, r, PostFrom) \/ ReadRun(w, r, RetryFrom)
    \/ \E r \in Runs : Discard(r)
    \/ \E s \in Settlements : EditPricing(s) \/ CompleteTask(s) \/ CloseAccount(s)

Spec == Init /\ [][Next]_vars

(* A request that is not dead goes on: the event loop runs every handler.  *)
FairSpec == Spec /\ \A w \in Workers : WF_vars(RequestStep(w))
-----------------------------------------------------------------------------
(* Type invariant.                                                         *)
TypeOK ==
    /\ run \in [Runs -> Run]
    /\ billOf \in [Settlements -> Bill]
    /\ req \in [Workers -> Request]
    /\ priced \in SUBSET Settlements
    /\ edits \in 0 .. MaxEdits
    /\ blocked \in SUBSET Settlements
    /\ closed \in SUBSET Settlements
    /\ discards \in 0 .. MaxDiscards

(* No bill survives its run or appears after it: the discard and the       *)
(* batches of a create still in flight cannot miss each other (discardTx). *)
NoOrphanBill ==
    \A s \in Settlements :
        Billed(s) => run[billOf[s].run].status \notin {"NONE", "GONE"}

(* "A POSTED bill can never exist in a DRAFT run", which is what lets the  *)
(* discard delete the run; nor in a run whose generation did not finish.   *)
PostedOnlyOnceClaimed ==
    \A s \in Settlements :
        billOf[s].status = "POSTED"
            => LET r == run[billOf[s].run]
               IN  r.gen = "READY" /\ r.status \notin {"NONE", "DRAFT", "GONE"}

(* A run that says POSTED left no bill of its own unposted, whichever of   *)
(* the requests that executed it wrote the status (execute, finalize).     *)
(* The service accepts that a discard breaks this: it takes away bills     *)
(* that another run counts as its own successes.                           *)
PostedRunIsComplete ==
    discards = 0 => \A r \in Runs : run[r].status = "POSTED" => DraftsOf(r) = {}

(* "A run never mixes two pricing inputs": the moment generation is        *)
(* declared READY, every bill of the run is priced as the configuration    *)
(* stands then.                                                            *)
ReadyAtCurrentPricing ==
    [][\A r \in Runs :
         run[r].gen = "GENERATING" /\ run'[r].gen = "READY"
             => \A s \in BillsOf(r) : billOf[s].price = edits]_vars

(* Every request ends, deadlocks on plan rows included.                    *)
RequestsEnd ==
    \A w \in Workers : req[w].pc # "idle" ~> req[w].pc = "idle"

(* "Already-billed settlements are successes: their bills exist": a READY  *)
(* run accounts for every settlement, by a bill or by a failure record.    *)
EverySettlementAccounted ==
    \A r \in Runs :
        run[r].gen = "READY" /\ run[r].status # "GONE"
            => \A s \in Settlements \ Monitoring :
                 Billed(s) \/ s \in run[r].genFailed

(* However runs are created, executed and discarded beside one another, no *)
(* request overwrites or takes away a bill that another has issued, nor    *)
(* prices one again: the runs implement BillLife too.                      *)
StageOf(status) == IF status = "POSTED" THEN "STANDING" ELSE status
Life == INSTANCE BillLife WITH Bills <- Settlements,
                               life <- [s \in Settlements |-> StageOf(billOf[s].status)],
                               charge <- [s \in Settlements |-> billOf[s].price]
RunsKeepBillLife == Life!LifeSpec
=============================================================================
