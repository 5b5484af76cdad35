-------------------------- MODULE BillingRunProofs --------------------------
(***************************************************************************)
(* Billing runs for any number of runs, settlements, plans and requests:   *)
(* types, no bill without its run, no posted bill in a run that may still  *)
(* be discarded, no DRAFT bill in a POSTED run, one price list per run.    *)
(*                                                                         *)
(* The invariant says what each request may rely on between its            *)
(* transactions (Good), and what two of them exclude (Apart).              *)
(***************************************************************************)
EXTENDS BillingRun, FiniteSetTheorems, TLAPS

Creates(q)   == q.pc \in {"batch", "probe", "insert", "commit", "finalize"}
InSlice(q)   == q.pc \in {"probe", "insert", "commit"}
Executes(q)  == q.pc \in {"claim", "stageA", "stageB"}
HasClaim(q)  == q.pc \in {"stageA", "stageB"}
Claimed(r)   == run[r].status \in {"PROCESSING", "PARTIAL", "POSTED", "FAILED"}
Resolved     == Monitoring \cup {s \in Settlements : Billed(s)}
Unresolved(q) == IF q.pc = "stageB" THEN q.failed ELSE q.failed \cup q.todo

(* What holds of a request as long as it has not taken its next step.      *)
Good(q) ==
    /\ q.pc # "idle" => q.run \in Runs
    /\ q.pc \in {"probe", "insert"} => q.i \in Settlements
    /\ Creates(q) => /\ run[q.run].gen = "GENERATING" /\ run[q.run].status # "NONE"
                     /\ \A s \in BillsOf(q.run) : billOf[s].price = q.ver
    /\ InSlice(q) => run[q.run].status = "DRAFT"
    /\ ~ InSlice(q) => q.open = {} /\ q.plans = {}
    /\ \A s \in q.open : PlanOf[s] \in q.plans /\ ~ Billed(s)
    /\ Executes(q) => run[q.run].gen = "READY"
    /\ HasClaim(q) => Claimed(q.run)
    /\ q.pc = "stageB" => \A s \in q.todo : billOf[s].run = q.run
    /\ discards = 0 /\ Executes(q)
          => Unresolved(q) \ Resolved = run[q.run].genFailed \ Resolved
RequestsInv == \A w \in Workers, q \in Request : req[w] = q => Good(q)

(* A run has one create request, and an open transaction owns its plans.   *)
Apart == \A v, w \in Workers : v # w =>
    /\ Creates(req[v]) /\ Creates(req[w]) => req[v].run # req[w].run
    /\ req[v].plans \cap req[w].plans = {}

BillsInv == \A s \in Settlements :
    /\ Billed(s) => /\ billOf[s].run \in Runs
                    /\ run[billOf[s].run].status \notin {"NONE", "GONE"}
    /\ ~ Billed(s) => billOf[s].run = NoRun
    /\ billOf[s].status = "POSTED" => Claimed(billOf[s].run)
RunsInv == \A r \in Runs :
    /\ Claimed(r) => run[r].gen = "READY"
    /\ run[r].status = "NONE" => run[r].gen = "GENERATING"
    /\ discards = 0 /\ run[r].status = "POSTED"
          => DraftsOf(r) = {} /\ run[r].genFailed \subseteq Resolved

BillingInv == TypeOK /\ RequestsInv /\ Apart /\ BillsInv /\ RunsInv

LEMMA IdleRequest == Idle \in Request /\ Good(Idle) /\ ~ Creates(Idle) /\ Idle.plans = {}
<1>1. 1 \in 1 .. NumSettlements + 1 /\ 0 \in 0 .. MaxEdits
  BY RunAssumption
<1> QED
  BY <1>1 DEF Idle, Request, Good, Creates, InSlice, Executes, HasClaim

(* A step that changes the request of w and nothing another one looks at.  *)
LEMMA RequestMoves ==
    ASSUME BillingInv, NEW w \in Workers, NEW q \in Request, Good(q),
           Creates(q) => Creates(req[w]) /\ q.run = req[w].run,
           \A v \in Workers \ {w} : q.plans \cap req[v].plans = {},
           req' = [req EXCEPT ![w] = q], UNCHANGED <<run, billOf, discards, envVars>>
    PROVE  BillingInv'
<1>1. /\ req' \in [Workers -> Request] /\ req'[w] = q
      /\ \A v \in Workers \ {w} : req'[v] = req[v]
  BY DEF BillingInv, TypeOK
<1>2. TypeOK'
  BY <1>1 DEF BillingInv, TypeOK, envVars
<1>3. \A p \in Request : Good(p) => Good(p)'
  BY DEF Good, BillsOf, Billed, Claimed, Resolved
<1>4. RequestsInv'
  <2> SUFFICES ASSUME NEW v \in Workers, NEW p \in Request, req'[v] = p PROVE Good(p)'
    BY DEF RequestsInv
  <2> QED
    BY <1>1, <1>3 DEF BillingInv, RequestsInv
<1>5. Apart'
  <2> SUFFICES ASSUME NEW u \in Workers, NEW v \in Workers, u # v
               PROVE  /\ Creates(req'[u]) /\ Creates(req'[v]) => req'[u].run # req'[v].run
                      /\ req'[u].plans \cap req'[v].plans = {}
    BY DEF Apart, Creates
  <2>1. CASE u = w
    BY <1>1, <2>1 DEF BillingInv, Apart
  <2>2. CASE v = w
    BY <1>1, <2>2 DEF BillingInv, Apart
  <2>3. CASE u # w /\ v # w
    BY <1>1, <2>3 DEF BillingInv, Apart
  <2> QED
    BY <2>1, <2>2, <2>3
<1>6. BillsInv' /\ RunsInv'
  BY DEF BillingInv, BillsInv, RunsInv, Billed, BillsOf, DraftsOf, Claimed, Resolved
<1> QED
  BY <1>2, <1>4, <1>5, <1>6 DEF BillingInv

LEMMA RequestGivesUp ==
    ASSUME BillingInv, NEW w \in Workers, req' = [req EXCEPT ![w] = Idle],
           UNCHANGED <<run, billOf, discards, envVars>>
    PROVE  BillingInv'
  BY IdleRequest, RequestMoves
-----------------------------------------------------------------------------
(* The steps of a create request.                                          *)
LEMMA RequestIsGood ==
    ASSUME BillingInv, NEW w \in Workers
    PROVE  \E q \in Request : q = req[w] /\ Good(q)
  BY DEF BillingInv, TypeOK, RequestsInv

LEMMA StartBatchKeeps ==
    ASSUME BillingInv, NEW w \in Workers, StartBatch(w)
    PROVE  BillingInv'
<1>1. PICK q \in Request : q = req[w] /\ Good(q)
  BY RequestIsGood
<1>2. CASE StillGood(w)
  <2>1. PICK p : p = [q EXCEPT !.pc = "probe", !.blk = blocked]
    OBVIOUS
  <2>2. /\ p \in Request /\ p.pc = "probe" /\ p.run = q.run /\ p.i = q.i /\ p.ver = q.ver
        /\ p.open = q.open /\ p.plans = q.plans
    BY <2>1 DEF Request, BillingInv, TypeOK
  <2>3. q.pc = "batch" /\ q.i \in Settlements /\ run[q.run].status = "DRAFT"
    BY <1>1, <1>2, RunAssumption
       DEF StartBatch, StillGood, Generating, Request, Settlements
  <2>4. Good(p) /\ Creates(q) /\ p.plans = {}
    BY <1>1, <2>2, <2>3 DEF Good, Creates, InSlice, Executes, HasClaim
  <2>5. req' = [req EXCEPT ![w] = p]
    BY <1>1, <1>2, <2>1 DEF StartBatch, BillingInv, TypeOK
  <2> QED
    BY <1>1, <2>2, <2>4, <2>5, RequestMoves DEF StartBatch
<1>3. CASE ~ StillGood(w)
  <2>1. req' = [req EXCEPT ![w] = Idle]
    BY <1>3 DEF StartBatch
  <2> QED
    BY <2>1, RequestGivesUp DEF StartBatch
<1> QED
  BY <1>2, <1>3

(* What Advance leaves alone.                                              *)
LEMMA Advanced ==
    ASSUME NEW q \in Request, q.i \in Settlements
    PROVE  \E p \in Request :
             /\ p = Advance(q)
             /\ p.pc \in {"commit", "probe"} /\ (p.pc = "probe" => p.i \in Settlements)
             /\ p.run = q.run /\ p.ver = q.ver /\ p.open = q.open /\ p.plans = q.plans
<1>1. PICK pc : pc = IF q.i % BatchSize = 0 \/ q.i = NumSettlements THEN "commit" ELSE "probe"
  OBVIOUS
<1>2. pc \in {"commit", "probe"} /\ (pc = "probe" => q.i # NumSettlements)
  BY <1>1
<1>3. q.i + 1 \in 1 .. NumSettlements + 1 /\ (pc = "probe" => q.i + 1 \in Settlements)
  BY <1>2, RunAssumption DEF Settlements
<1>4. PICK p : p = [q EXCEPT !.i = q.i + 1, !.pc = pc]
  OBVIOUS
<1>5. /\ p \in Request /\ p.pc = pc /\ p.i = q.i + 1
      /\ p.run = q.run /\ p.ver = q.ver /\ p.open = q.open /\ p.plans = q.plans
  BY <1>2, <1>3, <1>4 DEF Request
<1>6. p = Advance(q)
  BY <1>1, <1>4 DEF Advance, Request
<1> QED
  BY <1>2, <1>3, <1>5, <1>6

(* A slice goes on with another settlement.                                *)
LEMMA SliceGoesOn ==
    ASSUME BillingInv, NEW w \in Workers, NEW q \in Request, NEW p \in Request,
           req[w] = q, InSlice(q), InSlice(p), p.run = q.run, p.ver = q.ver,
           p.pc \in {"probe", "insert"} => p.i \in Settlements,
           \A s \in p.open : s \in q.open \/ (PlanOf[s] \in p.plans /\ ~ Billed(s)),
           q.plans \subseteq p.plans,
           \A v \in Workers \ {w} : p.plans \cap req[v].plans = {},
           req' = [req EXCEPT ![w] = p], UNCHANGED <<run, billOf, discards, envVars>>
    PROVE  BillingInv'
<1>1. Good(q)
  BY DEF BillingInv, RequestsInv
<1>2. Good(p) /\ Creates(q)
  BY <1>1 DEF Good, Creates, InSlice, Executes, HasClaim
<1> QED
  BY <1>2, RequestMoves

LEMMA ProbeKeeps ==
    ASSUME BillingInv, NEW w \in Workers, Probe(w)
    PROVE  BillingInv'
<1>1. PICK q \in Request : q = req[w] /\ Good(q)
  BY RequestIsGood
<1>2. q.pc = "probe" /\ q.i \in Settlements /\ InSlice(q)
  BY <1>1 DEF Probe, Good, InSlice
<1>3. \A v \in Workers \ {w} : q.plans \cap req[v].plans = {}
  BY <1>1 DEF BillingInv, Apart
<1>4. ASSUME NEW a \in Request, a.i = q.i, a.run = q.run, a.ver = q.ver, a.open = q.open,
             a.plans = q.plans, req' = [req EXCEPT ![w] = Advance(a)]
      PROVE  BillingInv'
  <2>1. PICK p \in Request :
            /\ p = Advance(a)
            /\ p.pc \in {"commit", "probe"} /\ (p.pc = "probe" => p.i \in Settlements)
            /\ p.run = a.run /\ p.ver = a.ver /\ p.open = a.open /\ p.plans = a.plans
    BY <1>2, <1>4, Advanced
  <2>2. InSlice(p) /\ req' = [req EXCEPT ![w] = p] /\ p.run = q.run /\ p.ver = q.ver
    BY <1>4, <2>1 DEF InSlice
  <2>3. /\ p.pc \in {"probe", "insert"} => p.i \in Settlements
        /\ \A s \in p.open : s \in q.open
        /\ q.plans \subseteq p.plans
        /\ \A v \in Workers \ {w} : p.plans \cap req[v].plans = {}
    BY <1>3, <1>4, <2>1
  <2>4. UNCHANGED <<run, billOf, discards, envVars>>
    BY DEF Probe
  <2> QED
    BY <1>1, <1>2, <2>2, <2>3, <2>4, SliceGoesOn
<1>5. CASE req' = [req EXCEPT ![w] = Advance([q EXCEPT !.failed = @ \cup {q.i}])]
  <2>1. PICK a : a = [q EXCEPT !.failed = @ \cup {q.i}]
    OBVIOUS
  <2>2. /\ a \in Request /\ a.i = q.i /\ a.run = q.run /\ a.ver = q.ver
        /\ a.open = q.open /\ a.plans = q.plans
    BY <1>2, <2>1 DEF Request
  <2> QED
    BY <1>4, <1>5, <2>1, <2>2
<1>6. CASE req' = [req EXCEPT ![w] = Advance([q EXCEPT !.skipped = @ + 1])]
  <2>1. PICK a : a = [q EXCEPT !.skipped = @ + 1]
    OBVIOUS
  <2>2. /\ a \in Request /\ a.i = q.i /\ a.run = q.run /\ a.ver = q.ver
        /\ a.open = q.open /\ a.plans = q.plans
    BY <2>1 DEF Request
  <2> QED
    BY <1>4, <1>6, <2>1, <2>2
<1>7. CASE req' = [req EXCEPT ![w] = Idle]
  BY <1>7, RequestGivesUp DEF Probe
<1>8. CASE req' = [req EXCEPT ![w] = Advance(q)]
  BY <1>4, <1>8
<1>9. CASE req' = [req EXCEPT ![w] = [q EXCEPT !.pc = "insert"]]
  <2>1. PICK p : p = [q EXCEPT !.pc = "insert"]
    OBVIOUS
  <2>2. /\ p \in Request /\ p.i = q.i /\ p.run = q.run /\ p.ver = q.ver
        /\ p.open = q.open /\ p.plans = q.plans /\ InSlice(p)
    BY <2>1 DEF Request, InSlice
  <2> QED
    <3>1. /\ \A s \in p.open : s \in q.open
          /\ q.plans \subseteq p.plans
          /\ \A v \in Workers \ {w} : p.plans \cap req[v].plans = {}
          /\ p.i \in Settlements
      BY <1>2, <1>3, <2>2
    <3>2. UNCHANGED <<run, billOf, discards, envVars>>
      BY DEF Probe
    <3> QED
      BY <1>1, <1>2, <1>9, <2>1, <2>2, <3>1, <3>2, SliceGoesOn
<1> QED
  BY <1>1, <1>5, <1>6, <1>7, <1>8, <1>9 DEF Probe

LEMMA InsertKeeps ==
    ASSUME BillingInv, NEW w \in Workers, Insert(w)
    PROVE  BillingInv'
<1>1. PICK q \in Request : q = req[w] /\ Good(q)
  BY RequestIsGood
<1>2. q.pc = "insert" /\ q.i \in Settlements /\ InSlice(q)
  BY <1>1 DEF Insert, Good, InSlice
<1>3. PlanOf[q.i] \in Plans
  BY <1>2, RunAssumption DEF Settlements
<1>4. \A v \in Workers \ {w} : (q.plans \cup {PlanOf[q.i]}) \cap req[v].plans = {}
  BY <1>1 DEF BillingInv, Apart, Insert, PlanFree
<1>5. ASSUME NEW a \in Request, a.i = q.i, a.run = q.run, a.ver = q.ver,
             a.plans = q.plans \cup {PlanOf[q.i]},
             a.open = q.open \/ (a.open = q.open \cup {q.i} /\ ~ Billed(q.i)),
             req' = [req EXCEPT ![w] = Advance(a)]
      PROVE  BillingInv'
  <2>1. PICK p \in Request :
            /\ p = Advance(a)
            /\ p.pc \in {"commit", "probe"} /\ (p.pc = "probe" => p.i \in Settlements)
            /\ p.run = a.run /\ p.ver = a.ver /\ p.open = a.open /\ p.plans = a.plans
    BY <1>2, <1>5, Advanced
  <2>2. UNCHANGED <<run, billOf, discards, envVars>>
    BY DEF Insert
  <2>3. /\ InSlice(p) /\ req' = [req EXCEPT ![w] = p] /\ p.run = q.run /\ p.ver = q.ver
        /\ p.pc \in {"probe", "insert"} => p.i \in Settlements
    BY <1>5, <2>1 DEF InSlice
  <2>4. /\ \A s \in p.open : s \in q.open \/ (PlanOf[s] \in p.plans /\ ~ Billed(s))
        /\ q.plans \subseteq p.plans
        /\ \A v \in Workers \ {w} : p.plans \cap req[v].plans = {}
    BY <1>4, <1>5, <2>1
  <2> QED
    BY <1>1, <1>2, <2>2, <2>3, <2>4, SliceGoesOn
<1>6. PICK l : l = [q EXCEPT !.plans = @ \cup {PlanOf[q.i]}]
  OBVIOUS
<1>7. /\ l \in Request /\ l.i = q.i /\ l.run = q.run /\ l.ver = q.ver
      /\ l.plans = q.plans \cup {PlanOf[q.i]} /\ l.open = q.open
  BY <1>3, <1>6 DEF Request
<1>8. CASE Billed(q.i)
  <2>1. PICK a : a = [l EXCEPT !.aborted = TRUE]
    OBVIOUS
  <2>2. /\ a \in Request /\ a.i = q.i /\ a.run = q.run /\ a.ver = q.ver
        /\ a.plans = l.plans /\ a.open = q.open
    BY <1>7, <2>1 DEF Request
  <2> QED
    BY <1>1, <1>5, <1>6, <1>7, <1>8, <2>1, <2>2 DEF Insert
<1>9. CASE ~ Billed(q.i)
  <2>1. PICK a : a = [l EXCEPT !.open = @ \cup {q.i}]
    OBVIOUS
  <2>2. /\ a \in Request /\ a.i = q.i /\ a.run = q.run /\ a.ver = q.ver
        /\ a.plans = l.plans /\ a.open = q.open \cup {q.i}
    BY <1>2, <1>7, <2>1 DEF Request
  <2> QED
    BY <1>1, <1>5, <1>6, <1>7, <1>9, <2>1, <2>2 DEF Insert
<1> QED
  BY <1>8, <1>9

(* A step of w that changes the run or the bills: what the others rely on  *)
(* is shown request by request.                                            *)
LEMMA StepAssembled ==
    ASSUME BillingInv, NEW w \in Workers, NEW p \in Request,
           req' = [req EXCEPT ![w] = p],
           \A v \in Workers \ {w} :
              /\ Creates(p) /\ Creates(req[v]) => p.run # req[v].run
              /\ p.plans \cap req[v].plans = {},
           \A v \in Workers \ {w}, q \in Request : req[v] = q /\ Good(q) => Good(q)',
           Good(p)', run' \in [Runs -> Run], billOf' \in [Settlements -> Bill],
           UNCHANGED <<discards, envVars>>, BillsInv', RunsInv'
    PROVE  BillingInv'
<1>1. /\ req' \in [Workers -> Request] /\ req'[w] = p
      /\ \A v \in Workers \ {w} : req'[v] = req[v]
  BY DEF BillingInv, TypeOK
<1>2. TypeOK'
  BY <1>1 DEF BillingInv, TypeOK, envVars
<1>3. RequestsInv'
  <2> SUFFICES ASSUME NEW v \in Workers, NEW q \in Request, req'[v] = q PROVE Good(q)'
    BY DEF RequestsInv
  <2>1. CASE v = w
    BY <1>1, <2>1
  <2>2. CASE v # w
    <3>1. req[v] = q /\ Good(q)
      BY <1>1, <2>2 DEF BillingInv, RequestsInv
    <3> QED
      BY <2>2, <3>1
  <2> QED
    BY <2>1, <2>2
<1>4. Apart'
  <2> SUFFICES ASSUME NEW u \in Workers, NEW v \in Workers, u # v
               PROVE  /\ Creates(req'[u]) /\ Creates(req'[v]) => req'[u].run # req'[v].run
                      /\ req'[u].plans \cap req'[v].plans = {}
    BY DEF Apart, Creates
  <2>1. CASE u = w
    BY <1>1, <2>1
  <2>2. CASE v = w
    BY <1>1, <2>2
  <2>3. CASE u # w /\ v # w
    BY <1>1, <2>3 DEF BillingInv, Apart
  <2> QED
    BY <2>1, <2>2, <2>3
<1> QED
  BY <1>2, <1>3, <1>4 DEF BillingInv

(* TX0: a run nobody has seen.                                             *)
LEMMA CreateKeeps ==
    ASSUME BillingInv, NEW w \in Workers, NEW r \in Runs, Create(w, r)
    PROVE  BillingInv'
<1>1. /\ run[r].status = "NONE" /\ run[r].gen = "GENERATING"
      /\ run' = [run EXCEPT ![r].status = "DRAFT"]
      /\ UNCHANGED <<billOf, discards, envVars>>
  BY DEF Create, BillingInv, RunsInv
<1>2. PICK p : p = [Idle EXCEPT !.pc = "batch", !.run = r, !.ver = edits, !.prices = priced]
  OBVIOUS
<1>3. /\ p \in Request /\ p.pc = "batch" /\ p.run = r /\ p.open = {} /\ p.plans = {}
      /\ req' = [req EXCEPT ![w] = p]
  <2>1. Idle \in Request /\ edits \in 0 .. MaxEdits /\ priced \in SUBSET Settlements
    BY IdleRequest DEF BillingInv, TypeOK
  <2>2. Idle.open = {} /\ Idle.plans = {}
    BY DEF Idle
  <2> QED
    BY <1>2, <2>1, <2>2 DEF Request, Create
<1>4. /\ run' \in [Runs -> Run] /\ run'[r].status = "DRAFT" /\ run'[r].gen = "GENERATING"
      /\ \A x \in Runs \ {r} : run'[x] = run[x]
  BY <1>1 DEF BillingInv, TypeOK, Run, Statuses
<1>5. /\ \A s \in Settlements : billOf[s].run # r
      /\ \A x \in Runs : BillsOf(x)' = BillsOf(x) /\ DraftsOf(x)' = DraftsOf(x)
      /\ \A s \in Settlements : Billed(s)' = Billed(s)
      /\ Resolved' = Resolved
  <2>1. \A s \in Settlements : billOf[s].run # r
    BY <1>1, RunAssumption DEF BillingInv, BillsInv
  <2> QED
    BY <1>1, <2>1 DEF BillsOf, DraftsOf, Billed, Resolved
<1>6. \A q \in Request : Good(q) => Good(q)' /\ (Creates(q) => q.run # r)
  <2> SUFFICES ASSUME NEW q \in Request, Good(q)
               PROVE  Good(q)' /\ (Creates(q) => q.run # r)
    OBVIOUS
  <2>1. q.pc # "idle" => q.run \in Runs
    BY DEF Good
  <2>2. Creates(q) \/ InSlice(q) \/ Executes(q) \/ HasClaim(q) => q.pc # "idle" /\ q.run # r
    BY <1>1 DEF Good, Creates, InSlice, Executes, HasClaim
  <2>3. q.run \in Runs \ {r} => run'[q.run] = run[q.run] /\ (Claimed(q.run)' <=> Claimed(q.run))
    BY <1>4 DEF Claimed
  <2>4. \A s \in q.open : s \in Settlements
    BY DEF Request
  <2>5. \A s \in q.open : ~ Billed(s)'
    BY <1>5, <2>4 DEF Good
  <2> QED
    BY <1>1, <1>5, <2>1, <2>2, <2>3, <2>5 DEF Good
<1>7. Good(p)'
  BY <1>3, <1>4, <1>5 DEF Good, Creates, InSlice, Executes, HasClaim, BillsOf
<1>8. BillsInv'
  BY <1>1, <1>4, <1>5 DEF BillingInv, BillsInv, Claimed, Billed
<1>9. RunsInv'
  <2> SUFFICES ASSUME NEW x \in Runs
               PROVE  /\ Claimed(x)' => run'[x].gen = "READY"
                      /\ run'[x].status = "NONE" => run'[x].gen = "GENERATING"
                      /\ discards' = 0 /\ run'[x].status = "POSTED"
                            => DraftsOf(x)' = {} /\ run'[x].genFailed \subseteq Resolved'
    BY DEF RunsInv
  <2>1. CASE x = r
    BY <1>4, <2>1 DEF Claimed
  <2>2. CASE x # r
    BY <1>1, <1>4, <1>5, <2>2 DEF BillingInv, RunsInv, Claimed
  <2> QED
    BY <2>1, <2>2
<1>10. \A v \in Workers \ {w} :
          /\ Creates(p) /\ Creates(req[v]) => p.run # req[v].run
          /\ p.plans \cap req[v].plans = {}
  <2> SUFFICES ASSUME NEW v \in Workers \ {w}, Creates(req[v]) PROVE req[v].run # r
    BY <1>3
  <2>1. PICK q \in Request : q = req[v] /\ Good(q)
    BY RequestIsGood
  <2> QED
    BY <1>6, <2>1
<1> QED
  BY <1>1, <1>3, <1>4, <1>6, <1>7, <1>8, <1>9, <1>10, StepAssembled
     DEF BillingInv, TypeOK

(* The bills of the open slice appear at once.  Nobody else could bill     *)
(* their settlements meanwhile: their plans are locked.                    *)
LEMMA CommitBatchKeeps ==
    ASSUME BillingInv, NEW w \in Workers, CommitBatch(w)
    PROVE  BillingInv'
<1>1. PICK q \in Request : q = req[w] /\ Good(q)
  BY RequestIsGood
<1>2. /\ q.pc = "commit" /\ q.run \in Runs /\ run[q.run].status = "DRAFT"
      /\ UNCHANGED <<run, discards, envVars>>
  BY <1>1 DEF CommitBatch, Good, InSlice
<1>3. PICK p : p = [q EXCEPT !.pc = IF q.i > NumSettlements THEN "finalize" ELSE "batch",
                             !.open = {}, !.plans = {}, !.aborted = FALSE]
  OBVIOUS
<1>4. /\ p \in Request /\ p.pc \in {"finalize", "batch"} /\ p.run = q.run /\ p.ver = q.ver
      /\ p.open = {} /\ p.plans = {} /\ req' = [req EXCEPT ![w] = p]
  BY ZenonT(60), <1>1, <1>3 DEF Request, CommitBatch
<1>5. PICK New : New = IF q.aborted THEN {} ELSE q.open
  OBVIOUS
<1>6. /\ New \subseteq Settlements
      /\ \A s \in New : PlanOf[s] \in q.plans /\ ~ Billed(s)
      /\ billOf' = [s \in Settlements |->
                      IF s \in New THEN DraftBill(q.run, q.ver) ELSE billOf[s]]
  <2>1. New \subseteq q.open /\ q.open \subseteq Settlements /\ q.aborted \in BOOLEAN
    BY <1>5 DEF Request
  <2>2. \A s \in Settlements : s \in New <=> s \in q.open /\ ~ q.aborted
    BY <1>5, <2>1
  <2> QED
    BY <1>1, <2>1, <2>2 DEF Good, CommitBatch
<1>7. DraftBill(q.run, q.ver) \in Bill /\ DraftBill(q.run, q.ver).status = "DRAFT"
      /\ DraftBill(q.run, q.ver).run = q.run /\ DraftBill(q.run, q.ver).price = q.ver
  BY <1>2 DEF DraftBill, Bill, Request
<1>8. /\ billOf' \in [Settlements -> Bill]
      /\ \A s \in New : billOf'[s] = DraftBill(q.run, q.ver) /\ billOf[s].run = NoRun
      /\ \A s \in Settlements \ New : billOf'[s] = billOf[s]
  BY <1>6, <1>7 DEF BillingInv, TypeOK, BillsInv
<1>9. /\ \A s \in Settlements : Billed(s)' <=> Billed(s) \/ s \in New
      /\ \A r \in Runs \ {q.run} : BillsOf(r)' = BillsOf(r) /\ DraftsOf(r)' = DraftsOf(r)
      /\ BillsOf(q.run)' = BillsOf(q.run) \cup New
      /\ Resolved \subseteq Resolved'
  <2>1. \A s \in Settlements : Billed(s)' <=> Billed(s) \/ s \in New
    BY <1>7, <1>8 DEF Billed
  <2>2. \A r \in Runs \ {q.run} : BillsOf(r)' = BillsOf(r) /\ DraftsOf(r)' = DraftsOf(r)
    BY <1>6, <1>7, <1>8, RunAssumption DEF BillsOf, DraftsOf
  <2>3. BillsOf(q.run)' = BillsOf(q.run) \cup New
    BY <1>6, <1>7, <1>8 DEF BillsOf
  <2> QED
    BY <2>1, <2>2, <2>3 DEF Resolved
<1>10. ASSUME NEW v \in Workers \ {w}, NEW a \in Request, req[v] = a, Good(a)
       PROVE  Good(a)'
  <2>1. Creates(a) => a.run \in Runs \ {q.run}
    BY <1>1, <1>2, <1>10 DEF BillingInv, Apart, Good, Creates
  <2>2. \A s \in a.open : s \in Settlements \ New
    <3>1. \A s \in New : PlanOf[s] \notin a.plans
      BY <1>1, <1>6, <1>10 DEF BillingInv, Apart
    <3> QED
      BY <1>10, <3>1 DEF Good, Request
  <2>3. \A s \in a.todo : a.pc = "stageB" => billOf'[s].run = a.run
    <3>1. a.todo \subseteq Settlements
      BY DEF Request
    <3>2. a.pc = "stageB" => a.run \in Runs /\ \A s \in a.todo : billOf[s].run = a.run
      BY <1>10 DEF Good
    <3> QED
      BY <1>8, <3>1, <3>2, RunAssumption
  <2>4. Creates(a) => \A s \in BillsOf(a.run)' : billOf'[s].price = a.ver
    <3>1. ASSUME Creates(a), NEW s \in BillsOf(a.run)' PROVE billOf'[s].price = a.ver
      <4>1. s \in BillsOf(a.run)
        BY <1>9, <2>1, <3>1
      <4>2. s \in Settlements \ New
        BY <1>8, <2>1, <3>1, <4>1, RunAssumption DEF BillsOf
      <4> QED
        BY <1>8, <1>10, <3>1, <4>1, <4>2 DEF Good
    <3> QED
      BY <3>1
  <2>5. discards' = 0 /\ Executes(a)
           => Unresolved(a) \ Resolved' = run'[a.run].genFailed \ Resolved'
    BY <1>2, <1>9, <1>10 DEF Good
  <2>6. \A s \in a.open : PlanOf[s] \in a.plans /\ ~ Billed(s)'
    BY <1>9, <1>10, <2>2 DEF Good
  <2> QED
    BY <1>2, <1>10, <2>3, <2>4, <2>5, <2>6 DEF Good, Claimed
<1>11. Good(p)'
  <2>1. \A s \in BillsOf(q.run)' : billOf'[s].price = q.ver
    <3>1. \A s \in BillsOf(q.run) : billOf[s].price = q.ver
      BY <1>1, <1>2 DEF Good, Creates
    <3> QED
      BY <1>7, <1>8, <1>9, <3>1 DEF BillsOf
  <2>2. run[q.run].gen = "GENERATING"
    BY <1>1, <1>2 DEF Good, Creates
  <2>3. ~ InSlice(p) /\ ~ Executes(p) /\ ~ HasClaim(p)
    BY <1>4 DEF InSlice, Executes, HasClaim
  <2> QED
    BY <1>2, <1>4, <2>1, <2>2, <2>3 DEF Good
<1>12. BillsInv'
  <2> SUFFICES ASSUME NEW s \in Settlements
               PROVE  /\ Billed(s)' => /\ billOf'[s].run \in Runs
                                       /\ run'[billOf'[s].run].status \notin {"NONE", "GONE"}
                      /\ ~ Billed(s)' => billOf'[s].run = NoRun
                      /\ billOf'[s].status = "POSTED"
                            => run'[billOf'[s].run].status
                                 \in {"PROCESSING", "PARTIAL", "POSTED", "FAILED"}
    BY DEF BillsInv, Claimed
  <2>1. CASE s \in New
    BY <1>2, <1>7, <1>8, <1>9, <2>1
  <2>2. CASE s \notin New
    BY <1>2, <1>8, <1>9, <2>2 DEF BillingInv, BillsInv, Claimed
  <2> QED
    BY <2>1, <2>2
<1>13. RunsInv'
  <2> SUFFICES ASSUME NEW x \in Runs
               PROVE  /\ Claimed(x)' => run'[x].gen = "READY"
                      /\ run'[x].status = "NONE" => run'[x].gen = "GENERATING"
                      /\ discards' = 0 /\ run'[x].status = "POSTED"
                            => DraftsOf(x)' = {} /\ run'[x].genFailed \subseteq Resolved'
    BY DEF RunsInv
  <2> QED
    BY <1>2, <1>9 DEF BillingInv, RunsInv, Claimed
<1>14. \A v \in Workers \ {w} :
          /\ Creates(p) /\ Creates(req[v]) => p.run # req[v].run
          /\ p.plans \cap req[v].plans = {}
  BY <1>1, <1>2, <1>4 DEF BillingInv, Apart, Creates
<1> QED
  BY <1>2, <1>4, <1>8, <1>10, <1>11, <1>12, <1>13, <1>14, StepAssembled
     DEF BillingInv, TypeOK

LEMMA Counted ==
    ASSUME NEW S, S \subseteq Settlements
    PROVE  Cardinality(S) \in Nat /\ (Cardinality(S) = 0 <=> S = {})
<1>1. IsFiniteSet(Settlements)
  BY FS_Interval, RunAssumption DEF Settlements
<1> QED
  BY <1>1, FS_Subset, FS_CardinalityType, FS_EmptySet

(* What a step may write into the row of a run, its bills being as they    *)
(* are.                                                                    *)
RowIsSound(r, row) ==
    /\ row.status \notin {"NONE", "GONE"}
    /\ Claimed(r) => row.status \in {"PROCESSING", "PARTIAL", "POSTED", "FAILED"}
    /\ row.status \in {"PROCESSING", "PARTIAL", "POSTED", "FAILED"} => row.gen = "READY"
    /\ discards = 0 /\ row.status = "POSTED"
          => DraftsOf(r) = {} /\ row.genFailed \subseteq Resolved

(* When nothing but the run q.run changes, and the bills stay.             *)
LEMMA OneRunChanges ==
    ASSUME BillingInv, NEW w \in Workers, NEW q \in Request, req[w] = q, NEW p \in Request,
           q.run \in Runs, req' = [req EXCEPT ![w] = p],
           \A v \in Workers \ {w} :
              /\ Creates(p) /\ Creates(req[v]) => p.run # req[v].run
              /\ p.plans \cap req[v].plans = {},
           NEW row \in Run, run' = [run EXCEPT ![q.run] = row],
           UNCHANGED <<billOf, discards, envVars>>,
           Good(p)',
           \A v \in Workers \ {w}, a \in Request :
              req[v] = a /\ Good(a) /\ a.run = q.run => Good(a)',
           RowIsSound(q.run, row)
    PROVE  BillingInv'
<1>1. /\ run' \in [Runs -> Run] /\ run'[q.run] = row
      /\ \A x \in Runs \ {q.run} : run'[x] = run[x]
  BY DEF BillingInv, TypeOK
<1>2. ASSUME NEW v \in Workers \ {w}, NEW a \in Request, req[v] = a, Good(a)
      PROVE  Good(a)'
  <2>1. CASE a.run = q.run
    BY <1>2, <2>1
  <2>2. CASE a.run # q.run
    <3>1. a.run \in Runs => run'[a.run] = run[a.run]
      BY <1>1, <2>2
    <3>2. a.pc = "idle" => ~ Creates(a) /\ ~ InSlice(a) /\ ~ Executes(a) /\ ~ HasClaim(a)
      BY DEF Creates, InSlice, Executes, HasClaim
    <3> QED
      BY <1>2, <3>1, <3>2 DEF Good, Claimed, BillsOf, Billed, Resolved
  <2> QED
    BY <2>1, <2>2
<1>3. BillsInv'
  <2> SUFFICES ASSUME NEW s \in Settlements
               PROVE  /\ Billed(s) => /\ billOf[s].run \in Runs
                                      /\ run'[billOf[s].run].status \notin {"NONE", "GONE"}
                      /\ ~ Billed(s) => billOf[s].run = NoRun
                      /\ billOf[s].status = "POSTED"
                            => run'[billOf[s].run].status
                                 \in {"PROCESSING", "PARTIAL", "POSTED", "FAILED"}
    BY DEF BillsInv, Claimed, Billed
  <2>1. billOf[s].status = "POSTED" => Billed(s)
    BY DEF Billed
  <2>2. CASE billOf[s].run = q.run
    BY <1>1, <2>2 DEF BillingInv, BillsInv, Claimed, RowIsSound
  <2>3. CASE billOf[s].run # q.run
    BY <1>1, <2>1, <2>3 DEF BillingInv, BillsInv, Claimed
  <2> QED
    BY <2>2, <2>3
<1>4. RunsInv'
  <2> SUFFICES ASSUME NEW x \in Runs
               PROVE  /\ Claimed(x)' => run'[x].gen = "READY"
                      /\ run'[x].status = "NONE" => run'[x].gen = "GENERATING"
                      /\ discards' = 0 /\ run'[x].status = "POSTED"
                            => DraftsOf(x)' = {} /\ run'[x].genFailed \subseteq Resolved'
    BY DEF RunsInv
  <2>1. DraftsOf(x)' = DraftsOf(x) /\ Resolved' = Resolved
    BY DEF DraftsOf, BillsOf, Resolved, Billed
  <2>2. CASE x = q.run
    BY <1>1, <2>1, <2>2 DEF Claimed, RowIsSound
  <2>3. CASE x # q.run
    BY <1>1, <2>1, <2>3 DEF BillingInv, RunsInv, Claimed
  <2> QED
    BY <2>2, <2>3
<1> QED
  BY ZenonT(60), <1>1, <1>2, <1>3, <1>4, StepAssembled DEF BillingInv, TypeOK

LEMMA FinalizeCreateKeeps ==
    ASSUME BillingInv, NEW w \in Workers, FinalizeCreate(w)
    PROVE  BillingInv'
<1>1. PICK q \in Request : q = req[w] /\ Good(q)
  BY RequestIsGood
<1>2. /\ q.pc = "finalize" /\ q.run \in Runs /\ run[q.run].gen = "GENERATING"
      /\ req' = [req EXCEPT ![w] = Idle] /\ UNCHANGED <<billOf, discards, envVars>>
  BY <1>1 DEF FinalizeCreate, Good, Creates
<1>3. CASE ~ StillGood(w)
  <2>1. UNCHANGED run
    BY <1>3 DEF FinalizeCreate
  <2> QED
    BY <1>2, <2>1, RequestGivesUp
<1>4. CASE StillGood(w)
  <2>1. PICK total \in Int : total = NumSettlements - q.skipped
    BY RunAssumption DEF Request
  <2>2. PICK success \in Int :
            success = total - Cardinality(q.failed) - Cardinality(BillsOf(q.run))
    <3>1. q.failed \subseteq Settlements /\ BillsOf(q.run) \subseteq Settlements
      BY DEF Request, BillsOf
    <3>2. Cardinality(q.failed) \in Nat /\ Cardinality(BillsOf(q.run)) \in Nat
      BY <3>1, Counted
    <3> QED
      BY <3>2
  <2>3. PICK row : row = [run[q.run] EXCEPT !.gen = "READY", !.total = total,
                                            !.success = success, !.genFailed = q.failed]
    OBVIOUS
  <2>4. run' = [run EXCEPT ![q.run] = row]
    BY <1>1, <1>4, <2>1, <2>2, <2>3 DEF FinalizeCreate, BillingInv, TypeOK
  <2>5. /\ row \in Run /\ row.gen = "READY" /\ row.status = "DRAFT"
        /\ run[q.run].status = "DRAFT"
    <3>1. run[q.run] \in Run /\ run[q.run].status = "DRAFT" /\ q.failed \in SUBSET Settlements
      BY <1>1, <1>2, <1>4 DEF BillingInv, TypeOK, StillGood, Generating, Request
    <3> QED
      BY <2>3, <3>1 DEF Run
  <2>6. Idle \in Request /\ Good(Idle)' /\ ~ Creates(Idle) /\ Idle.plans = {}
    BY IdleRequest DEF Good, Idle, Creates, InSlice, Executes, HasClaim
  <2>7. ASSUME NEW v \in Workers \ {w}, NEW a \in Request, req[v] = a, Good(a),
               a.run = q.run
        PROVE  Good(a)'
    <3>1. ~ Creates(a)
      BY <1>1, <1>2, <2>7 DEF BillingInv, Apart, Creates
    <3>2. ~ InSlice(a) /\ ~ Executes(a) /\ ~ HasClaim(a)
      BY <1>2, <2>7, <3>1 DEF Good, Creates, InSlice, Executes, HasClaim
    <3> QED
      BY <1>2, <2>7, <3>1, <3>2 DEF Good, Billed
  <2>8. RowIsSound(q.run, row)
    BY <2>5 DEF RowIsSound, Claimed
  <2> QED
    BY <1>1, <1>2, <2>4, <2>5, <2>6, <2>7, <2>8, OneRunChanges
<1> QED
  BY <1>3, <1>4
-----------------------------------------------------------------------------
(* The steps of a post or retry request.                                   *)
LEMMA ReadRunKeeps ==
    ASSUME BillingInv, NEW w \in Workers, NEW r \in Runs, NEW allowedFrom \in SUBSET Statuses,
           ReadRun(w, r, allowedFrom)
    PROVE  BillingInv'
<1>1. PICK p : p = [Idle EXCEPT !.pc = "claim", !.run = r, !.from = allowedFrom,
                                !.todo = run[r].genFailed, !.total = run[r].total]
  OBVIOUS
<1>2. /\ p \in Request /\ p.pc = "claim" /\ p.run = r /\ p.open = {} /\ p.plans = {}
      /\ p.failed = {} /\ p.todo = run[r].genFailed
  <2>1. Idle \in Request /\ run[r] \in Run
    BY IdleRequest DEF BillingInv, TypeOK
  <2>2. Idle.open = {} /\ Idle.plans = {} /\ Idle.failed = {}
    BY DEF Idle
  <2>3. run[r].genFailed \in SUBSET Settlements /\ run[r].total \in Int
    BY <2>1 DEF Run
  <2> QED
    BY <1>1, <2>1, <2>2, <2>3 DEF Request
<1>3. run[r].gen = "READY" /\ req' = [req EXCEPT ![w] = p]
      /\ UNCHANGED <<run, billOf, discards, envVars>>
  BY <1>1 DEF ReadRun, Postable
<1>4. Good(p) /\ ~ Creates(p)
  BY <1>2, <1>3 DEF Good, Creates, InSlice, Executes, HasClaim, Unresolved
<1> QED
  BY <1>2, <1>3, <1>4, RequestMoves

LEMMA ClaimKeeps ==
    ASSUME BillingInv, NEW w \in Workers, Claim(w)
    PROVE  BillingInv'
<1>1. PICK q \in Request : q = req[w] /\ Good(q)
  BY RequestIsGood
<1>2. /\ q.pc = "claim" /\ q.run \in Runs /\ run[q.run].gen = "READY"
      /\ UNCHANGED <<billOf, discards, envVars>>
  BY <1>1 DEF Claim, Good, Executes
<1>3. CASE run[q.run].status \notin q.from
  <2>1. req' = [req EXCEPT ![w] = Idle] /\ UNCHANGED run
    BY <1>1, <1>3 DEF Claim
  <2> QED
    BY <1>2, <2>1, RequestGivesUp
<1>4. CASE run[q.run].status \in q.from
  <2>1. PICK row : row = [run[q.run] EXCEPT !.status = "PROCESSING"]
    OBVIOUS
  <2>2. row \in Run /\ row.status = "PROCESSING" /\ row.gen = "READY"
        /\ row.genFailed = run[q.run].genFailed
    BY <1>2, <2>1 DEF BillingInv, TypeOK, Run, Statuses
  <2>3. run' = [run EXCEPT ![q.run] = row] /\ run'[q.run] = row
    BY <1>1, <1>2, <1>4, <2>1 DEF Claim, BillingInv, TypeOK
  <2>4. PICK p : p = [q EXCEPT !.pc = "stageA", !.from = {}]
    OBVIOUS
  <2>5. /\ p \in Request /\ p.pc = "stageA" /\ p.run = q.run /\ p.open = q.open
        /\ p.plans = q.plans /\ p.failed = q.failed /\ p.todo = q.todo
    BY <2>4 DEF Request
  <2>6. req' = [req EXCEPT ![w] = p]
    BY <1>1, <1>4, <2>4 DEF Claim
  <2>7. q.open = {} /\ q.plans = {}
    BY <1>1, <1>2 DEF Good, InSlice
  <2>8. Resolved' = Resolved
    BY <1>2 DEF Resolved, Billed
  <2>9. Good(p)'
    <3>1. discards = 0 => Unresolved(p) \ Resolved = row.genFailed \ Resolved
      BY <1>1, <1>2, <2>2, <2>5 DEF Good, Executes, Unresolved
    <3> QED
      BY <1>2, <2>2, <2>3, <2>5, <2>7, <2>8, <3>1
         DEF Good, Creates, InSlice, Executes, HasClaim, Claimed
  <2>10. ASSUME NEW v \in Workers \ {w}, NEW a \in Request, req[v] = a, Good(a),
                a.run = q.run
         PROVE  Good(a)'
    <3>1. ~ Creates(a) /\ ~ InSlice(a)
      BY <1>2, <2>10 DEF Good, Creates, InSlice
    <3> QED
      BY <1>2, <2>2, <2>3, <2>8, <2>10, <3>1 DEF Good, Claimed, Billed
  <2>11. \A v \in Workers \ {w} :
            /\ Creates(p) /\ Creates(req[v]) => p.run # req[v].run
            /\ p.plans \cap req[v].plans = {}
    BY <2>5, <2>7 DEF Creates
  <2>12. RowIsSound(q.run, row)
    BY <2>2 DEF RowIsSound
  <2> QED
    BY <1>1, <1>2, <2>2, <2>3, <2>5, <2>6, <2>9, <2>10, <2>11, <2>12, OneRunChanges
<1> QED
  BY <1>3, <1>4

LEMMA RetryGenerateKeeps ==
    ASSUME BillingInv, NEW w \in Workers, NEW s \in Settlements, RetryGenerate(w, s)
    PROVE  BillingInv'
<1>1. PICK q \in Request : q = req[w] /\ Good(q)
  BY RequestIsGood
<1>2. /\ q.pc = "stageA" /\ q.run \in Runs /\ run[q.run].gen = "READY" /\ Claimed(q.run)
      /\ q.open = {} /\ q.plans = {} /\ s \in q.todo /\ PlanFree(w, s)
      /\ UNCHANGED <<run, discards, envVars>>
  BY <1>1 DEF RetryGenerate, Good, Executes, HasClaim, InSlice
<1>3. PICK p : p = [q EXCEPT !.todo = @ \ {s}]
  OBVIOUS
<1>4. /\ p \in Request /\ p.pc = "stageA" /\ p.run = q.run /\ p.open = {} /\ p.plans = {}
      /\ p.todo = q.todo \ {s} /\ p.failed = q.failed
  BY <1>2, <1>3 DEF Request
<1>5. CASE s \in Monitoring \/ Billed(s)
  <2>1. req' = [req EXCEPT ![w] = p] /\ UNCHANGED billOf
    BY <1>1, <1>3, <1>5 DEF RetryGenerate
  <2>2. Good(p) /\ ~ Creates(p)
    <3>1. Unresolved(p) \ Resolved = Unresolved(q) \ Resolved
      BY <1>2, <1>4, <1>5 DEF Unresolved, Resolved
    <3> QED
      BY <1>1, <1>2, <1>4, <3>1 DEF Good, Creates, InSlice, Executes, HasClaim
  <2> QED
    BY <1>2, <1>4, <2>1, <2>2, RequestMoves
<1>6. CASE s \notin Monitoring /\ ~ Billed(s) /\ s \notin priced
  <2>1. PICK a : a = [p EXCEPT !.failed = @ \cup {s}]
    OBVIOUS
  <2>2. /\ a \in Request /\ a.pc = "stageA" /\ a.run = q.run /\ a.open = {} /\ a.plans = {}
        /\ a.todo = q.todo \ {s} /\ a.failed = q.failed \cup {s}
    BY <1>4, <2>1 DEF Request
  <2>3. req' = [req EXCEPT ![w] = a] /\ UNCHANGED billOf
    BY <1>1, <1>3, <1>6, <2>1 DEF RetryGenerate
  <2>4. Good(a) /\ ~ Creates(a)
    <3>1. Unresolved(a) = Unresolved(q)
      BY <1>2, <2>2 DEF Unresolved
    <3> QED
      BY <1>1, <1>2, <2>2, <3>1 DEF Good, Creates, InSlice, Executes, HasClaim
  <2> QED
    BY <1>2, <2>2, <2>3, <2>4, RequestMoves
<1>7. CASE s \notin Monitoring /\ ~ Billed(s) /\ s \in priced
  <2>1. /\ req' = [req EXCEPT ![w] = p]
        /\ billOf' = [billOf EXCEPT ![s] = DraftBill(q.run, edits)]
    BY <1>1, <1>3, <1>7 DEF RetryGenerate
  <2>2. DraftBill(q.run, edits) \in Bill /\ DraftBill(q.run, edits).status = "DRAFT"
        /\ DraftBill(q.run, edits).run = q.run
    BY <1>2 DEF DraftBill, Bill, BillingInv, TypeOK
  <2>3. /\ billOf' \in [Settlements -> Bill] /\ billOf[s].run = NoRun
        /\ billOf'[s].status = "DRAFT" /\ billOf'[s].run = q.run
        /\ \A x \in Settlements \ {s} : billOf'[x] = billOf[x]
    BY <1>7, <2>1, <2>2 DEF BillingInv, TypeOK, BillsInv
  <2>4. /\ \A x \in Settlements : Billed(x)' <=> Billed(x) \/ x = s
        /\ \A r \in Runs \ {q.run} : BillsOf(r)' = BillsOf(r) /\ DraftsOf(r)' = DraftsOf(r)
        /\ Resolved' = Resolved \cup {s}
    <3>1. \A x \in Settlements : Billed(x)' <=> Billed(x) \/ x = s
      BY <2>3 DEF Billed
    <3>2. \A r \in Runs \ {q.run} : BillsOf(r)' = BillsOf(r) /\ DraftsOf(r)' = DraftsOf(r)
      BY <2>3, RunAssumption DEF BillsOf, DraftsOf
    <3> QED
      BY <3>1, <3>2 DEF Resolved
  <2>5. ASSUME NEW v \in Workers \ {w}, NEW a \in Request, req[v] = a, Good(a)
        PROVE  Good(a)'
    <3>1. Creates(a) => a.run \in Runs \ {q.run}
      BY <1>2, <2>5 DEF Good, Creates
    <3>2. s \notin a.open
      BY <1>2, <2>5 DEF Good, PlanFree
    <3>3. \A x \in a.todo : a.pc = "stageB" => billOf'[x].run = a.run
      <4>1. a.todo \subseteq Settlements
        BY DEF Request
      <4>2. a.pc = "stageB" => a.run \in Runs /\ \A x \in a.todo : billOf[x].run = a.run
        BY <2>5 DEF Good
      <4> QED
        BY <2>3, <4>1, <4>2, RunAssumption
    <3>4. Creates(a) => \A x \in BillsOf(a.run)' : billOf'[x].price = a.ver
      <4>1. ASSUME Creates(a), NEW x \in BillsOf(a.run)' PROVE billOf'[x].price = a.ver
        <5>1. x \in BillsOf(a.run) /\ x \in Settlements \ {s}
          BY <2>3, <2>4, <3>1, <4>1, RunAssumption DEF BillsOf
        <5> QED
          BY <2>3, <2>5, <4>1, <5>1 DEF Good
      <4> QED
        BY <4>1
    <3>5. discards' = 0 /\ Executes(a)
             => Unresolved(a) \ Resolved' = run'[a.run].genFailed \ Resolved'
      BY <1>2, <2>4, <2>5 DEF Good
    <3>6. \A x \in a.open : PlanOf[x] \in a.plans /\ ~ Billed(x)'
      BY <2>4, <2>5, <3>2 DEF Good, Request
    <3> QED
      BY <1>2, <2>5, <3>3, <3>4, <3>5, <3>6 DEF Good, Claimed
  <2>6. Good(p)'
    <3>1. discards = 0 => Unresolved(p) \ Resolved' = run[q.run].genFailed \ Resolved'
      BY <1>1, <1>2, <1>4, <2>4 DEF Good, Executes, Unresolved
    <3> QED
      BY <1>2, <1>4, <3>1 DEF Good, Creates, InSlice, Executes, HasClaim, Claimed
  <2>7. BillsInv'
    <3> SUFFICES ASSUME NEW x \in Settlements
                 PROVE  /\ Billed(x)' => /\ billOf'[x].run \in Runs
                                         /\ run'[billOf'[x].run].status \notin {"NONE", "GONE"}
                        /\ ~ Billed(x)' => billOf'[x].run = NoRun
                        /\ billOf'[x].status = "POSTED"
                              => run'[billOf'[x].run].status
                                   \in {"PROCESSING", "PARTIAL", "POSTED", "FAILED"}
      BY DEF BillsInv, Claimed
    <3>1. CASE x = s
      BY <1>2, <2>3, <2>4, <3>1 DEF Claimed
    <3>2. CASE x # s
      BY <1>2, <2>3, <2>4, <3>2 DEF BillingInv, BillsInv, Claimed
    <3> QED
      BY <3>1, <3>2
  <2>8. RunsInv'
    <3> SUFFICES ASSUME NEW x \in Runs
                 PROVE  /\ Claimed(x)' => run'[x].gen = "READY"
                        /\ run'[x].status = "NONE" => run'[x].gen = "GENERATING"
                        /\ discards' = 0 /\ run'[x].status = "POSTED"
                              => DraftsOf(x)' = {} /\ run'[x].genFailed \subseteq Resolved'
      BY DEF RunsInv
    <3>1. ~ (discards = 0 /\ run[q.run].status = "POSTED")
      <4> SUFFICES ASSUME discards = 0, run[q.run].genFailed \subseteq Resolved PROVE FALSE
        BY <1>2 DEF BillingInv, RunsInv
      <4>1. s \in Unresolved(q) \ Resolved
        BY <1>2, <1>7 DEF Unresolved, Resolved
      <4> QED
        BY <1>1, <1>2, <4>1 DEF Good, Executes
    <3>2. CASE x = q.run
      BY <1>2, <3>1, <3>2 DEF BillingInv, RunsInv, Claimed
    <3>3. CASE x # q.run
      BY <1>2, <2>4, <3>3 DEF BillingInv, RunsInv, Claimed
    <3> QED
      BY <3>2, <3>3
  <2>9. \A v \in Workers \ {w} :
           /\ Creates(p) /\ Creates(req[v]) => p.run # req[v].run
           /\ p.plans \cap req[v].plans = {}
    BY <1>4 DEF Creates
  <2> QED
    BY <1>2, <1>4, <2>1, <2>3, <2>5, <2>6, <2>7, <2>8, <2>9, StepAssembled
       DEF BillingInv, TypeOK
<1> QED
  BY <1>5, <1>6, <1>7

LEMMA ReadDraftsKeeps ==
    ASSUME BillingInv, NEW w \in Workers, ReadDrafts(w)
    PROVE  BillingInv'
<1>1. PICK q \in Request : q = req[w] /\ Good(q)
  BY RequestIsGood
<1>2. /\ q.pc = "stageA" /\ q.todo = {} /\ q.run \in Runs /\ run[q.run].gen = "READY"
      /\ Claimed(q.run) /\ q.open = {} /\ q.plans = {}
      /\ UNCHANGED <<run, billOf, discards, envVars>>
  BY <1>1 DEF ReadDrafts, Good, Executes, HasClaim, InSlice
<1>3. PICK p : p = [q EXCEPT !.pc = "stageB", !.todo = DraftsOf(q.run)]
  OBVIOUS
<1>4. /\ p \in Request /\ p.pc = "stageB" /\ p.run = q.run /\ p.open = {} /\ p.plans = {}
      /\ p.todo = DraftsOf(q.run) /\ p.failed = q.failed
  <2>1. DraftsOf(q.run) \in SUBSET Settlements
    BY DEF DraftsOf, BillsOf
  <2> QED
    BY <1>2, <1>3, <2>1 DEF Request
<1>5. req' = [req EXCEPT ![w] = p]
  BY <1>1, <1>3 DEF ReadDrafts, BillingInv, TypeOK
<1>6. Good(p) /\ ~ Creates(p)
  <2>1. Unresolved(p) = Unresolved(q)
    BY <1>2, <1>4 DEF Unresolved
  <2>2. \A s \in p.todo : billOf[s].run = p.run
    BY <1>4 DEF DraftsOf, BillsOf
  <2> QED
    BY <1>1, <1>2, <1>4, <2>1, <2>2 DEF Good, Creates, InSlice, Executes, HasClaim
<1> QED
  BY <1>2, <1>4, <1>5, <1>6, RequestMoves

LEMMA PostOneBillKeeps ==
    ASSUME BillingInv, NEW w \in Workers, NEW s \in Settlements, PostOneBill(w, s)
    PROVE  BillingInv'
<1>1. PICK q \in Request : q = req[w] /\ Good(q)
  BY RequestIsGood
<1>2. /\ q.pc = "stageB" /\ q.run \in Runs /\ run[q.run].gen = "READY" /\ Claimed(q.run)
      /\ q.open = {} /\ q.plans = {} /\ s \in q.todo /\ billOf[s].run = q.run
      /\ UNCHANGED <<run, discards, envVars>>
  BY <1>1 DEF PostOneBill, Good, Executes, HasClaim, InSlice
<1>3. PICK p : p = [q EXCEPT !.todo = @ \ {s}]
  OBVIOUS
<1>4. /\ p \in Request /\ p.pc = "stageB" /\ p.run = q.run /\ p.open = {} /\ p.plans = {}
      /\ p.todo = q.todo \ {s} /\ p.failed = q.failed
  BY <1>2, <1>3 DEF Request
<1>5. req' = [req EXCEPT ![w] = p]
  BY <1>1, <1>3 DEF PostOneBill, BillingInv, TypeOK
<1>6. Good(p) /\ ~ Creates(p)
  <2>1. Unresolved(p) = Unresolved(q)
    BY <1>2, <1>4 DEF Unresolved
  <2>2. \A x \in p.todo : billOf[x].run = p.run
    BY <1>1, <1>2, <1>4 DEF Good
  <2> QED
    BY <1>1, <1>2, <1>4, <2>1, <2>2 DEF Good, Creates, InSlice, Executes, HasClaim
<1>7. CASE ~ (s \notin closed /\ billOf[s].status = "DRAFT")
  <2>1. UNCHANGED billOf
    BY <1>7 DEF PostOneBill
  <2> QED
    BY <1>2, <1>4, <1>5, <1>6, <2>1, RequestMoves
<1>8. CASE s \notin closed /\ billOf[s].status = "DRAFT"
  <2>1. billOf' = [billOf EXCEPT ![s] = [billOf[s] EXCEPT !.status = "POSTED"]]
    BY <1>8 DEF PostOneBill, BillingInv, TypeOK
  <2>2. PICK b : b = [billOf[s] EXCEPT !.status = "POSTED"]
    OBVIOUS
  <2>9. b \in Bill /\ b.status = "POSTED" /\ b.run = q.run /\ b.price = billOf[s].price
    <3>1. billOf[s] \in Bill
      BY DEF BillingInv, TypeOK
    <3> QED
      BY <1>2, <2>2, <3>1 DEF Bill
  <2>3. /\ billOf' \in [Settlements -> Bill] /\ billOf'[s].status = "POSTED"
        /\ \A x \in Settlements : billOf'[x].run = billOf[x].run
        /\ \A x \in Settlements : billOf'[x].price = billOf[x].price
        /\ \A x \in Settlements \ {s} : billOf'[x] = billOf[x]
    BY <1>2, <2>1, <2>2, <2>9 DEF BillingInv, TypeOK
  <2>4. /\ \A x \in Settlements : Billed(x)' <=> Billed(x)
        /\ \A r : BillsOf(r)' = BillsOf(r) /\ DraftsOf(r)' \subseteq DraftsOf(r)
        /\ Resolved' = Resolved
    <3>1. \A x \in Settlements : Billed(x)' <=> Billed(x)
      BY <1>8, <2>3 DEF Billed
    <3>2. \A r : BillsOf(r)' = BillsOf(r)
      BY <2>3 DEF BillsOf
    <3>3. \A r : DraftsOf(r)' \subseteq DraftsOf(r)
      BY <1>8, <2>3, <3>2 DEF DraftsOf, BillsOf
    <3> QED
      BY <3>1, <3>2, <3>3 DEF Resolved
  <2>5. ASSUME NEW a \in Request, Good(a) PROVE Good(a)'
    <3>1. \A x \in a.open : ~ Billed(x)'
      BY <2>4, <2>5 DEF Good, Request
    <3>2. a.pc = "stageB" => \A x \in a.todo : billOf'[x].run = a.run
      BY <2>3, <2>5 DEF Good, Request
    <3>3. \A x \in BillsOf(a.run)' : billOf'[x].price = billOf[x].price
      BY <2>3, <2>4 DEF BillsOf
    <3> QED
      BY <1>2, <2>4, <2>5, <3>1, <3>2, <3>3 DEF Good, Claimed
  <2>6. BillsInv'
    <3> SUFFICES ASSUME NEW x \in Settlements
                 PROVE  /\ Billed(x)' => /\ billOf'[x].run \in Runs
                                         /\ run'[billOf'[x].run].status \notin {"NONE", "GONE"}
                        /\ ~ Billed(x)' => billOf'[x].run = NoRun
                        /\ billOf'[x].status = "POSTED"
                              => run'[billOf'[x].run].status
                                   \in {"PROCESSING", "PARTIAL", "POSTED", "FAILED"}
      BY DEF BillsInv, Claimed
    <3>1. CASE x = s
      BY <1>2, <2>3, <2>4, <3>1 DEF BillingInv, BillsInv, Claimed
    <3>2. CASE x # s
      BY <1>2, <2>3, <2>4, <3>2 DEF BillingInv, BillsInv, Claimed
    <3> QED
      BY <3>1, <3>2
  <2>7. RunsInv'
    BY <1>2, <2>4 DEF BillingInv, RunsInv, Claimed
  <2>8. \A v \in Workers \ {w} :
           /\ Creates(p) /\ Creates(req[v]) => p.run # req[v].run
           /\ p.plans \cap req[v].plans = {}
    BY <1>4, <1>6
  <2>10. Good(p)' /\ UNCHANGED <<discards, envVars>> /\ run' \in [Runs -> Run]
    BY <1>2, <1>4, <1>6, <2>5 DEF BillingInv, TypeOK
  <2> QED
    BY <1>4, <1>5, <2>3, <2>5, <2>6, <2>7, <2>8, <2>10, StepAssembled
<1> QED
  BY <1>7, <1>8

(* The run is written whatever its status is now.                          *)
LEMMA FinalizePostKeeps ==
    ASSUME BillingInv, NEW w \in Workers, FinalizePost(w)
    PROVE  BillingInv'
<1>1. PICK q \in Request : q = req[w] /\ Good(q)
  BY RequestIsGood
<1>2. /\ q.pc = "stageB" /\ q.run \in Runs /\ run[q.run].gen = "READY" /\ Claimed(q.run)
      /\ req' = [req EXCEPT ![w] = Idle] /\ UNCHANGED <<billOf, discards, envVars>>
  BY <1>1 DEF FinalizePost, Good, Executes, HasClaim
<1>3. PICK failed : failed = Cardinality(q.failed) + Cardinality(DraftsOf(q.run))
  OBVIOUS
<1>4. failed \in Nat /\ (failed = 0 => q.failed = {} /\ DraftsOf(q.run) = {})
  <2>1. q.failed \subseteq Settlements /\ DraftsOf(q.run) \subseteq Settlements
    BY DEF Request, DraftsOf, BillsOf
  <2>2. PICK a \in Nat, b \in Nat :
            a = Cardinality(q.failed) /\ b = Cardinality(DraftsOf(q.run))
    BY <2>1, Counted
  <2> QED
    BY <1>3, <2>1, <2>2, Counted
<1>5. PICK status : status = Outcome(failed, q.total - failed)
  OBVIOUS
<1>6. status \in {"POSTED", "FAILED", "PARTIAL"} /\ (status = "POSTED" => failed = 0)
  BY <1>5 DEF Outcome
<1>7. PICK row : row = [run[q.run] EXCEPT !.status = status, !.success = q.total - failed,
                                          !.genFailed = q.failed,
                                          !.postFailed = DraftsOf(q.run)]
  OBVIOUS
<1>8. row \in Run /\ row.status = status /\ row.gen = "READY" /\ row.genFailed = q.failed
  <2>1. /\ run[q.run] \in Run /\ status \in Statuses /\ q.total - failed \in Int
        /\ q.failed \in SUBSET Settlements /\ DraftsOf(q.run) \in SUBSET Settlements
    BY <1>2, <1>4, <1>6 DEF BillingInv, TypeOK, Statuses, Request, DraftsOf, BillsOf
  <2> QED
    BY <1>2, <1>7, <2>1 DEF Run
<1>9. run' = [run EXCEPT ![q.run] = row] /\ run'[q.run] = row
  BY <1>1, <1>2, <1>3, <1>5, <1>7 DEF FinalizePost, BillingInv, TypeOK
<1>10. Resolved' = Resolved /\ (discards = 0 => q.failed \ Resolved = run[q.run].genFailed \ Resolved)
  BY <1>1, <1>2 DEF Resolved, Billed, Good, Executes, Unresolved
<1>11. ASSUME NEW v \in Workers \ {w}, NEW a \in Request, req[v] = a, Good(a),
              a.run = q.run
       PROVE  Good(a)'
  <2>1. ~ Creates(a) /\ ~ InSlice(a)
    BY <1>2, <1>11 DEF Good, Creates, InSlice
  <2> QED
    BY <1>2, <1>6, <1>8, <1>9, <1>10, <1>11, <2>1 DEF Good, Claimed, Billed
<1>12. Idle \in Request /\ Good(Idle)' /\ ~ Creates(Idle) /\ Idle.plans = {}
  BY IdleRequest DEF Good, Idle, Creates, InSlice, Executes, HasClaim
<1>13. RowIsSound(q.run, row)
  BY <1>4, <1>6, <1>8 DEF RowIsSound
<1> QED
  BY <1>1, <1>2, <1>8, <1>9, <1>11, <1>12, <1>13, OneRunChanges
-----------------------------------------------------------------------------
(* The discard finds the run in DRAFT, so nobody has claimed it, and its   *)
(* lock free, so no slice of it is open.                                   *)
LEMMA DiscardKeeps ==
    ASSUME BillingInv, NEW r \in Runs, Discard(r)
    PROVE  BillingInv'
<1>1. /\ run[r].status = "DRAFT" /\ RunFree(r) /\ discards < MaxDiscards
      /\ run' = [run EXCEPT ![r].status = "GONE"]
      /\ billOf' = [s \in Settlements |-> IF s \in DraftsOf(r) THEN NoBill ELSE billOf[s]]
      /\ discards' = discards + 1 /\ UNCHANGED <<req, envVars>>
  BY DEF Discard
<1>2. /\ run' \in [Runs -> Run] /\ run'[r].status = "GONE" /\ run'[r].gen = run[r].gen
      /\ \A x \in Runs \ {r} : run'[x] = run[x]
  BY <1>1 DEF BillingInv, TypeOK, Run, Statuses
<1>3. NoBill \in Bill /\ NoBill.status = "NONE" /\ NoBill.run = NoRun
  BY RunAssumption DEF NoBill, Bill
<1>4. /\ billOf' \in [Settlements -> Bill]
      /\ \A s \in DraftsOf(r) : billOf'[s] = NoBill
      /\ \A s \in Settlements \ DraftsOf(r) : billOf'[s] = billOf[s]
      /\ DraftsOf(r) \subseteq Settlements
  BY <1>1, <1>3 DEF BillingInv, TypeOK, DraftsOf, BillsOf
<1>5. discards' \in 0 .. MaxDiscards /\ discards' # 0
  BY <1>1, RunAssumption DEF BillingInv, TypeOK
<1>6. \A s \in Settlements : billOf[s].run = r => s \in DraftsOf(r)
  <2> SUFFICES ASSUME NEW s \in Settlements, billOf[s].run = r, billOf[s].status # "DRAFT"
               PROVE  FALSE
    BY DEF DraftsOf, BillsOf
  <2>1. ~ Claimed(r)
    BY <1>1 DEF Claimed
  <2>2. Billed(s)
    BY RunAssumption DEF BillingInv, BillsInv
  <2>3. billOf[s].status = "POSTED"
    BY <2>2 DEF Billed, BillingInv, TypeOK, Bill
  <2> QED
    BY <2>1, <2>3 DEF BillingInv, BillsInv
<1>7. \A s \in Settlements : Billed(s)' => Billed(s) /\ s \notin DraftsOf(r)
  BY <1>3, <1>4 DEF Billed
<1>8. ASSUME NEW w \in Workers, NEW q \in Request, req[w] = q, Good(q)
      PROVE  Good(q)'
  <2>1. InSlice(q) => q.run # r
    BY <1>1, <1>8 DEF RunFree, InSlice
  <2>2. HasClaim(q) => q.run \in Runs \ {r}
    BY <1>1, <1>8 DEF Good, HasClaim, Claimed
  <2>3. q.pc # "idle" => q.run \in Runs /\ run'[q.run].gen = run[q.run].gen
    BY <1>2, <1>8 DEF Good
  <2>4. q.pc = "stageB" => \A s \in q.todo : billOf'[s].run = q.run
    <3> SUFFICES ASSUME q.pc = "stageB", NEW s \in q.todo PROVE billOf'[s].run = q.run
      OBVIOUS
    <3>1. s \in Settlements /\ billOf[s].run = q.run
      BY <1>8 DEF Good, Request
    <3>2. s \notin DraftsOf(r)
      BY <2>2, <3>1 DEF HasClaim, DraftsOf, BillsOf
    <3> QED
      BY <1>4, <3>1, <3>2
  <2>5. Creates(q) => /\ run'[q.run].gen = "GENERATING" /\ run'[q.run].status # "NONE"
                      /\ \A s \in BillsOf(q.run)' : billOf'[s].price = q.ver
    <3> SUFFICES ASSUME Creates(q)
                 PROVE  /\ run'[q.run].status # "NONE"
                        /\ \A s \in BillsOf(q.run)' : billOf'[s].price = q.ver
      BY <1>8, <2>3 DEF Good, Creates
    <3>1. run'[q.run].status # "NONE"
      BY <1>2, <1>8, <2>3 DEF Good, Creates
    <3>2. q.run \in Runs
      BY <2>3 DEF Creates
    <3>3. ASSUME NEW s \in BillsOf(q.run)' PROVE billOf'[s].price = q.ver
      <4>1. s \in Settlements /\ billOf'[s].run = q.run
        BY <3>3 DEF BillsOf
      <4>2. s \notin DraftsOf(r)
        BY <1>3, <1>4, <3>2, <4>1, RunAssumption
      <4>3. billOf'[s] = billOf[s] /\ s \in BillsOf(q.run)
        BY <1>4, <4>1, <4>2 DEF BillsOf
      <4> QED
        BY <1>8, <4>3 DEF Good
    <3> QED
      BY <3>1, <3>3
  <2>6. InSlice(q) => run'[q.run].status = "DRAFT"
    BY <1>2, <1>8, <2>1, <2>3 DEF Good, InSlice
  <2>7. \A s \in q.open : PlanOf[s] \in q.plans /\ ~ Billed(s)'
    BY <1>7, <1>8 DEF Good, Request
  <2>8. HasClaim(q) => Claimed(q.run)'
    BY <1>2, <1>8, <2>2 DEF Good, Claimed
  <2>9. Executes(q) => run'[q.run].gen = "READY"
    BY <1>8, <2>3 DEF Good, Executes
  <2> QED
    BY <1>5, <1>8, <2>4, <2>5, <2>6, <2>7, <2>8, <2>9 DEF Good
<1>9. BillsInv'
  <2> SUFFICES ASSUME NEW s \in Settlements
               PROVE  /\ Billed(s)' => /\ billOf'[s].run \in Runs
                                       /\ run'[billOf'[s].run].status \notin {"NONE", "GONE"}
                      /\ ~ Billed(s)' => billOf'[s].run = NoRun
                      /\ billOf'[s].status = "POSTED"
                            => run'[billOf'[s].run].status
                                 \in {"PROCESSING", "PARTIAL", "POSTED", "FAILED"}
    BY DEF BillsInv, Claimed
  <2>1. CASE s \in DraftsOf(r)
    BY <1>3, <1>4, <2>1 DEF Billed
  <2>2. CASE s \notin DraftsOf(r)
    <3>1. billOf'[s] = billOf[s] /\ billOf[s].run # r /\ (Billed(s)' <=> Billed(s))
      BY <1>4, <1>6, <2>2 DEF Billed
    <3>2. billOf[s].status = "POSTED" => Billed(s)
      BY DEF Billed
    <3> QED
      BY <1>2, <3>1, <3>2 DEF BillingInv, BillsInv, Claimed
  <2> QED
    BY <2>1, <2>2
<1>10. RunsInv'
  <2> SUFFICES ASSUME NEW x \in Runs
               PROVE  /\ Claimed(x)' => run'[x].gen = "READY"
                      /\ run'[x].status = "NONE" => run'[x].gen = "GENERATING"
    BY <1>5 DEF RunsInv
  <2>1. CASE x = r
    BY <1>2, <2>1 DEF Claimed
  <2>2. CASE x # r
    BY <1>2, <2>2 DEF BillingInv, RunsInv, Claimed
  <2> QED
    BY <2>1, <2>2
<1>11. TypeOK'
  BY <1>1, <1>2, <1>4, <1>5 DEF BillingInv, TypeOK, envVars
<1>12. RequestsInv'
  BY <1>1, <1>8 DEF BillingInv, RequestsInv
<1>13. Apart'
  BY <1>1 DEF BillingInv, Apart, Creates
<1> QED
  BY <1>9, <1>10, <1>11, <1>12, <1>13 DEF BillingInv

(* What happens outside the requests, and nothing at all.                  *)
LEMMA OutsideKeeps ==
    ASSUME BillingInv,
           \/ \E s \in Settlements : EditPricing(s) \/ CompleteTask(s) \/ CloseAccount(s)
           \/ UNCHANGED vars
    PROVE  BillingInv'
<1>1. UNCHANGED <<run, billOf, req, discards>>
  BY DEF EditPricing, CompleteTask, CloseAccount, vars
<1>2. /\ priced' \in SUBSET Settlements /\ edits' \in 0 .. MaxEdits
      /\ blocked' \in SUBSET Settlements /\ closed' \in SUBSET Settlements
  <2>1. ASSUME NEW s \in Settlements, EditPricing(s)
        PROVE  /\ priced' \in SUBSET Settlements /\ edits' \in 0 .. MaxEdits
               /\ UNCHANGED <<blocked, closed>>
    BY <2>1, RunAssumption DEF BillingInv, TypeOK, EditPricing
  <2>2. ASSUME NEW s \in Settlements, CompleteTask(s)
        PROVE  blocked' \in SUBSET Settlements /\ UNCHANGED <<priced, edits, closed>>
    BY <2>2 DEF BillingInv, TypeOK, CompleteTask
  <2>3. ASSUME NEW s \in Settlements, CloseAccount(s)
        PROVE  closed' \in SUBSET Settlements /\ UNCHANGED <<priced, edits, blocked>>
    BY <2>3, RunAssumption DEF BillingInv, TypeOK, CloseAccount, Settlements
  <2>4. UNCHANGED vars => UNCHANGED envVars
    BY DEF vars, envVars
  <2> QED
    BY <2>1, <2>2, <2>3, <2>4 DEF BillingInv, TypeOK, envVars
<1>3. \A q \in Request : Good(q) => Good(q)'
  BY <1>1 DEF Good, BillsOf, Billed, Claimed, Resolved
<1>4. RequestsInv' /\ Apart' /\ BillsInv' /\ RunsInv'
  BY <1>1, <1>3 DEF BillingInv, RequestsInv, Apart, Creates, BillsInv, RunsInv, Billed,
                    BillsOf, DraftsOf, Claimed, Resolved
<1> QED
  BY <1>1, <1>2, <1>4 DEF BillingInv, TypeOK

LEMMA BillingStart == Init => BillingInv
<1> SUFFICES ASSUME Init PROVE BillingInv
  OBVIOUS
<1>1. NoBill \in Bill /\ NoBill.status = "NONE" /\ NoBill.run = NoRun
  BY RunAssumption DEF NoBill, Bill
<1>2. TypeOK
  <2>1. [status |-> "NONE", gen |-> "GENERATING", total |-> 0, success |-> 0,
         genFailed |-> {}, postFailed |-> {}] \in Run
    BY DEF Run, Statuses
  <2>2. Idle \in Request
    <3>1. 1 \in 1 .. NumSettlements + 1 /\ 0 \in 0 .. MaxEdits
      BY RunAssumption
    <3> QED
      BY <3>1 DEF Idle, Request
  <2> QED
    BY <1>1, <2>1, <2>2, RunAssumption DEF Init, TypeOK, Settlements
<1>3. \A w \in Workers : req[w] = Idle
  BY DEF Init
<1>4. Good(Idle) /\ ~ Creates(Idle) /\ Idle.plans = {}
  BY DEF Idle, Good, Creates, InSlice, Executes, HasClaim
<1>5. RequestsInv /\ Apart
  BY <1>3, <1>4 DEF RequestsInv, Apart
<1>6. BillsInv
  BY <1>1 DEF Init, BillsInv, Billed
<1>7. RunsInv
  BY DEF Init, RunsInv, Claimed
<1> QED
  BY <1>2, <1>5, <1>6, <1>7 DEF BillingInv

LEMMA BillingStep == BillingInv /\ [Next]_vars => BillingInv'
<1> SUFFICES ASSUME BillingInv, [Next]_vars PROVE BillingInv'
  OBVIOUS
<1>1. ASSUME NEW w \in Workers, RequestStep(w) PROVE BillingInv'
  <2>1. ASSUME StartBatch(w) \/ Probe(w) \/ Insert(w) \/ CommitBatch(w) \/ FinalizeCreate(w)
        PROVE  BillingInv'
    BY <2>1, StartBatchKeeps, ProbeKeeps, InsertKeeps, CommitBatchKeeps, FinalizeCreateKeeps
  <2>2. ASSUME DeadlockVictim(w) PROVE BillingInv'
    BY <2>2, RequestGivesUp DEF DeadlockVictim
  <2>3. ASSUME Claim(w) \/ ReadDrafts(w) \/ FinalizePost(w) PROVE BillingInv'
    BY <2>3, ClaimKeeps, ReadDraftsKeeps, FinalizePostKeeps
  <2>4. ASSUME NEW s \in Settlements, RetryGenerate(w, s) \/ PostOneBill(w, s)
        PROVE  BillingInv'
    BY <2>4, RetryGenerateKeeps, PostOneBillKeeps
  <2> QED
    BY <1>1, <2>1, <2>2, <2>3, <2>4 DEF RequestStep
<1>2. ASSUME NEW w \in Workers, Crash(w) PROVE BillingInv'
  BY <1>2, RequestGivesUp DEF Crash
<1>3. ASSUME NEW w \in Workers, NEW r \in Runs,
             Create(w, r) \/ ReadRun(w, r, PostFrom) \/ ReadRun(w, r, RetryFrom)
      PROVE  BillingInv'
  <2>1. PostFrom \in SUBSET Statuses /\ RetryFrom \in SUBSET Statuses
    BY DEF PostFrom, RetryFrom, Statuses
  <2> QED
    BY <1>3, <2>1, CreateKeeps, ReadRunKeeps
<1>4. ASSUME NEW r \in Runs, Discard(r) PROVE BillingInv'
  BY <1>4, DiscardKeeps
<1>5. CASE \/ \E s \in Settlements : EditPricing(s) \/ CompleteTask(s) \/ CloseAccount(s)
           \/ UNCHANGED vars
  BY <1>5, OutsideKeeps
<1> QED
  BY <1>1, <1>2, <1>3, <1>4, <1>5 DEF Next

LEMMA BillingAlways == Spec => []BillingInv
  BY BillingStart, BillingStep, PTL DEF Spec
-----------------------------------------------------------------------------
(* Type correctness of runs, bills and requests.                           *)
THEOREM BillingTypes == Spec => []TypeOK
<1>1. BillingInv => TypeOK
  BY DEF BillingInv
<1> QED
  BY <1>1, BillingAlways, PTL

(* Whatever requests are under way when a run is discarded, no bill is     *)
(* left without its run, and none is inserted into it afterwards.          *)
THEOREM BillsHaveRuns == Spec => []NoOrphanBill
<1>1. BillingInv => NoOrphanBill
  BY DEF BillingInv, BillsInv, NoOrphanBill
<1> QED
  BY <1>1, BillingAlways, PTL

(* A posted bill is in a run that was READY and claimed, and a run never   *)
(* returns from there: the discard cannot delete a posted bill.            *)
THEOREM PostedAreClaimed == Spec => []PostedOnlyOnceClaimed
<1>1. BillingInv => PostedOnlyOnceClaimed
  <2> SUFFICES ASSUME BillingInv, NEW s \in Settlements, billOf[s].status = "POSTED"
               PROVE  /\ run[billOf[s].run].gen = "READY"
                      /\ run[billOf[s].run].status \notin {"NONE", "DRAFT", "GONE"}
    BY DEF PostedOnlyOnceClaimed
  <2>1. Billed(s) /\ billOf[s].run \in Runs /\ Claimed(billOf[s].run)
    BY DEF BillingInv, BillsInv, Billed
  <2> QED
    BY <2>1 DEF BillingInv, RunsInv, Claimed
<1> QED
  BY <1>1, BillingAlways, PTL

(* As long as nothing was discarded, a POSTED run has no DRAFT bill, also  *)
(* when several requests execute the run at the same time.                 *)
THEOREM PostedRunsComplete == Spec => []PostedRunIsComplete
<1>1. BillingInv => PostedRunIsComplete
  BY DEF BillingInv, RunsInv, PostedRunIsComplete
<1> QED
  BY <1>1, BillingAlways, PTL

(* One price list per run: when the generation is declared READY, every    *)
(* bill of the run has the pricing that is in force.                       *)
THEOREM ReadyAtOnePricing == Spec => ReadyAtCurrentPricing
<1> DEFINE OnePrice ==
        \A r \in Runs : run[r].gen = "GENERATING" /\ run'[r].gen = "READY"
                          => \A s \in BillsOf(r) : billOf[s].price = edits
<1>1. BillingInv /\ [Next]_vars => OnePrice
  <2> SUFFICES ASSUME BillingInv, [Next]_vars, NEW r \in Runs,
                      run[r].gen = "GENERATING", run'[r].gen = "READY",
                      NEW s \in BillsOf(r)
               PROVE  billOf[s].price = edits
    OBVIOUS
  <2>1. \E w \in Workers : FinalizeCreate(w) /\ req[w].run = r /\ StillGood(w)
    <3>1. ASSUME NEW w \in Workers, FinalizeCreate(w)
          PROVE  req[w].run = r /\ StillGood(w)
      <4>1. StillGood(w)
        BY <3>1 DEF FinalizeCreate
      <4>2. CASE req[w].run # r
        BY <3>1, <4>2 DEF FinalizeCreate, BillingInv, TypeOK
      <4> QED
        BY <4>1, <4>2
    <3>2. ASSUME NEW w \in Workers, NEW x \in Runs, Create(w, x) PROVE FALSE
      BY <3>2 DEF Create, BillingInv, TypeOK, Run
    <3>3. ASSUME NEW w \in Workers, Claim(w) PROVE FALSE
      <4>1. run[r] \in Run /\ run \in [Runs -> Run]
        BY DEF BillingInv, TypeOK
      <4> QED
        BY <3>3, <4>1 DEF Claim, Run
    <3>4. ASSUME NEW w \in Workers, FinalizePost(w) PROVE FALSE
      <4>1. run[r] \in Run /\ run \in [Runs -> Run]
        BY DEF BillingInv, TypeOK
      <4> QED
        BY <3>4, <4>1 DEF FinalizePost, Run
    <3>5. ASSUME NEW x \in Runs, Discard(x) PROVE FALSE
      <4>1. run[r] \in Run /\ run \in [Runs -> Run]
        BY DEF BillingInv, TypeOK
      <4> QED
        BY <3>5, <4>1 DEF Discard, Run
    <3>6. run' # run
      OBVIOUS
    <3> QED
      BY ZenonT(60), <3>1, <3>2, <3>3, <3>4, <3>5, <3>6
         DEF Next, RequestStep, StartBatch, Probe, Insert, DeadlockVictim, CommitBatch,
             ReadDrafts, RetryGenerate, PostOneBill, Crash, ReadRun, EditPricing,
             CompleteTask, CloseAccount, vars
  <2>2. PICK w \in Workers : FinalizeCreate(w) /\ req[w].run = r /\ StillGood(w)
    BY <2>1
  <2>3. PICK q \in Request : q = req[w] /\ Good(q)
    BY RequestIsGood
  <2>4. q.pc = "finalize" /\ q.run = r /\ q.ver = edits
    BY <2>2, <2>3 DEF FinalizeCreate, StillGood, PricingUnchanged
  <2> QED
    BY <2>3, <2>4 DEF Good, Creates
<1> QED
  BY <1>1, BillingAlways, PTL DEF Spec, ReadyAtCurrentPricing
-----------------------------------------------------------------------------
(* The bills of the runs in the terms of BillLife.                         *)
LEMMA BillsLiveOn == UNCHANGED billOf => UNCHANGED Life!lifeVars
  BY DEF Life!lifeVars

LEMMA BillsReach ==
    ASSUME NEW S \in SUBSET Settlements, NEW stage, NEW row,
           \A s \in S : row[s].status = stage /\ row[s].price \in Int,
           stage # "POSTED", BillingInv,
           billOf' = [s \in Settlements |-> IF s \in S THEN row[s] ELSE billOf[s]]
    PROVE  Life!Become(S, stage) /\ Life!Keep(Settlements \ S)
<1>1. billOf \in [Settlements -> Bill] /\ 0 .. MaxEdits \subseteq Int
  BY RunAssumption DEF BillingInv, TypeOK
<1>2. \A s \in Settlements : billOf'[s] = IF s \in S THEN row[s] ELSE billOf[s]
  OBVIOUS
<1>3. \A s \in Settlements : billOf'[s].price \in Int
  BY <1>1, <1>2 DEF Bill
<1>4. Life!Become(S, stage)
  BY <1>2 DEF Life!Become, StageOf
<1>5. Life!Keep(Settlements \ S)
  BY <1>2, <1>3 DEF Life!Keep
<1> QED BY <1>4, <1>5

LEMMA RunsLiveStep ==
    ASSUME BillingInv, [Next]_vars
    PROVE  Life!LifeNext \/ UNCHANGED Life!lifeVars
<1>0. /\ billOf \in [Settlements -> Bill] /\ edits \in Int /\ 0 .. MaxEdits \subseteq Int
      /\ \A s \in Settlements : billOf[s].status \in {"NONE", "DRAFT", "POSTED"}
  BY RunAssumption DEF BillingInv, TypeOK, Bill
<1>1. ASSUME NEW S \in SUBSET Settlements, NEW r, NEW price \in Int,
             \A s \in S : ~ Billed(s),
             billOf' = [s \in Settlements |-> IF s \in S THEN DraftBill(r, price) ELSE billOf[s]]
      PROVE  Life!LifeNext \/ UNCHANGED Life!lifeVars
  <2> DEFINE row == [s \in S |-> DraftBill(r, price)]
  <2>1. \A s \in S : row[s].status = "DRAFT" /\ row[s].price \in Int
    BY DEF DraftBill
  <2>2. billOf' = [s \in Settlements |-> IF s \in S THEN row[s] ELSE billOf[s]]
    BY <1>1
  <2> HIDE DEF row
  <2>3. Life!Become(S, "DRAFT") /\ Life!Keep(Settlements \ S)
    BY <2>1, <2>2, BillsReach
  <2>4. Life!Draft(S)
    BY <1>1, <2>3 DEF Life!Draft, Billed, StageOf
  <2> QED BY <2>4 DEF Life!LifeNext
<1>2. ASSUME NEW w \in Workers, CommitBatch(w) PROVE Life!LifeNext \/ UNCHANGED Life!lifeVars
  <2>1. PICK q \in Request : q = req[w] /\ Good(q)
    BY RequestIsGood
  <2>2. PICK S : S = IF q.aborted THEN {} ELSE q.open
    OBVIOUS
  <2>3. S \in SUBSET Settlements /\ q.ver \in Int /\ \A s \in S : ~ Billed(s)
    BY <1>0, <2>1, <2>2 DEF Request, Good
  <2>4. \A s \in Settlements : s \in S <=> s \in q.open /\ ~ q.aborted
    BY <2>1, <2>2 DEF Request
  <2>5. billOf' = [s \in Settlements |-> IF s \in S THEN DraftBill(q.run, q.ver) ELSE billOf[s]]
    BY <1>2, <2>1, <2>4 DEF CommitBatch
  <2> QED BY <1>1, <2>3, <2>5
<1>3. ASSUME NEW w \in Workers, NEW s \in Settlements, RetryGenerate(w, s)
      PROVE  Life!LifeNext \/ UNCHANGED Life!lifeVars
  <2>1. CASE UNCHANGED billOf
    BY <2>1, BillsLiveOn
  <2>2. CASE ~ UNCHANGED billOf
    <3>1. ~ Billed(s) /\ billOf' = [billOf EXCEPT ![s] = DraftBill(req[w].run, edits)]
      BY <1>3, <2>2 DEF RetryGenerate
    <3>2. PICK r : r = req[w].run
      OBVIOUS
    <3>3. PICK price \in Int : price = edits
      BY <1>0
    <3>4. PICK S \in SUBSET Settlements : S = {s}
      BY <1>3
    <3>5. billOf' = [t \in Settlements |->
                       IF t \in S THEN DraftBill(r, price) ELSE billOf[t]]
      BY <1>0, <3>1, <3>2, <3>3, <3>4
    <3>6. \A t \in S : ~ Billed(t)
      BY <3>1, <3>4
    <3> QED BY <1>1, <3>5, <3>6
  <2> QED BY <2>1, <2>2
<1>4. ASSUME NEW w \in Workers, NEW s \in Settlements, PostOneBill(w, s)
      PROVE  Life!LifeNext \/ UNCHANGED Life!lifeVars
  <2>1. CASE UNCHANGED billOf
    BY <2>1, BillsLiveOn
  <2>2. CASE ~ UNCHANGED billOf
    <3>1. billOf[s].status = "DRAFT" /\ billOf' = [billOf EXCEPT ![s].status = "POSTED"]
      BY <1>4, <2>2 DEF PostOneBill
    <3>2. /\ \A t \in Settlements : StageOf(billOf'[t].status)
                = IF t \in {s} THEN "STANDING" ELSE StageOf(billOf[t].status)
          /\ \A t \in Settlements : billOf'[t].price = billOf[t].price
      BY <1>0, <3>1 DEF StageOf, Bill
    <3>3. Life!Issue(s)
      BY <3>1, <3>2 DEF Life!Issue, Life!Become, StageOf
    <3> QED BY <3>3 DEF Life!LifeNext
  <2> QED BY <2>1, <2>2
<1>5. ASSUME NEW r \in Runs, Discard(r) PROVE Life!LifeNext \/ UNCHANGED Life!lifeVars
  <2>0. PICK S, row : S = DraftsOf(r) /\ row = [s \in S |-> NoBill]
    OBVIOUS
  <2>1. /\ S \in SUBSET Settlements /\ \A s \in S : row[s].status = "NONE" /\ row[s].price \in Int
        /\ billOf' = [s \in Settlements |-> IF s \in S THEN row[s] ELSE billOf[s]]
        /\ \A s \in S : billOf[s].status = "DRAFT"
    BY <1>5, <2>0 DEF Discard, DraftsOf, BillsOf, NoBill
  <2>2. Life!Become(S, "NONE") /\ Life!Keep(Settlements \ S)
    BY <2>1, BillsReach
  <2>3. Life!Drop(S)
    BY <2>1, <2>2 DEF Life!Drop, StageOf
  <2> QED BY <2>1, <2>3 DEF Life!LifeNext
<1>6. \/ UNCHANGED billOf \/ \E r \in Runs : Discard(r)
      \/ \E w \in Workers : \/ CommitBatch(w)
                            \/ \E s \in Settlements : RetryGenerate(w, s) \/ PostOneBill(w, s)
  BY DEF Next, RequestStep, vars, StartBatch, Probe, Insert, DeadlockVictim, FinalizeCreate,
         Claim, ReadDrafts, FinalizePost, Crash, Create, ReadRun, EditPricing, CompleteTask,
         CloseAccount
<1> QED BY <1>2, <1>3, <1>4, <1>5, <1>6, BillsLiveOn

(* Billing runs implement BillLife: no request drafts over a bill another  *)
(* has drafted or posted, no discard takes away a posted one, and a bill   *)
(* is posted at the price it was drafted with.                             *)
THEOREM RunsLive == Spec => RunsKeepBillLife
<1>1. Init => Life!LifeInit
  BY DEF Init, NoBill, Life!LifeInit, StageOf
<1>2. BillingInv /\ [Next]_vars => [Life!LifeNext]_Life!lifeVars
  BY RunsLiveStep
<1> QED
  BY <1>1, <1>2, BillingAlways, PTL DEF Spec, RunsKeepBillLife, Life!LifeSpec
-----------------------------------------------------------------------------
(* Settlements are lost to a run only in a batch that went on after its    *)
(* transaction was aborted, or by a discard.                               *)
Whole == discards = 0 /\ \A w \in Workers : ~ req[w].aborted

Passed(q) == {s \in Settlements : s < q.i}
Accounted ==
    /\ \A w \in Workers :
          /\ Creates(req[w]) => Passed(req[w]) \subseteq Resolved \cup req[w].failed \cup req[w].open
          /\ req[w].pc = "finalize" => Settlements = Passed(req[w])
    /\ \A r \in Runs :
          run[r].gen = "READY" => Settlements \subseteq Resolved \cup run[r].genFailed

LEMMA BilledStays ==
    ASSUME BillingInv, [Next]_vars, discards = 0, discards' = 0
    PROVE  Resolved \subseteq Resolved'
<1>1. \A r \in Runs : ~ Discard(r)
  BY DEF Discard
<1>2. ASSUME NEW s \in Settlements, billOf'[s] # billOf[s], Billed(s) PROVE Billed(s)'
  <2>1. \/ \E w \in Workers : CommitBatch(w)
        \/ \E w \in Workers, t \in Settlements : RetryGenerate(w, t) \/ PostOneBill(w, t)
    BY <1>1, <1>2 DEF Next, RequestStep, vars, StartBatch, Probe, Insert, DeadlockVictim,
       FinalizeCreate, Claim, ReadDrafts, FinalizePost, Crash, Create, ReadRun, EditPricing,
       CompleteTask, CloseAccount
  <2>2. billOf \in [Settlements -> Bill]
    BY DEF BillingInv, TypeOK
  <2>3. billOf'[s].status # "NONE"
    <3>1. ASSUME NEW w \in Workers, CommitBatch(w) PROVE billOf'[s].status # "NONE"
      BY <1>2, <3>1 DEF CommitBatch, DraftBill
    <3>2. ASSUME NEW w \in Workers, NEW t \in Settlements, RetryGenerate(w, t)
          PROVE  billOf'[s].status # "NONE"
      BY <1>2, <2>2, <3>2 DEF RetryGenerate, DraftBill
    <3>3. ASSUME NEW w \in Workers, NEW t \in Settlements, PostOneBill(w, t)
          PROVE  billOf'[s].status # "NONE"
      BY <1>2, <2>2, <3>3 DEF PostOneBill, Bill
    <3> QED BY <2>1, <3>1, <3>2, <3>3
  <2> QED BY <2>3 DEF Billed
<1>3. \A s \in Settlements : Billed(s) => Billed(s)'
  BY <1>2 DEF Billed
<1> QED BY <1>3 DEF Resolved

(* A request becomes p; what the READY runs account for is not affected.   *)
LEMMA AccountsGoOn ==
    ASSUME BillingInv, Accounted, NEW w \in Workers, NEW p,
           req' = [req EXCEPT ![w] = p], Resolved \subseteq Resolved',
           \A r \in Runs : run'[r].gen = run[r].gen /\ run'[r].genFailed = run[r].genFailed,
           Creates(p) => Passed(p) \subseteq Resolved' \cup p.failed \cup p.open,
           p.pc = "finalize" => Settlements = Passed(p)
    PROVE  Accounted'
<1>1. req'[w] = p /\ \A v \in Workers \ {w} : req'[v] = req[v]
  BY DEF BillingInv, TypeOK
<1>2. ASSUME NEW v \in Workers
      PROVE  /\ Creates(req'[v]) => Passed(req'[v])
                                      \subseteq Resolved' \cup req'[v].failed \cup req'[v].open
             /\ req'[v].pc = "finalize" => Settlements = Passed(req'[v])
  BY <1>1 DEF Accounted
<1>3. \A v \in Workers : /\ Creates(req[v])' = Creates(req'[v])
                         /\ Passed(req[v])' = Passed(req'[v])
  BY DEF Creates, Passed
<1>4. \A r \in Runs :
         run'[r].gen = "READY" => Settlements \subseteq Resolved' \cup run'[r].genFailed
  BY DEF Accounted
<1> QED BY <1>2, <1>3, <1>4 DEF Accounted

LEMMA AccountedStep ==
    ASSUME BillingInv, Accounted, Whole, Whole', [Next]_vars
    PROVE  Accounted'
<1>0. Resolved \subseteq Resolved'
  BY BilledStays DEF Whole
<1>1. /\ \A w \in Workers : req[w] \in Request /\ ~ req[w].aborted /\ ~ req'[w].aborted
      /\ billOf \in [Settlements -> Bill] /\ run \in [Runs -> Run]
      /\ req \in [Workers -> Request]
  BY DEF Whole, BillingInv, TypeOK
<1>2. ~ Creates(Idle) /\ Idle.pc # "finalize" /\ Idle.i = 1 /\ Passed(Idle) = {}
  BY RunAssumption DEF Idle, Creates, Passed, Settlements
(* A request that no longer creates, or never did.                         *)
<1>3. ASSUME NEW w \in Workers, NEW p, req' = [req EXCEPT ![w] = p], ~ Creates(p),
             \A r \in Runs : run'[r].gen = run[r].gen /\ run'[r].genFailed = run[r].genFailed
      PROVE  Accounted'
  BY <1>0, <1>3, AccountsGoOn DEF Creates
<1>4. ASSUME NEW w \in Workers, Crash(w) \/ DeadlockVictim(w) PROVE Accounted'
  BY <1>2, <1>3, <1>4 DEF Crash, DeadlockVictim
<1>5. ASSUME NEW w \in Workers, NEW r \in Runs, Create(w, r) PROVE Accounted'
  <2>1. PICK p : p = [Idle EXCEPT !.pc = "batch", !.run = r, !.ver = edits, !.prices = priced]
    OBVIOUS
  <2>2. req' = [req EXCEPT ![w] = p] /\ p.pc = "batch" /\ Passed(p) = {}
    BY <1>2, <1>5, <2>1 DEF Create, Idle, Passed
  <2>3. \A x \in Runs : run'[x].gen = run[x].gen /\ run'[x].genFailed = run[x].genFailed
    BY <1>1, <1>5 DEF Create, Run
  <2> QED BY <1>0, <2>2, <2>3, AccountsGoOn
<1>6. ASSUME NEW w \in Workers, StartBatch(w) PROVE Accounted'
  <2>1. UNCHANGED run
    BY <1>6 DEF StartBatch
  <2>2. CASE ~ StillGood(w)
    BY <1>2, <1>3, <1>6, <2>1, <2>2 DEF StartBatch
  <2>3. CASE StillGood(w)
    <3>1. PICK p : p = [req[w] EXCEPT !.pc = "probe", !.blk = blocked]
      OBVIOUS
    <3>2. /\ req' = [req EXCEPT ![w] = p] /\ p.pc = "probe" /\ p.i = req[w].i
          /\ p.failed = req[w].failed /\ p.open = req[w].open /\ Creates(req[w])
      BY <1>1, <1>6, <2>3, <3>1 DEF StartBatch, Request, Creates
    <3>3. Passed(p) = Passed(req[w])
      BY <3>2 DEF Passed
    <3>4. Passed(req[w]) \subseteq Resolved \cup req[w].failed \cup req[w].open
      BY <3>2 DEF Accounted
    <3> QED BY <1>0, <2>1, <3>2, <3>3, <3>4, AccountsGoOn
  <2> QED BY <2>2, <2>3
(* One settlement further: it is resolved, failed or open.                 *)
<1>7. ASSUME NEW w \in Workers, NEW q \in Request, req' = [req EXCEPT ![w] = Advance(q)],
             q.i = req[w].i, q.i \in Settlements, Creates(req[w]), UNCHANGED run,
             req[w].failed \subseteq q.failed, req[w].open \subseteq q.open,
             q.i \in Resolved \cup q.failed \cup q.open
      PROVE  Accounted'
  <2>1. PICK p \in Request : p = Advance(q) /\ p.pc \in {"commit", "probe"}
    BY <1>7, Advanced
  <2>2. p.i = q.i + 1 /\ p.failed = q.failed /\ p.open = q.open
    BY <2>1 DEF Advance, Request
  <2>3. Passed(p) = Passed(req[w]) \cup {q.i}
    <3>1. \A s \in Settlements : s \in Int /\ q.i \in Int
      BY <1>7, RunAssumption DEF Settlements
    <3> QED BY <1>7, <2>2, <3>1 DEF Passed
  <2>4. Passed(req[w]) \subseteq Resolved \cup req[w].failed \cup req[w].open
    BY <1>7 DEF Accounted
  <2>5. Passed(p) \subseteq Resolved' \cup p.failed \cup p.open
    BY <1>0, <1>7, <2>2, <2>3, <2>4
  <2> QED BY <1>0, <1>7, <2>1, <2>5, AccountsGoOn
<1>8. \A w \in Workers : req[w].pc \in {"probe", "insert"} =>
                            req[w].i \in Settlements /\ Creates(req[w])
  BY RequestIsGood DEF Good, Creates
<1>9. ASSUME NEW w \in Workers, Probe(w) PROVE Accounted'
  <2>1. PICK q \in Request : q = req[w] /\ q.i \in Settlements /\ Creates(q) /\ UNCHANGED run
    BY <1>1, <1>8, <1>9 DEF Probe
  <2>2. PICK qf : qf = [q EXCEPT !.failed = @ \cup {q.i}]
    OBVIOUS
  <2>3. /\ qf \in Request /\ qf.i = q.i /\ qf.open = q.open /\ qf.failed = q.failed \cup {q.i}
    BY <2>1, <2>2 DEF Request
  <2>4. PICK qs : qs = [q EXCEPT !.skipped = @ + 1]
    OBVIOUS
  <2>5. qs \in Request /\ qs.i = q.i /\ qs.open = q.open /\ qs.failed = q.failed
    BY <2>4 DEF Request
  <2>6. PICK qi : qi = [q EXCEPT !.pc = "insert"]
    OBVIOUS
  <2>7. qi.i = q.i /\ qi.open = q.open /\ qi.failed = q.failed /\ qi.pc = "insert"
    BY <2>6 DEF Request
  <2>8. \/ req' = [req EXCEPT ![w] = Advance(qf)]
        \/ q.i \in Monitoring /\ req' = [req EXCEPT ![w] = Advance(qs)]
        \/ Billed(q.i) /\ req' = [req EXCEPT ![w] = Advance(q)]
        \/ req' = [req EXCEPT ![w] = qi]
    BY <1>1, <1>9, <2>1, <2>2, <2>4, <2>6 DEF Probe
  <2>9. CASE req' = [req EXCEPT ![w] = Advance(qf)]
    BY <1>7, <2>1, <2>3, <2>9
  <2>10. CASE q.i \in Monitoring /\ req' = [req EXCEPT ![w] = Advance(qs)]
    BY <1>7, <2>1, <2>5, <2>10 DEF Resolved
  <2>11. CASE Billed(q.i) /\ req' = [req EXCEPT ![w] = Advance(q)]
    BY <1>7, <2>1, <2>11 DEF Resolved
  <2>12. CASE req' = [req EXCEPT ![w] = qi]
    <3>1. Passed(qi) = Passed(q)
      BY <2>7 DEF Passed
    <3>2. Passed(q) \subseteq Resolved \cup q.failed \cup q.open
      BY <2>1 DEF Accounted
    <3> QED BY <1>0, <2>1, <2>7, <2>12, <3>1, <3>2, AccountsGoOn
  <2> QED BY <2>8, <2>9, <2>10, <2>11, <2>12
<1>10. ASSUME NEW w \in Workers, Insert(w) PROVE Accounted'
  <2>1. PICK q \in Request : q = req[w] /\ q.i \in Settlements /\ Creates(q) /\ UNCHANGED run
    BY <1>1, <1>8, <1>10 DEF Insert
  <2>2. PICK lk : lk = [q EXCEPT !.plans = @ \cup {PlanOf[q.i]}]
    OBVIOUS
  <2>3. PICK qa : qa = [lk EXCEPT !.aborted = TRUE]
    OBVIOUS
  <2>4. PICK qo : qo = [lk EXCEPT !.open = @ \cup {q.i}]
    OBVIOUS
  <2>5. PlanOf[q.i] \in Plans
    BY <2>1, RunAssumption DEF Settlements
  <2>6. lk \in Request /\ lk.i = q.i /\ lk.failed = q.failed /\ lk.open = q.open
    BY <2>2, <2>5 DEF Request
  <2>7. /\ qa \in Request /\ qa.i = q.i /\ qa.failed = q.failed /\ qa.open = q.open
        /\ qo \in Request /\ qo.i = q.i /\ qo.failed = q.failed /\ qo.open = q.open \cup {q.i}
    BY <2>1, <2>3, <2>4, <2>6 DEF Request
  <2>8. \/ Billed(q.i) /\ req' = [req EXCEPT ![w] = Advance(qa)]
        \/ req' = [req EXCEPT ![w] = Advance(qo)]
    BY <1>10, <2>1, <2>2, <2>3, <2>4 DEF Insert
  <2> QED BY <1>7, <2>1, <2>7, <2>8 DEF Resolved
<1>11. ASSUME NEW w \in Workers, CommitBatch(w) PROVE Accounted'
  <2>1. PICK q \in Request : q = req[w] /\ ~ q.aborted /\ q.pc = "commit" /\ UNCHANGED run
    BY <1>1, <1>11 DEF CommitBatch
  <2>2. PICK p : p = [q EXCEPT !.pc = IF q.i > NumSettlements THEN "finalize" ELSE "batch",
                               !.open = {}, !.plans = {}, !.aborted = FALSE]
    OBVIOUS
  <2>3. /\ req' = [req EXCEPT ![w] = p] /\ p.i = q.i /\ p.failed = q.failed /\ p.open = {}
        /\ p.pc = "finalize" => q.i > NumSettlements
    BY <1>11, <2>1, <2>2 DEF CommitBatch, Request
  <2>4. \A s \in q.open : s \in Settlements /\ Billed(s)'
    BY <1>11, <2>1 DEF CommitBatch, DraftBill, Billed, Request
  <2>5. Passed(q) \subseteq Resolved \cup q.failed \cup q.open
    BY <2>1 DEF Accounted, Creates
  <2>6. Passed(p) = Passed(q) /\ q.open \subseteq Resolved'
    BY <2>3, <2>4 DEF Passed, Resolved
  <2>7. p.pc = "finalize" => Settlements = Passed(p)
    <3>1. q.i \in Int /\ NumSettlements \in Int /\ \A s \in Settlements : s \in Int /\ s <= NumSettlements
      BY RunAssumption DEF Request, Settlements
    <3> QED BY <2>3, <3>1 DEF Passed
  <2> QED BY <1>0, <2>1, <2>3, <2>5, <2>6, <2>7, AccountsGoOn
(* The generation is declared READY with what the request has recorded.    *)
<1>12. ASSUME NEW w \in Workers, FinalizeCreate(w) PROVE Accounted'
  <2>1. PICK q \in Request : q = req[w] /\ q.pc = "finalize" /\ Good(q)
    BY <1>12, RequestIsGood DEF FinalizeCreate
  <2>2. req' = [req EXCEPT ![w] = Idle] /\ q.run \in Runs /\ q.open = {}
    BY <1>12, <2>1 DEF FinalizeCreate, Good, InSlice
  <2>3. Settlements \subseteq Resolved \cup q.failed
    BY <2>1, <2>2 DEF Accounted, Creates
  <2>4. \A r \in Runs : \/ run'[r].gen = run[r].gen /\ run'[r].genFailed = run[r].genFailed
                        \/ run'[r].genFailed = q.failed
    BY <1>1, <1>12, <2>1, <2>2 DEF FinalizeCreate, Run
  <2>5. \A r \in Runs : run'[r].gen = "READY" => Settlements \subseteq Resolved' \cup run'[r].genFailed
    BY <1>0, <2>3, <2>4 DEF Accounted
  <2>6. \A v \in Workers : req'[v] = Idle \/ req'[v] = req[v]
    BY <1>1, <2>2
  <2>7. \A v \in Workers : /\ Creates(req[v])' = Creates(req'[v])
                           /\ Passed(req[v])' = Passed(req'[v])
    BY DEF Creates, Passed
  <2> QED BY <1>0, <1>2, <2>5, <2>6, <2>7 DEF Accounted
(* Executing a run keeps what it accounts for: what is not recorded as     *)
(* failed any more has been billed or is never billed.                     *)
<1>13. ASSUME NEW w \in Workers, FinalizePost(w) PROVE Accounted'
  <2>1. PICK q \in Request : q = req[w] /\ q.pc = "stageB" /\ Good(q)
    BY <1>13, RequestIsGood DEF FinalizePost
  <2>2. req' = [req EXCEPT ![w] = Idle] /\ q.run \in Runs /\ UNCHANGED billOf
    BY <1>13, <2>1 DEF FinalizePost, Good
  <2>3. /\ q.failed \ Resolved = run[q.run].genFailed \ Resolved
        /\ run[q.run].gen = "READY"
    BY <2>1 DEF Good, Unresolved, Executes, Whole
  <2>4. \A r \in Runs : \/ run'[r].gen = run[r].gen /\ run'[r].genFailed = run[r].genFailed
                        \/ r = q.run /\ run'[r].genFailed = q.failed
    BY <1>1, <1>13, <2>1, <2>2 DEF FinalizePost, Run
  <2>5. \A r \in Runs : run'[r].gen = "READY" => Settlements \subseteq Resolved' \cup run'[r].genFailed
    BY <1>0, <2>3, <2>4 DEF Accounted
  <2>6. \A v \in Workers : req'[v] = Idle \/ req'[v] = req[v]
    BY <1>1, <2>2
  <2>7. \A v \in Workers : /\ Creates(req[v])' = Creates(req'[v])
                           /\ Passed(req[v])' = Passed(req'[v])
    BY DEF Creates, Passed
  <2> QED BY <1>0, <1>2, <2>5, <2>6, <2>7 DEF Accounted
<1>14. ASSUME NEW w \in Workers,
              \/ \E r \in Runs, f \in {PostFrom, RetryFrom} : ReadRun(w, r, f)
              \/ Claim(w) \/ ReadDrafts(w)
              \/ \E s \in Settlements : RetryGenerate(w, s) \/ PostOneBill(w, s)
       PROVE  Accounted'
  <2>1. \A r \in Runs : run'[r].gen = run[r].gen /\ run'[r].genFailed = run[r].genFailed
    <3>1. UNCHANGED run \/ Claim(w)
      BY <1>14 DEF ReadRun, ReadDrafts, RetryGenerate, PostOneBill
    <3>2. CASE Claim(w)
      BY <1>1, <3>2 DEF Claim, Run
    <3> QED BY <3>1, <3>2
  <2>2. \E p : req' = [req EXCEPT ![w] = p] /\ ~ Creates(p)
    <3>1. req[w] \in Request
      BY <1>1
    <3>2. ASSUME NEW r \in Runs, NEW f, ReadRun(w, r, f)
          PROVE  \E p : req' = [req EXCEPT ![w] = p] /\ ~ Creates(p)
      <4>1. PICK p : p = [Idle EXCEPT !.pc = "claim", !.run = r, !.from = f,
                                      !.todo = run[r].genFailed, !.total = run[r].total]
        OBVIOUS
      <4>2. req' = [req EXCEPT ![w] = p]
        BY <3>2, <4>1 DEF ReadRun
      <4>3. p.pc = "claim"
        BY <4>1 DEF Idle
      <4> QED BY <4>2, <4>3 DEF Creates
    <3>3. CASE Claim(w)
      <4>1. PICK p : p = [req[w] EXCEPT !.pc = "stageA", !.from = {}]
        OBVIOUS
      <4>2. req' = [req EXCEPT ![w] = p] \/ req' = [req EXCEPT ![w] = Idle]
        BY <3>3, <4>1 DEF Claim
      <4>3. p.pc = "stageA"
        BY <3>1, <4>1 DEF Request
      <4>4. ~ Creates(p)
        BY <4>3 DEF Creates
      <4> QED BY <1>2, <4>2, <4>4
    <3>4. CASE ReadDrafts(w)
      <4>1. PICK p : p = [req[w] EXCEPT !.pc = "stageB", !.todo = DraftsOf(req[w].run)]
        OBVIOUS
      <4>2. req' = [req EXCEPT ![w] = p]
        BY <3>4, <4>1 DEF ReadDrafts
      <4>3. p.pc = "stageB"
        BY <3>1, <4>1 DEF Request
      <4> QED BY <4>2, <4>3 DEF Creates
    <3>5. ASSUME NEW s \in Settlements, RetryGenerate(w, s)
          PROVE  \E p : req' = [req EXCEPT ![w] = p] /\ ~ Creates(p)
      <4>1. PICK done : done = [req[w] EXCEPT !.todo = @ \ {s}]
        OBVIOUS
      <4>2. PICK lost : lost = [done EXCEPT !.failed = @ \cup {s}]
        OBVIOUS
      <4>3. req' = [req EXCEPT ![w] = done] \/ req' = [req EXCEPT ![w] = lost]
        BY <3>5, <4>1, <4>2 DEF RetryGenerate
      <4>4. done.pc = "stageA" /\ lost.pc = "stageA"
        BY <3>1, <3>5, <4>1, <4>2 DEF RetryGenerate, Request
      <4>5. ~ Creates(done) /\ ~ Creates(lost)
        BY <4>4 DEF Creates
      <4> QED BY <4>3, <4>5
    <3>6. ASSUME NEW s \in Settlements, PostOneBill(w, s)
          PROVE  \E p : req' = [req EXCEPT ![w] = p] /\ ~ Creates(p)
      <4>1. PICK p : p = [req[w] EXCEPT !.todo = @ \ {s}]
        OBVIOUS
      <4>2. req' = [req EXCEPT ![w] = p]
        BY <3>1, <3>6, <4>1 DEF PostOneBill
      <4>3. p.pc = "stageB"
        BY <3>1, <3>6, <4>1 DEF PostOneBill, Request
      <4> QED BY <4>2, <4>3 DEF Creates
    <3> QED BY <1>14, <3>2, <3>3, <3>4, <3>5, <3>6
  <2> QED BY <1>3, <2>1, <2>2
<1>15. ASSUME UNCHANGED <<run, req>> PROVE Accounted'
  <2>1. \A v \in Workers : Creates(req[v])' = Creates(req[v]) /\ Passed(req[v])' = Passed(req[v])
    BY <1>15 DEF Creates, Passed
  <2> QED BY <1>0, <1>15, <2>1 DEF Accounted
<1>16. /\ \A r \in Runs : ~ Discard(r)
       /\ \A s \in Settlements : EditPricing(s) \/ CompleteTask(s) \/ CloseAccount(s)
                                   => UNCHANGED <<run, req>>
       /\ UNCHANGED vars => UNCHANGED <<run, req>>
  BY DEF Whole, Discard, EditPricing, CompleteTask, CloseAccount, vars
<1> QED
  BY <1>4, <1>5, <1>6, <1>9, <1>10, <1>11, <1>12, <1>13, <1>14, <1>15, <1>16 DEF Next, RequestStep

(* As long as no batch runs into a bill of another run and no run is       *)
(* discarded, a READY run accounts for every settlement of its period, by  *)
(* a bill or a recorded failure, however it is created and retried: the    *)
(* batch that goes on after a unique violation is all that loses one.      *)
THEOREM OnlyAbortsLose == Spec /\ []Whole => []EverySettlementAccounted
<1>1. Init => Accounted
  <2> SUFFICES ASSUME Init PROVE Accounted
    OBVIOUS
  <2>1. \A w \in Workers : req[w] = Idle
    BY DEF Init
  <2>2. ~ Creates(Idle) /\ Idle.pc # "finalize"
    BY DEF Creates, Idle
  <2>3. \A r \in Runs : run[r].gen # "READY"
    BY DEF Init
  <2> QED BY <2>1, <2>2, <2>3 DEF Accounted
<1>2. BillingInv /\ Accounted /\ Whole /\ Whole' /\ [Next]_vars => Accounted'
  BY AccountedStep
<1>3. Accounted => EverySettlementAccounted
  BY DEF Accounted, EverySettlementAccounted, Resolved
<1> QED
  BY <1>1, <1>2, <1>3, BillingAlways, PTL DEF Spec
=============================================================================
