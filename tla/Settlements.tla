----------------------------- MODULE Settlements -----------------------------
(***************************************************************************)
(* From dial readings to settled water: the readings of one account, their *)
(* quality check and correction (MeterReadingService), the settlements of  *)
(* its periods (SettlementService), the usage side of reconciliation       *)
(* (ReconciliationService), and the SUPPLEMENT task that blocks settling   *)
(* and billing while an estimate stands above the dial.                    *)
(*                                                                         *)
(* The account has meter 1, and meter 2 after an exchange.  A meter's dial *)
(* shows 0 .. MaxDial - 1 and starts at 0.  Readings are dated in the      *)
(* period they are for, so the order of dates is that of periods.          *)
(***************************************************************************)
EXTENDS Sums, FiniteSetsExt

CONSTANTS LastPeriod,   \* bound: the periods are 1 .. LastPeriod
          MaxDial,      \* meter.max_dial
          MaxEstimate,  \* bound: largest estimated usage
          Scopes,       \* bounds: the last period of a behaviour, the periods
                        \* whose reading may be corrected once, those in
                        \* which the meter is exchanged, and its clerks
          Clerks        \* the settlement requests that may be under way

ASSUME SettlementsAssumption ==
    /\ LastPeriod \in Nat \ {0} /\ MaxDial \in Nat \ {0}
    /\ MaxEstimate \in Nat
    /\ Scopes \subseteq [last : 1 .. LastPeriod, clerks : SUBSET Clerks,
                          corrected : SUBSET (1 .. LastPeriod),
                          exchanged : SUBSET (1 .. LastPeriod)]

VARIABLES scope,    \* the bounds of this behaviour
          reading,  \* reading[p]: the newest reading of the period's item
          swap,     \* the period of the meter exchange (0: none), final dial
          settled,  \* settled[p]: the settlement of the period
          billed,   \* the periods whose bill is posted
          shift,    \* shift[p]: usage the latest adjustment moved the bill by
          recon,    \* recon[p][v]: outcome of reconciling revision v of p
          task,     \* the period of the open SUPPLEMENT task, 0 if none
          draft,    \* draft[k]: the generation that clerk k has under way
          orderly   \* every fact so far was used in the order of the periods
dialVars == <<scope, reading, swap, settled, billed, shift, recon, task, draft, orderly>>

Periods == 1 .. LastPeriod
Dial == 0 .. MaxDial - 1
Meters == 1 .. 2
Revisions == 0 .. 1
Outcomes == {"NONE", "APPLIED", "ABSORBED", "MANUAL_REVIEW"}

NoReading == [meter |-> 1, dial |-> 0, qc |-> "NONE", rev |-> 0]
NoPart == [prev |-> 0, end |-> 0, usage |-> 0, source |-> "NONE", rev |-> 0]
NoSettlement == [status |-> "NONE", part |-> [m \in Meters |-> NoPart]]
NoDraft == [at |-> "none"]

DialInit ==
    /\ scope \in Scopes
    /\ reading = [p \in Periods |-> NoReading]
    /\ swap = [period |-> 0, final |-> 0]
    /\ settled = [p \in Periods |-> NoSettlement]
    /\ billed = {}
    /\ shift = [p \in Periods |-> 0]
    /\ recon = [p \in Periods |-> [v \in Revisions |-> "NONE"]]
    /\ task = 0
    /\ draft = [k \in Clerks |-> NoDraft]
    /\ orderly = TRUE

Total(p) == settled[p].part[1].usage + settled[p].part[2].usage
Charged(p) == Total(p) + shift[p]
IsSettled(p) == settled[p].status # "NONE"
Sourced(p, m) == settled[p].part[m].source # "NONE"

(* An ACTUAL reading that passed the check and was not superseded.         *)
Trusted(p) == reading[p].qc = "PASSED"
ActiveMeter == IF swap.period = 0 THEN 1 ELSE 2
-----------------------------------------------------------------------------
(* prevChain: where the period starts on a meter.  It is the end of the    *)
(* latest earlier part, unless a reading that an APPLIED reconciliation    *)
(* used is at least as late.                                               *)
Initial == [dial |-> 0, source |-> "NONE", period |-> 0]
PartsBefore(p, m) == {q \in 1 .. p - 1 : IsSettled(q) /\ Sourced(q, m)}
LastPart(p, m) ==
    IF PartsBefore(p, m) = {} THEN Initial
    ELSE LET q == Max(PartsBefore(p, m))
         IN  [dial |-> settled[q].part[m].end,
              source |-> settled[q].part[m].source, period |-> q]

Reconciled(p, m) ==
    {q \in 1 .. p : /\ Trusted(q) /\ reading[q].meter = m
                    /\ recon[q][reading[q].rev] = "APPLIED"}

(* In its own period a reading replaces an estimate, and a part that was   *)
(* taken from a reading superseded since.                                  *)
Replaces(q, prior) ==
    \/ q > prior.period
    \/ /\ q = prior.period
       /\ LET part == settled[q].part[reading[q].meter]
          IN  part.source = "ESTIMATE"
                \/ (part.source = "READING" /\ part.rev < reading[q].rev)

StartOf(p, m) ==
    LET prior == LastPart(p, m)
        known == Reconciled(p, m)
    IN  IF known # {} /\ Replaces(Max(known), prior)
        THEN [dial |-> reading[Max(known)].dial, source |-> "READING",
              period |-> Max(known)]
        ELSE prior
-----------------------------------------------------------------------------
(* The meters whose lifetime meets the period, and the dial at its end: on *)
(* a removed meter the final reading, else the trusted reading.            *)
MetersIn(p) == {m \in Meters : IF m = 1 THEN swap.period = 0 \/ p <= swap.period
                               ELSE swap.period # 0 /\ p >= swap.period}
Removed(p, m) == m = 1 /\ swap.period = p
HasDial(p, m) == Removed(p, m) \/ (Trusted(p) /\ reading[p].meter = m)
EndDial(p, m) == IF Removed(p, m) THEN swap.final ELSE reading[p].dial
AwaitsCheck(p, m) == reading[p].qc = "PENDING" /\ reading[p].meter = m

(* A reading below an estimated start is no rollover of the dial.          *)
OverEstimated(p) ==
    \E m \in MetersIn(p) : /\ HasDial(p, m)
                           /\ StartOf(p, m).source = "ESTIMATE"
                           /\ EndDial(p, m) < StartOf(p, m).dial

(* usageFromDial; a start above the dial's range is refused.               *)
Measurable(p, m) == /\ StartOf(p, m).dial <= MaxDial
                    \/ EndDial(p, m) >= StartOf(p, m).dial
DialUsage(prev, end) == IF end < prev THEN MaxDial - prev + end ELSE end - prev

(* The parts of a settlement.  e[m] is the estimate for a meter without a  *)
(* dial reading: the operator's, the reader's or the average of three.     *)
Parts(p, e) ==
    [m \in Meters |->
       LET prev == StartOf(p, m).dial
       IN  IF m \notin MetersIn(p) THEN NoPart
           ELSE IF HasDial(p, m)
           THEN [prev |-> prev, end |-> EndDial(p, m),
                 usage |-> DialUsage(prev, EndDial(p, m)), source |-> "READING",
                 rev |-> IF Removed(p, m) THEN 1 ELSE reading[p].rev]
           ELSE [prev |-> prev, end |-> prev + e[m], usage |-> e[m],
                 source |-> "ESTIMATE", rev |-> 0]]

UnchangedFacts == UNCHANGED <<scope, reading, swap>>
UnchangedMoney == UNCHANGED <<settled, billed, shift, recon>>
Keep(k, d) == draft' = [draft EXCEPT ![k] = d]

(* generateTx up to its decision: not settled yet, no blocking task, no    *)
(* reading that still waits for its check.  An over-estimate opens a task  *)
(* in a transaction of its own (createTaskStandalone) and looks again.     *)
StartGenerate(k, p) ==
    /\ draft[k] = NoDraft
    /\ ~ IsSettled(p) /\ task = 0
    /\ \A m \in MetersIn(p) : HasDial(p, m) \/ ~ AwaitsCheck(p, m)
    /\ IF OverEstimated(p)
       THEN /\ task' = p
            /\ Keep(k, [at |-> "recheck", period |-> p])
       ELSE /\ \A m \in MetersIn(p) : HasDial(p, m) => Measurable(p, m)
            /\ \E e \in [Meters -> 0 .. MaxEstimate] :
                 /\ \A m \in Meters : m \notin MetersIn(p) \/ HasDial(p, m) => e[m] = 0
                 /\ Keep(k, [at |-> "write", period |-> p, part |-> Parts(p, e)])
            /\ UNCHANGED task
    /\ UnchangedFacts /\ UnchangedMoney /\ UNCHANGED orderly

(* throwIfBlockedByTask after the task was made: it refuses while the task *)
(* is open, and goes on when somebody has closed it in between.            *)
Recheck(k) ==
    /\ draft[k].at = "recheck"
    /\ LET p == draft[k].period
       IN  IF task = 0 /\ \A m \in MetersIn(p) : HasDial(p, m) /\ Measurable(p, m)
           THEN /\ Keep(k, [at |-> "write", period |-> p,
                            part |-> Parts(p, [m \in Meters |-> 0])])
           ELSE Keep(k, NoDraft)
    /\ UnchangedFacts /\ UnchangedMoney /\ UNCHANGED <<task, orderly>>

(* A settlement in its order: no later period is settled, every earlier    *)
(* one is, and the starts it was computed from are still those.            *)
InOrder(p, part) ==
    /\ \A q \in Periods : IsSettled(q) <=> q < p
    /\ ~ OverEstimated(p)
    /\ \A m \in MetersIn(p) : part[m].prev = StartOf(p, m).dial

(* The insert; the unique index (account, period) refuses a second one.    *)
NotTaken(k) == ~ IsSettled(draft[k].period)
WriteSettlement(k) ==
    /\ draft[k].at = "write"
    /\ Keep(k, NoDraft)
    /\ LET p == draft[k].period
       IN  IF NotTaken(k)
           THEN /\ settled' = [settled EXCEPT ![p] =
                                 [status |-> "DRAFT", part |-> draft[k].part]]
                /\ orderly' = (orderly /\ InOrder(p, draft[k].part))
           ELSE UNCHANGED <<settled, orderly>>
    /\ UnchangedFacts /\ UNCHANGED <<billed, shift, recon, task>>

Finalize(p) ==
    /\ settled[p].status = "DRAFT"
    /\ settled' = [settled EXCEPT ![p].status = "FINAL"]
    /\ UnchangedFacts /\ UNCHANGED <<billed, shift, recon, task, draft, orderly>>

(* A billing run takes the FINAL settlements, and leaves out an account    *)
(* with an open SUPPLEMENT task.                                           *)
Billable(p) == settled[p].status = "FINAL"
BillPeriod(p) ==
    /\ Billable(p) /\ p \notin billed /\ task = 0
    /\ billed' = billed \cup {p}
    /\ UnchangedFacts /\ UNCHANGED <<settled, shift, recon, task, draft, orderly>>
-----------------------------------------------------------------------------
(* Readings.  An open task keeps its period: a second one is not made.     *)
OpenTask(p) == IF task = 0 THEN p ELSE task

Enter(p, d) ==
    /\ reading[p].qc = "NONE"
    /\ reading' = [reading EXCEPT ![p] =
                     [meter |-> ActiveMeter, dial |-> d, qc |-> "PENDING", rev |-> 0]]
    /\ UnchangedMoney /\ UNCHANGED <<scope, swap, task, draft, orderly>>

(* qcTx: a pass compares the dial with the latest estimated end before it. *)
Check(p, verdict) ==
    /\ reading[p].qc = "PENDING"
    /\ reading' = [reading EXCEPT ![p].qc = verdict]
    /\ LET cp == LastPart(p, reading[p].meter)
       IN  task' = IF verdict = "PASSED" /\ cp.source = "ESTIMATE"
                      /\ reading[p].dial < cp.dial
                   THEN OpenTask(p) ELSE task
    /\ UnchangedMoney /\ UNCHANGED <<scope, swap, draft, orderly>>

(* supersedeTx: a new row that starts unchecked; after billing, a task.    *)
Correct(p, d) ==
    /\ reading[p].qc # "NONE" /\ p \in scope.corrected /\ reading[p].rev = 0
    /\ reading' = [reading EXCEPT ![p].dial = d, ![p].qc = "PENDING", ![p].rev = @ + 1]
    /\ task' = IF p \in billed THEN OpenTask(p) ELSE task
    /\ orderly' = /\ orderly /\ ~ IsSettled(p) /\ recon[p][0] # "APPLIED"
                  /\ \A k \in Clerks : draft[k] = NoDraft \/ draft[k].period # p
    /\ UnchangedMoney /\ UNCHANGED <<scope, swap, draft>>

(* replaceTx; assertRemovableTx refuses a settled or billed period.        *)
ExchangeMeter(p, d) ==
    /\ swap.period = 0 /\ p \in scope.exchanged
    /\ settled[p].status # "FINAL"
    /\ swap' = [period |-> p, final |-> d]
    /\ orderly' = /\ orderly /\ \A k \in Clerks : draft[k] = NoDraft
                  /\ \A q \in p .. LastPeriod : ~ IsSettled(q) /\ reading[q].qc = "NONE"
    /\ UnchangedMoney /\ UNCHANGED <<scope, reading, task, draft>>

(* cancel, and complete after assertDoneStandard.                          *)
CloseTask ==
    /\ task # 0
    /\ task' = 0
    /\ UnchangedFacts /\ UnchangedMoney /\ UNCHANGED <<draft, orderly>>
-----------------------------------------------------------------------------
(* createTx of a reconciliation: from the anchor, the trusted reading next *)
(* before, to the actual one; the span is what is settled in between.      *)
Anchors(p) == {q \in 1 .. p - 1 : Trusted(q)}
Span(a, p) == {q \in a + 1 .. p : IsSettled(q)}
SumOver(S, f) == SumTo([q \in Periods |-> IF q \in S THEN f[q] ELSE 0], LastPeriod)
(* The usage that is final (the faulty variant counts the draft as well).  *)
DraftsToo(S) == SumOver(S, [q \in Periods |-> Total(q)])
SettledUsage(S) ==
    SumOver({q \in S : settled[q].status = "FINAL"}, [q \in Periods |-> Total(q)])

Record(p, outcome) == recon' = [recon EXCEPT ![p][reading[p].rev] = outcome]

Park(p) ==
    /\ Record(p, "MANUAL_REVIEW")
    /\ UNCHANGED <<settled, shift, task, orderly>>

(* The dial facts a reconciliation relies on were themselves settled.      *)
Consumed(q) == LET part == settled[q].part[reading[q].meter]
               IN  IsSettled(q) /\ part.source = "READING" /\ part.end = reading[q].dial
UsedInOrder(a, p) ==
    /\ \A q \in p + 1 .. LastPeriod :
          ~ IsSettled(q) /\ \A v \in Revisions : recon[q][v] = "NONE"
    /\ Consumed(a) \/ recon[a][reading[a].rev] \in {"APPLIED", "ABSORBED"}
    /\ \A q \in 1 .. p - 1 : IsSettled(q)
    /\ IsSettled(p) \/ \A k \in Clerks : draft[k] = NoDraft \/ draft[k].period # p

(* Absorbed into the draft of the actual period: its estimate becomes what *)
(* the dial leaves for it.  The chain then goes on from the dial.          *)
Absorb(p, remainder) ==
    LET m == reading[p].meter
        other == 3 - m
        rest == remainder - settled[p].part[other].usage
    IN  IF ~ Sourced(p, m) \/ rest < 0 THEN Park(p)
        ELSE /\ settled' = [settled EXCEPT ![p].part[m] =
                               [prev |-> @.prev, end |-> reading[p].dial, usage |-> rest,
                                source |-> "READING", rev |-> reading[p].rev]]
             /\ Record(p, "ABSORBED")
             /\ orderly' = (orderly /\ UsedInOrder(Max(Anchors(p)), p))
             /\ UNCHANGED <<shift, task>>

(* Otherwise the whole span has to be billed; the difference goes to its   *)
(* last period, and the task of the account is closed.                     *)
AdjustUsage(p, S, actual) ==
    /\ \A q \in S : settled[q].status = "FINAL" /\ q \in billed
    /\ shift' = [q \in Periods |->
                   IF q \notin S THEN shift[q]
                   ELSE IF q < Max(S) THEN 0
                   ELSE actual - SumOver(S, [x \in Periods |-> Total(x)])]
    /\ Record(p, "APPLIED")
    /\ task' = 0
    /\ orderly' = (orderly /\ UsedInOrder(Max(Anchors(p)), p))
    /\ UNCHANGED settled

Absorbable(p, S, remainder) ==
    /\ remainder >= 0
    /\ p \in S /\ settled[p].status = "DRAFT"
    /\ \A q \in S \ {p} : settled[q].status = "FINAL"

ReconcileUsage(p) ==
    /\ Trusted(p) /\ Anchors(p) # {}
    /\ recon[p][reading[p].rev] = "NONE"
    /\ LET a == Max(Anchors(p))
           S == Span(a, p)
           actual == reading[p].dial - reading[a].dial
           remainder == actual - SettledUsage(S)
       IN  /\ S # {}
           /\ IF reading[a].meter # reading[p].meter \/ actual < 0 THEN Park(p)
              ELSE IF Absorbable(p, S, remainder) THEN Absorb(p, remainder)
              ELSE AdjustUsage(p, S, actual)
    /\ UnchangedFacts /\ UNCHANGED <<billed, draft>>
-----------------------------------------------------------------------------
Current == 1 .. scope.last
DialNext ==
    \/ \E k \in scope.clerks, p \in Current : StartGenerate(k, p)
    \/ \E k \in scope.clerks : Recheck(k) \/ WriteSettlement(k)
    \/ \E p \in Current : Finalize(p) \/ BillPeriod(p) \/ ReconcileUsage(p)
    \/ \E p \in Current, d \in Dial : Enter(p, d) \/ Correct(p, d) \/ ExchangeMeter(p, d)
    \/ \E p \in Current, v \in {"PASSED", "REJECTED"} : Check(p, v)
    \/ CloseTask

DialSpec == DialInit /\ [][DialNext]_dialVars
-----------------------------------------------------------------------------
(* State constraint of a run: beyond the first fact that was used out of   *)
(* its order nothing more is explored.                                     *)
Orderly == orderly

(* The dial at the end of a period, over both meters; a rollover adds a    *)
(* turn of the dial.                                                       *)
Turned(q, m) == LET z == settled[q].part[m]
                IN  z.source = "READING" /\ z.end < z.prev
TurnsIn(q) == (IF Turned(q, 1) THEN 1 ELSE 0) + (IF Turned(q, 2) THEN 1 ELSE 0)
Turns(p) == SumTo([q \in Periods |-> TurnsIn(q)], p)
Metered(p) == IF 2 \in MetersIn(p) THEN swap.final + settled[p].part[2].end
              ELSE settled[p].part[1].end
ReadAt(p) == \A m \in MetersIn(p) : settled[p].part[m].source = "READING"

ChargedUpTo(p) == SumTo([q \in Periods |-> Charged(q)], p)

(* Water is charged once and all of it is: when the facts are used in the  *)
(* order of the periods, what is charged up to a period that ends on a     *)
(* dial reading is what the dial shows, whatever was estimated, absorbed   *)
(* and adjusted on the way.                                                *)
WaterChargedOnce ==
    \A p \in Periods :
        orderly /\ IsSettled(p) /\ ReadAt(p) =>
            ChargedUpTo(p) = Metered(p) + MaxDial * Turns(p)
=============================================================================
