-------------------------- MODULE SettlementsProofs --------------------------
(***************************************************************************)
(* What is charged for water follows the dials, for any number of periods, *)
(* any clerks, dial and estimates.                                         *)
(*                                                                         *)
(* The argument. Money and dials meet where a period ends on a reading     *)
(* that was used (Known): by a settlement that took it, or by a            *)
(* reconciliation. There the usage charged so far is what the dials show   *)
(* (KnownCharged). A period that is only estimated ends anywhere; what     *)
(* ties it to the dials is where the next settlement starts (NextStarts),  *)
(* where a draft started (DraftsStart), and that every other fact points   *)
(* back to a reading that is still the trusted one: parts (PartsFit),      *)
(* turns of a dial (TurnsSeen), adjustments (ShiftsApplied), outcomes      *)
(* (OutcomesKnown), and what a request holds before it writes (DraftsFit). *)
(*                                                                         *)
(* All of it holds while the facts are used in the order of the periods    *)
(* (orderly), which is what each operation's record of that flag says; the *)
(* types hold always.                                                      *)
(***************************************************************************)
EXTENDS Settlements, SumsProofs

(* The largest of some of the numbers 1 .. N.                              *)
LEMMA MaxOf ==
  ASSUME NEW N \in Nat, NEW S \in SUBSET (1 .. N), S # {}
  PROVE  Max(S) \in S /\ \A x \in S : x <= Max(S)
<1> DEFINE T == {N - s : s \in S}
<1>1. T \in SUBSET Nat /\ T # {}
  <2>1. \A s \in S : N - s \in Nat
    OBVIOUS
  <2>2. PICK s \in S : TRUE
    OBVIOUS
  <2>3. N - s \in T
    OBVIOUS
  <2> QED BY <2>1, <2>3
<1>2. PICK n \in T : \A t \in T : n <= t
  <2> HIDE DEF T
  <2> QED BY <1>1, LeastNat
<1>3. PICK s \in S : n = N - s
  BY <1>2
<1>4. \A y \in S : s >= y
  <2> SUFFICES ASSUME NEW y \in S PROVE s >= y
    OBVIOUS
  <2>1. N - y \in T
    OBVIOUS
  <2> QED BY <1>2, <1>3, <2>1
<1>5. \E x \in S : \A y \in S : x >= y
  BY <1>4
<1>6. Max(S) \in S /\ \A y \in S : Max(S) >= y
  BY <1>5 DEF Max
<1> QED BY <1>6

(***************************************************************************)
(* The sum of f over the indices a + 1 .. b, as two sums from 1.           *)
(***************************************************************************)
LEMMA SpanSum ==
  ASSUME NEW N \in Nat, NEW f, NEW g, NEW a \in 0 .. N, NEW b \in a .. N,
         \A i \in 1 .. N : f[i] \in Int,
         \A i \in 1 .. N : g[i] = IF i \in a + 1 .. b THEN f[i] ELSE 0
  PROVE  SumTo(f, b) = SumTo(f, a) + SumTo(g, N)
<1>0. \A i \in 1 .. N : g[i] \in Int
  OBVIOUS
<1> DEFINE S == {n \in 0 .. N : SumTo(g, n) = IF n <= a THEN 0
                                  ELSE IF n <= b THEN SumTo(f, n) - SumTo(f, a)
                                  ELSE SumTo(f, b) - SumTo(f, a)}
<1>1. 0 \in S
  BY SumNone
<1>2. \A n \in 0 .. N : SumTo(f, n) \in Int /\ SumTo(g, n) \in Int
  <2> SUFFICES ASSUME NEW n \in 0 .. N
               PROVE  SumTo(f, n) \in Int /\ SumTo(g, n) \in Int
    OBVIOUS
  <2>1. n \in Nat /\ \A i \in 1 .. n : f[i] \in Int /\ g[i] \in Int
    BY <1>0
  <2> QED BY <2>1, SumInt
<1>3. ASSUME NEW n \in S, n < N PROVE n + 1 \in S
  <2>1. n \in Nat /\ n \in 0 .. N /\ n + 1 \in 1 .. N
    BY <1>3
  <2>2. \A i \in 1 .. (n + 1) : f[i] \in Int /\ g[i] \in Int
    BY <1>0, <2>1
  <2>3. /\ SumTo(f, n + 1) = SumTo(f, n) + f[n + 1]
        /\ SumTo(g, n + 1) = SumTo(g, n) + g[n + 1]
    BY <2>1, <2>2, SumNext
  <2>4. CASE n + 1 <= a
    <3>1. g[n + 1] = 0 /\ SumTo(g, n) = 0
      BY <2>1, <2>4
    <3> QED BY <2>1, <2>3, <2>4, <3>1
  <2>5. CASE a < n + 1 /\ n + 1 <= b
    <3>1. g[n + 1] = f[n + 1] /\ f[n + 1] \in Int
      BY <2>1, <2>5
    <3>2. SumTo(g, n) = SumTo(f, n) - SumTo(f, a)
      <4>1. CASE n = a
        BY <4>1, <1>2
      <4>2. CASE n > a
        BY <4>2, <2>1, <2>5
      <4> QED BY <2>1, <2>5, <4>1, <4>2
    <3> HIDE DEF S
    <3>3. SumTo(g, n + 1) = SumTo(f, n + 1) - SumTo(f, a)
      BY <1>2, <2>1, <2>3, <3>1, <3>2
    <3> QED BY <2>1, <2>5, <3>3 DEF S
  <2>6. CASE b < n + 1
    <3>1. g[n + 1] = 0
      BY <2>1, <2>6
    <3>2. SumTo(g, n) = SumTo(f, b) - SumTo(f, a)
      <4>1. CASE n = b
        <5>1. CASE n <= a
          <6>1. n = a /\ SumTo(g, n) = 0
            BY <4>1, <5>1, <2>1
          <6> QED BY <6>1, <4>1, <1>2
        <5>2. CASE n > a
          BY <4>1, <5>2, <2>1
        <5> QED BY <5>1, <5>2, <2>1
      <4>2. CASE n > b
        BY <4>2, <2>1
      <4> QED BY <2>1, <2>6, <4>1, <4>2
    <3> HIDE DEF S
    <3>3. SumTo(g, n + 1) = SumTo(f, b) - SumTo(f, a)
      BY <1>2, <2>1, <2>3, <3>1, <3>2
    <3>4. ~ (n + 1 <= a) /\ ~ (n + 1 <= b)
      BY <2>1, <2>6
    <3> QED BY <2>1, <3>3, <3>4 DEF S
  <2> QED BY <2>1, <2>4, <2>5, <2>6
<1>4. S \in SUBSET (0 .. N)
  OBVIOUS
<1>5. S = 0 .. N
  <2> HIDE DEF S
  <2> QED BY <1>1, <1>3, <1>4, BoundedInduction
<1>6. N \in S
  BY <1>5
<1>7. SumTo(g, N) = SumTo(f, b) - SumTo(f, a)
  <2>1. CASE N <= a
    <3>1. N = a /\ N = b /\ SumTo(g, N) = 0
      BY <2>1, <1>6
    <3> QED BY <3>1, <1>2
  <2>2. CASE N > a /\ N <= b
    <3>1. N = b
      BY <2>2
    <3> QED BY <3>1, <2>2, <1>6
  <2>3. CASE N > a /\ N > b
    BY <2>3, <1>6
  <2> QED BY <2>1, <2>2, <2>3
<1> HIDE DEF S
<1> QED BY <1>2, <1>7
-----------------------------------------------------------------------------
Statuses == {"NONE", "DRAFT", "FINAL"}
Sources == {"NONE", "READING", "ESTIMATE"}
PartSet == [prev : Int, end : Int, usage : Int, source : Sources, rev : Revisions]
Written == [at : {"write"}, period : Periods, part : [Meters -> PartSet]]
Blocked == [at : {"recheck"}, period : Periods]

DialTypes ==
    /\ scope \in Scopes
    /\ reading \in [Periods -> [meter : Meters, dial : Dial, rev : Revisions,
                                qc : {"NONE", "PENDING", "PASSED", "REJECTED"}]]
    /\ \A q \in Periods : reading[q].qc = "NONE" => reading[q].rev = 0
    /\ swap \in [period : 0 .. LastPeriod, final : Dial]
    /\ settled \in [Periods -> [status : Statuses, part : [Meters -> PartSet]]]
    /\ shift \in [Periods -> Int]
    /\ recon \in [Periods -> [Revisions -> Outcomes]]
    /\ draft \in [Clerks -> {NoDraft} \cup Written \cup Blocked]

(* What a clerk has under way, by where the work stands.                   *)
LEMMA WorkKinds ==
  ASSUME DialTypes, NEW k \in Clerks
  PROVE  /\ draft[k].at = "write" => draft[k] \in Written /\ draft[k] # NoDraft
         /\ draft[k].at = "recheck" => draft[k] \in Blocked
<1>1. draft[k] \in {NoDraft} \cup Written \cup Blocked
  BY DEF DialTypes
<1>2. ASSUME draft[k].at = "write" PROVE draft[k] \in Written /\ draft[k] # NoDraft
  <2>1. draft[k] # NoDraft
    BY <1>2 DEF NoDraft
  <2>2. draft[k] \notin Blocked
    BY <1>2 DEF Blocked
  <2> QED BY <1>1, <2>1, <2>2
<1>3. ASSUME draft[k].at = "recheck" PROVE draft[k] \in Blocked
  <2>1. draft[k] # NoDraft
    BY <1>3 DEF NoDraft
  <2>2. draft[k] \notin Written
    BY <1>3 DEF Written
  <2> QED BY <1>1, <2>1, <2>2
<1> QED BY <1>2, <1>3

(* What reconciling the newest reading of q came to.                       *)
Outcome(q) == recon[q][reading[q].rev]
Applied(q, m) == Trusted(q) /\ reading[q].meter = m /\ Outcome(q) = "APPLIED"

(* A rule holds in every state of the types, so its primed form does.      *)
ReconciledRule ==
    \A p \in Periods, m \in Meters :
        Reconciled(p, m) = {q \in 1 .. p : Applied(q, m)}

(* The readings that prevChain takes from reconciliations.                 *)
LEMMA ReconciledSet == DialTypes => ReconciledRule
BY SettlementsAssumption DEF ReconciledRule, Reconciled, Applied, Outcome

(* prevChain returns a dial.                                               *)
LEMMA StartTypes ==
  DialTypes => \A p \in Periods, m \in Meters : StartOf(p, m).dial \in Int
<1> SUFFICES ASSUME DialTypes, NEW p \in Periods, NEW m \in Meters
             PROVE  StartOf(p, m).dial \in Int
  OBVIOUS
<1> USE SettlementsAssumption
<1>1. LastPart(p, m).dial \in Int
  <2>1. CASE PartsBefore(p, m) = {}
    BY <2>1 DEF LastPart, Initial
  <2>2. CASE PartsBefore(p, m) # {}
    <3>1. PartsBefore(p, m) \in SUBSET (1 .. LastPeriod) /\ LastPeriod \in Nat
      BY DEF PartsBefore, Periods
    <3>2. PICK q \in Periods : q = Max(PartsBefore(p, m))
      BY <2>2, <3>1, MaxOf DEF Periods
    <3>3. LastPart(p, m).dial = settled[q].part[m].end
      BY <2>2, <3>2 DEF LastPart
    <3> QED BY <3>3 DEF DialTypes, PartSet
  <2> QED BY <2>1, <2>2
<1>2. CASE Reconciled(p, m) = {}
  BY <1>1, <1>2 DEF StartOf
<1>3. CASE Reconciled(p, m) # {}
  <2>1. Reconciled(p, m) \in SUBSET (1 .. LastPeriod) /\ LastPeriod \in Nat
    BY DEF Reconciled, Periods
  <2>2. PICK q \in Periods : q = Max(Reconciled(p, m))
    BY <1>3, <2>1, MaxOf DEF Periods
  <2>3. reading[q].dial \in Int
    BY DEF DialTypes, Dial
  <2> QED BY <1>1, <2>2, <2>3 DEF StartOf
<1> QED BY <1>2, <1>3

(* The parts of a generation.                                              *)
LEMMA PartsTypes ==
  ASSUME DialTypes, NEW p \in Periods, NEW e \in [Meters -> Int]
  PROVE  /\ Parts(p, e) \in [Meters -> PartSet]
         /\ \A m \in Meters : m \notin MetersIn(p) => Parts(p, e)[m] = NoPart
         /\ \A m \in MetersIn(p) :
              LET z == Parts(p, e)[m]
              IN  /\ z.prev = StartOf(p, m).dial
                  /\ HasDial(p, m) => /\ z.source = "READING"
                                      /\ z.end = EndDial(p, m)
                                      /\ z.usage = DialUsage(z.prev, z.end)
                                      /\ ~ Removed(p, m) => z.rev = reading[p].rev
                  /\ ~ HasDial(p, m) => /\ z.source = "ESTIMATE"
                                        /\ z.end = z.prev + e[m] /\ z.usage = e[m]
<1> USE SettlementsAssumption
<1>1. ASSUME NEW m \in Meters
      PROVE  StartOf(p, m).dial \in Int /\ EndDial(p, m) \in Int /\ e[m] \in Int
             /\ reading[p].rev \in Revisions
  BY StartTypes DEF EndDial, DialTypes, Dial
<1>2. ASSUME NEW x \in Int, NEW y \in Int PROVE DialUsage(x, y) \in Int
  BY DEF DialUsage
<1>3. NoPart \in PartSet
  BY DEF NoPart, PartSet, Sources, Revisions
<1>4. ASSUME NEW m \in Meters PROVE Parts(p, e)[m] \in PartSet
  <2>1. CASE m \notin MetersIn(p)
    BY <2>1, <1>3 DEF Parts
  <2>2. CASE m \in MetersIn(p) /\ HasDial(p, m)
    <3>1. DialUsage(StartOf(p, m).dial, EndDial(p, m)) \in Int
      BY <1>1, <1>2
    <3> QED BY <2>2, <1>1, <3>1 DEF Parts, PartSet, Sources, Revisions
  <2>3. CASE m \in MetersIn(p) /\ ~ HasDial(p, m)
    BY <2>3, <1>1 DEF Parts, PartSet, Sources, Revisions
  <2> QED BY <2>1, <2>2, <2>3
<1>5. Parts(p, e) \in [Meters -> PartSet]
  BY <1>4 DEF Parts
<1>6. MetersIn(p) \subseteq Meters
  BY DEF MetersIn
<1> QED BY <1>5, <1>6 DEF Parts
(* The steps, without the bounds of a behaviour.                           *)
DialAct ==
    \/ \E k \in Clerks, p \in Periods : StartGenerate(k, p)
    \/ \E k \in Clerks : Recheck(k)
    \/ \E k \in Clerks : WriteSettlement(k)
    \/ \E p \in Periods : Finalize(p)
    \/ \E p \in Periods : BillPeriod(p)
    \/ \E p \in Periods : ReconcileUsage(p)
    \/ \E p \in Periods, d \in Dial : Enter(p, d)
    \/ \E p \in Periods, d \in Dial : Correct(p, d)
    \/ \E p \in Periods, d \in Dial : ExchangeMeter(p, d)
    \/ \E p \in Periods, v \in {"PASSED", "REJECTED"} : Check(p, v)
    \/ CloseTask

(* A step within the bounds of its behaviour is one of those.              *)
LEMMA DialActs ==
  ASSUME DialTypes, DialNext
  PROVE  DialAct
<1>1. /\ scope.last \in 1 .. LastPeriod /\ scope.clerks \in SUBSET Clerks
      /\ LastPeriod \in Nat
  BY SettlementsAssumption DEF DialTypes
<1>2. Current \subseteq Periods
  BY <1>1 DEF Current, Periods
<1>3. CASE \E k \in scope.clerks, p \in Current : StartGenerate(k, p)
  BY <1>1, <1>2, <1>3 DEF DialAct
<1>4. CASE \E k \in scope.clerks : Recheck(k) \/ WriteSettlement(k)
  BY <1>1, <1>4 DEF DialAct
<1>5. CASE \E p \in Current : Finalize(p) \/ BillPeriod(p) \/ ReconcileUsage(p)
  BY <1>2, <1>5 DEF DialAct
<1>6. CASE \E p \in Current, d \in Dial : Enter(p, d) \/ Correct(p, d) \/ ExchangeMeter(p, d)
  BY <1>2, <1>6 DEF DialAct
<1>7. CASE \E p \in Current, v \in {"PASSED", "REJECTED"} : Check(p, v)
  BY <1>2, <1>7 DEF DialAct
<1>8. CASE CloseTask
  BY <1>8 DEF DialAct
<1> QED BY <1>3, <1>4, <1>5, <1>6, <1>7, <1>8, Zenon DEF DialNext

(* The types hold at the start, and every step keeps them.                 *)
LEMMA DialTypesInit == DialInit => DialTypes
<1> SUFFICES ASSUME DialInit PROVE DialTypes
  OBVIOUS
<1> USE SettlementsAssumption
<1>1. 0 \in Dial
  BY DEF Dial
<1>2. NoReading \in [meter : Meters, dial : Dial, rev : Revisions,
                     qc : {"NONE", "PENDING", "PASSED", "REJECTED"}]
  BY <1>1 DEF NoReading, Meters, Revisions
<1>3. NoSettlement \in [status : Statuses, part : [Meters -> PartSet]]
  BY DEF NoSettlement, NoPart, PartSet, Statuses, Sources, Revisions
<1>4. [v \in Revisions |-> "NONE"] \in [Revisions -> Outcomes]
  BY DEF Outcomes
<1>5. swap \in [period : 0 .. LastPeriod, final : Dial]
  BY <1>1 DEF DialInit
<1>6. reading \in [Periods -> [meter : Meters, dial : Dial, rev : Revisions,
                               qc : {"NONE", "PENDING", "PASSED", "REJECTED"}]]
      /\ \A q \in Periods : reading[q].qc = "NONE" => reading[q].rev = 0
  BY <1>2 DEF DialInit, NoReading
<1>7. settled \in [Periods -> [status : Statuses, part : [Meters -> PartSet]]]
  BY <1>3 DEF DialInit
<1> QED BY <1>4, <1>5, <1>6, <1>7 DEF DialInit, DialTypes

(* A correction, spelled out: the newer row stands in for the superseded   *)
(* one, unchecked.                                                         *)
LEMMA CorrectReading ==
  ASSUME DialTypes, NEW p \in Periods, NEW d \in Dial, Correct(p, d)
  PROVE  reading' = [reading EXCEPT ![p] = [reading[p] EXCEPT !.dial = d, !.qc = "PENDING",
                                                              !.rev = 1]]
BY SettlementsAssumption DEF Correct, DialTypes

LEMMA DialTypesStep ==
  ASSUME DialTypes, [DialNext]_dialVars
  PROVE  DialTypes'
<1> USE SettlementsAssumption
<1>d. DialAct \/ UNCHANGED dialVars
  BY DialActs
<1>s. \A q \in Periods : settled[q] \in [status : Statuses, part : [Meters -> PartSet]]
  BY DEF DialTypes
<1>1. ASSUME NEW k \in Clerks, NEW p \in Periods, StartGenerate(k, p) PROVE DialTypes'
  <2>1. draft'\in [Clerks -> {NoDraft} \cup Written \cup Blocked]
    <3>1. CASE OverEstimated(p)
      <4>1. draft' = [draft EXCEPT ![k] = [at |-> "recheck", period |-> p]]
        BY <1>1, <3>1 DEF StartGenerate, Keep
      <4>2. [at |-> "recheck", period |-> p] \in Blocked
        BY DEF Blocked
      <4> QED BY <4>1, <4>2 DEF DialTypes
    <3>2. CASE ~ OverEstimated(p)
      <4>1. PICK e \in [Meters -> 0 .. MaxEstimate] :
              draft' = [draft EXCEPT ![k] = [at |-> "write", period |-> p, part |-> Parts(p, e)]]
        BY <1>1, <3>2 DEF StartGenerate, Keep
      <4>2. e \in [Meters -> Int]
        OBVIOUS
      <4>3. [at |-> "write", period |-> p, part |-> Parts(p, e)] \in Written
        BY <4>2, PartsTypes DEF Written
      <4> QED BY <4>1, <4>3 DEF DialTypes
    <3> QED BY <3>1, <3>2
  <2> QED BY <1>1, <2>1 DEF DialTypes, StartGenerate, UnchangedFacts, UnchangedMoney
<1>2. ASSUME NEW k \in Clerks, Recheck(k) PROVE DialTypes'
  <2>0. draft[k] \in Blocked
    BY <1>2, WorkKinds DEF Recheck
  <2>1. PICK p \in Periods : p = draft[k].period
    BY <2>0 DEF Blocked
  <2>2. Parts(p, [m \in Meters |-> 0]) \in [Meters -> PartSet]
    BY PartsTypes
  <2>3. [at |-> "write", period |-> p, part |-> Parts(p, [m \in Meters |-> 0])] \in Written
    BY <2>2 DEF Written
  <2>4. \/ draft' = [draft EXCEPT ![k] = [at |-> "write", period |-> p,
                                          part |-> Parts(p, [m \in Meters |-> 0])]]
        \/ draft' = [draft EXCEPT ![k] = NoDraft]
    BY <1>2, <2>1 DEF Recheck, Keep
  <2>5. draft'\in [Clerks -> {NoDraft} \cup Written \cup Blocked]
    BY <2>3, <2>4 DEF DialTypes
  <2> QED BY <1>2, <2>5 DEF DialTypes, Recheck, UnchangedFacts, UnchangedMoney
<1>3. ASSUME NEW k \in Clerks, WriteSettlement(k) PROVE DialTypes'
  <2>0. draft[k] \in Written
    BY <1>3, WorkKinds DEF WriteSettlement
  <2>1. [status |-> "DRAFT", part |-> draft[k].part]
          \in [status : Statuses, part : [Meters -> PartSet]]
    BY <2>0 DEF Written, Statuses
  <2>2. settled' \in [Periods -> [status : Statuses, part : [Meters -> PartSet]]]
    BY <1>3, <2>1 DEF WriteSettlement, DialTypes
  <2>3. draft'\in [Clerks -> {NoDraft} \cup Written \cup Blocked]
    BY <1>3 DEF WriteSettlement, DialTypes, Keep
  <2> QED BY <1>3, <2>2, <2>3 DEF DialTypes, WriteSettlement, UnchangedFacts
<1>4. ASSUME NEW p \in Periods, Finalize(p) PROVE DialTypes'
  <2>1. settled' = [settled EXCEPT ![p] = [settled[p] EXCEPT !.status = "FINAL"]]
    BY <1>4 DEF Finalize, DialTypes
  <2>2. [settled[p] EXCEPT !.status = "FINAL"] \in [status : Statuses, part : [Meters -> PartSet]]
    BY <1>s DEF Statuses
  <2>3. settled' \in [Periods -> [status : Statuses, part : [Meters -> PartSet]]]
    BY <2>1, <2>2 DEF DialTypes
  <2> QED BY <1>4, <2>3 DEF DialTypes, Finalize, UnchangedFacts
<1>5. ASSUME NEW p \in Periods, BillPeriod(p) PROVE DialTypes'
  BY <1>5 DEF BillPeriod, DialTypes, UnchangedFacts
<1>6. ASSUME NEW p \in Periods, ReconcileUsage(p) PROVE DialTypes'
  <2> DEFINE r == reading[p]
             Rec(o) == recon' = [recon EXCEPT ![p] = [recon[p] EXCEPT ![r.rev] = o]]
  <2>1. ASSUME NEW o \in Outcomes, Record(p, o)
        PROVE  recon' \in [Periods -> [Revisions -> Outcomes]]
    <3>1. recon[p] \in [Revisions -> Outcomes] /\ r.rev \in Revisions
      BY DEF DialTypes
    <3>2. [recon[p] EXCEPT ![r.rev] = o] \in [Revisions -> Outcomes]
      BY <3>1
    <3>3. recon' = [recon EXCEPT ![p] = [recon[p] EXCEPT ![r.rev] = o]]
      BY <2>1 DEF Record, DialTypes
    <3> QED BY <3>2, <3>3 DEF DialTypes
  <2>2. UNCHANGED <<scope, reading, swap, draft>>
    BY <1>6 DEF ReconcileUsage, UnchangedFacts
  <2>3. CASE Park(p)
    BY <2>1, <2>2, <2>3 DEF Park, Outcomes, DialTypes
  <2>4. ASSUME NEW x \in Int, Absorb(p, x), ~ Park(p) PROVE DialTypes'
    <3> DEFINE m == r.meter
               rest == x - settled[p].part[3 - m].usage
               z == [prev |-> settled[p].part[m].prev, end |-> r.dial, usage |-> rest,
                     source |-> "READING", rev |-> r.rev]
    <3>1. m \in Meters /\ 3 - m \in Meters /\ r.dial \in Int /\ r.rev \in Revisions
      BY DEF DialTypes, Meters, Dial
    <3>2. settled[p].part[m] \in PartSet /\ settled[p].part[3 - m] \in PartSet
      BY <1>s, <3>1
    <3>3. rest \in Int
      BY <3>2 DEF PartSet
    <3>4. z \in PartSet
      BY <3>1, <3>2, <3>3 DEF PartSet, Sources
    <3>5. settled' = [settled EXCEPT ![p] =
                        [settled[p] EXCEPT !.part = [settled[p].part EXCEPT ![m] = z]]]
      BY <2>4, <3>1, <3>2, <1>s DEF Absorb, DialTypes, PartSet
    <3>6. settled' \in [Periods -> [status : Statuses, part : [Meters -> PartSet]]]
      <4> HIDE DEF m, z, rest
      <4>1. [settled[p].part EXCEPT ![m] = z] \in [Meters -> PartSet]
        BY <1>s, <3>1, <3>4
      <4>2. [settled[p] EXCEPT !.part = [settled[p].part EXCEPT ![m] = z]]
              \in [status : Statuses, part : [Meters -> PartSet]]
        BY <1>s, <4>1
      <4> QED BY <3>5, <4>2 DEF DialTypes
    <3>7. Record(p, "ABSORBED") /\ UNCHANGED shift
      BY <2>4 DEF Absorb
    <3> QED BY <2>1, <2>2, <3>6, <3>7 DEF DialTypes, Outcomes
  <2>5. ASSUME NEW S \in SUBSET Periods, NEW x \in Int, AdjustUsage(p, S, x) PROVE DialTypes'
    <3>1. \A q \in Periods : (IF q \in S THEN Total(q) ELSE 0) \in Int
      BY <1>s DEF Total, Meters, PartSet
    <3>2. SumOver(S, [q \in Periods |-> Total(q)]) \in Int
      <4> DEFINE f == [q \in Periods |-> IF q \in S THEN [y \in Periods |-> Total(y)][q] ELSE 0]
      <4>1. \A q \in 1 .. LastPeriod : f[q] \in Int
        BY <3>1 DEF Periods
      <4>2. SumTo(f, LastPeriod) \in Int
        <5> HIDE DEF f
        <5> QED BY <4>1, SumInt
      <4> QED BY <4>2 DEF SumOver
    <3>3. shift' \in [Periods -> Int]
      BY SMTT(60), <2>5, <3>2 DEF AdjustUsage, DialTypes
    <3> QED BY <2>1, <2>2, <2>5, <3>3 DEF AdjustUsage, DialTypes, Outcomes
  <2> QED
    <3> DEFINE a == Max(Anchors(p))
               S == Span(a, p)
               actual == reading[p].dial - reading[a].dial
               remainder == actual - SettledUsage(S)
    <3>1. \/ Park(p)
          \/ Absorb(p, remainder)
          \/ AdjustUsage(p, S, actual)
      BY <1>6 DEF ReconcileUsage
    <3>2. a \in Periods /\ a < p
      <4>1. Anchors(p) # {} /\ Anchors(p) \in SUBSET (1 .. LastPeriod) /\ LastPeriod \in Nat
        BY <1>6 DEF ReconcileUsage, Anchors, Periods
      <4>2. a \in Anchors(p)
        BY <4>1, MaxOf
      <4> QED BY <4>2 DEF Anchors, Periods
    <3>3. S \in SUBSET Periods
      BY <3>2 DEF Span, Periods
    <3>4. actual \in Int
      BY <3>2 DEF DialTypes, Dial
    <3>5. SettledUsage(S) \in Int
      <4> DEFINE F == {q \in S : settled[q].status = "FINAL"}
                 f == [q \in Periods |-> IF q \in F THEN [y \in Periods |-> Total(y)][q] ELSE 0]
      <4>1. \A q \in Periods : Total(q) \in Int
        BY <1>s DEF Total, Meters, PartSet
      <4>2. \A q \in 1 .. LastPeriod : f[q] \in Int
        BY <4>1 DEF Periods
      <4>3. SumTo(f, LastPeriod) \in Int
        <5> HIDE DEF f
        <5> QED BY <4>2, SumInt
      <4> QED BY <4>3 DEF SettledUsage, SumOver
    <3>6. remainder \in Int
      BY <3>4, <3>5
    <3> HIDE DEF remainder, actual, S, a
    <3> QED BY <2>3, <2>4, <2>5, <3>1, <3>3, <3>4, <3>6
<1>7. ASSUME NEW p \in Periods, NEW d \in Dial, Enter(p, d) PROVE DialTypes'
  <2>1. [meter |-> ActiveMeter, dial |-> d, qc |-> "PENDING", rev |-> 0]
          \in [meter : Meters, dial : Dial, rev : Revisions,
               qc : {"NONE", "PENDING", "PASSED", "REJECTED"}]
    BY DEF ActiveMeter, Meters, Revisions
  <2> QED BY <1>7, <2>1 DEF Enter, DialTypes, UnchangedMoney
<1>8. ASSUME NEW p \in Periods, NEW d \in Dial, Correct(p, d) PROVE DialTypes'
  <2>1. reading' = [reading EXCEPT ![p] = [reading[p] EXCEPT !.dial = d, !.qc = "PENDING",
                                                             !.rev = 1]]
    BY <1>8, CorrectReading
  <2>2. [reading[p] EXCEPT !.dial = d, !.qc = "PENDING", !.rev = 1]
          \in [meter : Meters, dial : Dial, rev : Revisions,
               qc : {"NONE", "PENDING", "PASSED", "REJECTED"}]
    <3>1. reading[p] \in [meter : Meters, dial : Dial, rev : Revisions,
                          qc : {"NONE", "PENDING", "PASSED", "REJECTED"}]
      BY DEF DialTypes
    <3>2. PICK r : r = reading[p]
      OBVIOUS
    <3>3. [r EXCEPT !.dial = d, !.qc = "PENDING", !.rev = 1]
            \in [meter : Meters, dial : Dial, rev : Revisions,
                 qc : {"NONE", "PENDING", "PASSED", "REJECTED"}]
      <4>1. 1 \in Revisions
        BY DEF Revisions
      <4>2. r \in [meter : Meters, dial : Dial, rev : Revisions,
                   qc : {"NONE", "PENDING", "PASSED", "REJECTED"}]
        BY <3>1, <3>2
      <4> QED BY ONLY <4>1, <4>2, d \in Dial
    <3> QED BY <3>2, <3>3
  <2> QED BY <1>8, <2>1, <2>2 DEF Correct, DialTypes, UnchangedMoney
<1>9. ASSUME NEW p \in Periods, NEW d \in Dial, ExchangeMeter(p, d) PROVE DialTypes'
  <2>1. swap' \in [period : 0 .. LastPeriod, final : Dial]
    BY <1>9 DEF ExchangeMeter, Periods
  <2> QED BY <1>9, <2>1 DEF ExchangeMeter, DialTypes, UnchangedMoney
<1>10. ASSUME NEW p \in Periods, NEW v \in {"PASSED", "REJECTED"}, Check(p, v) PROVE DialTypes'
  <2>1. reading' = [reading EXCEPT ![p] = [reading[p] EXCEPT !.qc = v]]
    BY <1>10 DEF Check, DialTypes
  <2>2. [reading[p] EXCEPT !.qc = v]
          \in [meter : Meters, dial : Dial, rev : Revisions,
               qc : {"NONE", "PENDING", "PASSED", "REJECTED"}]
    BY SMTT(60) DEF DialTypes
  <2> QED BY <1>10, <2>1, <2>2 DEF Check, DialTypes, UnchangedMoney
<1>11. CASE CloseTask
  BY <1>11 DEF CloseTask, DialTypes, UnchangedFacts, UnchangedMoney
<1>12. CASE UNCHANGED dialVars
  BY <1>12 DEF dialVars, DialTypes
<1> QED BY <1>d, <1>1, <1>2, <1>3, <1>4, <1>5, <1>6, <1>7, <1>8, <1>9, <1>10, <1>11, <1>12
        DEF DialAct
-----------------------------------------------------------------------------
(* What the meters that are gone have shown, and the turns of the dials.   *)
Behind(p) == IF swap.period # 0 /\ swap.period <= p THEN swap.final ELSE 0
Past(p) == Behind(p) + MaxDial * Turns(p)

(* A meter of one lifetime, whose end is not the final dial of a removal.  *)
Level(q) == IF reading[q].meter = 1 THEN swap.period = 0 \/ q < swap.period
            ELSE swap.period # 0 /\ swap.period < q

AllSettledTo(p) == \A q \in 1 .. p : IsSettled(q)
SettledInOrder ==
    \A p, q \in Periods : q < p /\ IsSettled(p) => IsSettled(q)

(* A reading is of the meter that is mounted on its date.                  *)
ReadingsMetered ==
    \A q \in Periods : reading[q].qc # "NONE" =>
        IF reading[q].meter = 1 THEN swap.period = 0 \/ q < swap.period
        ELSE swap.period # 0

(* A part taken from a reading agrees with the reading that stands.        *)
PartFits(z, q, m) ==
    IF m \notin MetersIn(q) THEN z = NoPart
    ELSE /\ z.source \in {"READING", "ESTIMATE"}
         /\ Removed(q, m) => z.source = "READING" /\ z.end = swap.final
         /\ z.source = "READING" /\ ~ Removed(q, m) =>
              /\ Trusted(q) /\ reading[q].meter = m
              /\ z.end = reading[q].dial /\ z.rev = reading[q].rev
PartsFit ==
    \A q \in Periods, m \in Meters :
        IsSettled(q) => PartFits(settled[q].part[m], q, m)

(* A dial turned only between two readings of the same meter.              *)
TurnsSeen ==
    \A q \in Periods, m \in Meters :
        IsSettled(q) /\ Turned(q, m) /\ ~ Removed(q, m) =>
            /\ q - 1 \in Periods /\ Trusted(q - 1) /\ reading[q - 1].meter = m
            /\ reading[q - 1].dial = settled[q].part[m].prev

(* An adjustment stems from a reconciliation that stands.                  *)
ShiftsApplied ==
    \A q \in Periods : shift[q] # 0 =>
        /\ settled[q].status = "FINAL"
        /\ \E x \in Periods : /\ x = q \/ x = q + 1
                              /\ Trusted(x) /\ Outcome(x) = "APPLIED"

(* A reconciliation that was used stands on a trusted, level reading.      *)
OutcomesKnown ==
    \A q \in Periods :
        /\ Outcome(q) \in {"APPLIED", "ABSORBED"} =>
              Trusted(q) /\ Level(q) /\ AllSettledTo(q - 1)
        /\ Outcome(q) = "ABSORBED" =>
              IsSettled(q) /\ settled[q].part[reading[q].meter].source = "READING"
        /\ \A v \in Revisions : v > reading[q].rev => recon[q][v] = "NONE"

(* A draft started at what was charged before it.                          *)
DraftsStart ==
    \A q \in Periods : settled[q].status = "DRAFT" /\ q # swap.period =>
        \A m \in MetersIn(q) : ChargedUpTo(q - 1) = Past(q - 1) + settled[q].part[m].prev

(* A period whose dial was used: then the sum is what it shows.            *)
Known(q) ==
    /\ IsSettled(q) /\ Trusted(q) /\ reading[q].meter \in MetersIn(q)
    /\ \/ settled[q].part[reading[q].meter].source = "READING"
       \/ Outcome(q) \in {"APPLIED", "ABSORBED"}
KnownCharged ==
    \A q \in Periods : Known(q) => ChargedUpTo(q) = Past(q) + reading[q].dial

(* The next settlement starts at what was charged before it.               *)
StartIn(p, m) == IF m \in MetersIn(p) THEN StartOf(p, m).dial ELSE 0
NextStarts ==
    \A p \in Periods : ~ IsSettled(p) /\ AllSettledTo(p - 1) =>
        ChargedUpTo(p - 1) = Past(p - 1) + StartIn(p, 1) + StartIn(p, 2)

(* What a request holds, between its decision and its write.               *)
Measured(z) == z.usage = IF z.source = "READING" THEN DialUsage(z.prev, z.end)
                         ELSE z.end - z.prev
WorkFits(k) ==
    draft[k].at = "write" =>
        LET p == draft[k].period
            z == draft[k].part
        IN  /\ \A m \in Meters : PartFits(z[m], p, m) /\ Measured(z[m])
            /\ Outcome(p) = "APPLIED" /\ ~ IsSettled(p) =>
                  z[reading[p].meter].source = "READING"
DraftsFit == \A k \in Clerks : WorkFits(k)

DialFacts ==
    /\ SettledInOrder /\ ReadingsMetered /\ PartsFit /\ TurnsSeen /\ ShiftsApplied
    /\ OutcomesKnown /\ DraftsStart /\ KnownCharged /\ NextStarts /\ DraftsFit

DialInv == DialTypes /\ (orderly => DialFacts)
-----------------------------------------------------------------------------
(* The running sums.                                                       *)
ChargedRule ==
    /\ ChargedUpTo(0) = 0
    /\ \A p \in Periods :
          /\ ChargedUpTo(p - 1) \in Int /\ ChargedUpTo(p) \in Int
          /\ Charged(p) \in Int /\ Total(p) \in Int
          /\ ChargedUpTo(p) = ChargedUpTo(p - 1) + Charged(p)

(* Both are sums of integers, a period at a time.                          *)
LEMMA ChargedSum == DialTypes => ChargedRule
<1> SUFFICES ASSUME DialTypes PROVE ChargedRule
  OBVIOUS
<1> DEFINE f == [q \in Periods |-> Charged(q)]
<1>0. LastPeriod \in Nat
  BY SettlementsAssumption
<1>1. \A q \in Periods : Total(q) \in Int /\ Charged(q) \in Int
  BY DEF DialTypes, Total, Charged, Meters, PartSet
<1>2. \A q \in 1 .. LastPeriod : f[q] \in Int /\ f[q] = Charged(q)
  BY <1>1 DEF Periods
<1>3. \A n \in 0 .. LastPeriod : ChargedUpTo(n) = SumTo(f, n)
  BY DEF ChargedUpTo
<1> HIDE DEF f
<1>4. ASSUME NEW n \in 0 .. LastPeriod PROVE SumTo(f, n) \in Int
  <2>1. n \in Nat /\ \A i \in 1 .. n : f[i] \in Int
    BY <1>0, <1>2
  <2> QED BY <2>1, SumInt
<1>5. ASSUME NEW p \in Periods PROVE SumTo(f, p) = SumTo(f, p - 1) + f[p]
  <2>1. p - 1 \in Nat /\ (p - 1) + 1 = p /\ \A i \in 1 .. ((p - 1) + 1) : f[i] \in Int
    BY <1>0, <1>2 DEF Periods
  <2>2. SumTo(f, (p - 1) + 1) = SumTo(f, p - 1) + f[(p - 1) + 1]
    BY <2>1, SumNext
  <2> QED BY <2>1, <2>2
<1>6. \A p \in Periods : p \in 1 .. LastPeriod /\ p \in 0 .. LastPeriod /\ p - 1 \in 0 .. LastPeriod
  BY <1>0 DEF Periods
<1>7. SumTo(f, 0) = 0 /\ 0 \in 0 .. LastPeriod
  BY <1>0, SumNone
<1> QED BY <1>1, <1>2, <1>3, <1>4, <1>5, <1>6, <1>7
       DEF ChargedRule

TurnRule ==
    /\ Turns(0) = 0
    /\ \A p \in Periods :
          /\ Turns(p - 1) \in Int /\ Turns(p) \in Int
          /\ TurnsIn(p) \in Int
          /\ Turns(p) = Turns(p - 1) + TurnsIn(p)

LEMMA TurnSum == DialTypes => TurnRule
<1> SUFFICES ASSUME DialTypes PROVE TurnRule
  OBVIOUS
<1> DEFINE f == [q \in Periods |-> TurnsIn(q)]
<1>0. LastPeriod \in Nat
  BY SettlementsAssumption
<1>1. \A q \in Periods : TurnsIn(q) \in Int
  BY DEF TurnsIn
<1>2. \A q \in 1 .. LastPeriod : f[q] \in Int /\ f[q] = TurnsIn(q)
  BY <1>1 DEF Periods
<1>3. \A n \in 0 .. LastPeriod : Turns(n) = SumTo(f, n)
  BY DEF Turns
<1> HIDE DEF f
<1>4. ASSUME NEW n \in 0 .. LastPeriod PROVE SumTo(f, n) \in Int
  <2>1. n \in Nat /\ \A i \in 1 .. n : f[i] \in Int
    BY <1>0, <1>2
  <2> QED BY <2>1, SumInt
<1>5. ASSUME NEW p \in Periods PROVE SumTo(f, p) = SumTo(f, p - 1) + f[p]
  <2>1. p - 1 \in Nat /\ (p - 1) + 1 = p /\ \A i \in 1 .. ((p - 1) + 1) : f[i] \in Int
    BY <1>0, <1>2 DEF Periods
  <2>2. SumTo(f, (p - 1) + 1) = SumTo(f, p - 1) + f[(p - 1) + 1]
    BY <2>1, SumNext
  <2> QED BY <2>1, <2>2
<1>6. \A p \in Periods : p \in 1 .. LastPeriod /\ p \in 0 .. LastPeriod /\ p - 1 \in 0 .. LastPeriod
  BY <1>0 DEF Periods
<1>7. SumTo(f, 0) = 0 /\ 0 \in 0 .. LastPeriod
  BY <1>0, SumNone
<1> QED BY <1>1, <1>2, <1>3, <1>4, <1>5, <1>6, <1>7
       DEF TurnRule

(* What no step changed up to a period leaves the sum up to it.            *)
LEMMA ChargedFrame ==
  ASSUME DialTypes, DialTypes', NEW n \in 0 .. LastPeriod,
         \A q \in 1 .. n : Charged(q)' = Charged(q)
  PROVE  ChargedUpTo(n)' = ChargedUpTo(n)
<1> DEFINE f == [q \in Periods |-> Charged(q)]
           g == [q \in Periods |-> Charged(q)']
<1>0. LastPeriod \in Nat /\ n \in Nat
  BY SettlementsAssumption
<1>1. \A i \in 1 .. n : i \in Periods
  BY <1>0 DEF Periods
<1>2. \A q \in Periods : Charged(q) \in Int
  BY ChargedSum DEF ChargedRule
<1>3. \A i \in 1 .. n : f[i] \in Int /\ g[i] = f[i]
  BY <1>1, <1>2
<1>4. ChargedUpTo(n) = SumTo(f, n) /\ ChargedUpTo(n)' = SumTo(g, n)
  BY DEF ChargedUpTo, Periods
<1> HIDE DEF f, g
<1>5. SumTo(f, n) = SumTo(g, n)
  BY <1>0, <1>3, SumEqual
<1> QED BY <1>4, <1>5

(* The same for the turns of the dials.                                    *)
LEMMA TurnFrame ==
  ASSUME DialTypes, DialTypes', NEW n \in 0 .. LastPeriod,
         \A q \in 1 .. n : TurnsIn(q)' = TurnsIn(q)
  PROVE  Turns(n)' = Turns(n)
<1> DEFINE f == [q \in Periods |-> TurnsIn(q)]
           g == [q \in Periods |-> TurnsIn(q)']
<1>0. LastPeriod \in Nat /\ n \in Nat
  BY SettlementsAssumption
<1>1. \A i \in 1 .. n : i \in Periods
  BY <1>0 DEF Periods
<1>2. \A q \in Periods : TurnsIn(q) \in Int
  BY TurnSum DEF TurnRule
<1>3. \A i \in 1 .. n : f[i] \in Int /\ g[i] = f[i]
  BY <1>1, <1>2
<1>4. Turns(n) = SumTo(f, n) /\ Turns(n)' = SumTo(g, n)
  BY DEF Turns, Periods
<1> HIDE DEF f, g
<1>5. SumTo(f, n) = SumTo(g, n)
  BY <1>0, <1>3, SumEqual
<1> QED BY <1>4, <1>5
-----------------------------------------------------------------------------
(* Where the next period starts, once everything before it is settled.     *)
StartShape(p, m) ==
    LET s == StartOf(p, m)
    IN  IF Applied(p, m) THEN s.dial = reading[p].dial /\ s.source = "READING"
        ELSE IF p = 1 \/ m \notin MetersIn(p - 1) THEN s = Initial
        ELSE IF Applied(p - 1, m)
        THEN s.dial = reading[p - 1].dial /\ s.source = "READING"
        ELSE /\ s.dial = settled[p - 1].part[m].end
             /\ s.source = settled[p - 1].part[m].source

StartRule ==
    \A p \in Periods, m \in Meters :
        m \in MetersIn(p) /\ AllSettledTo(p - 1) => StartShape(p, m)

(* prevChain when everything before the period is settled: the period's    *)
(* own reconciliation, else that of the period before, else the end of the *)
(* part before, else the dial at its installation.                         *)
LEMMA StartShapes == DialTypes /\ PartsFit /\ OutcomesKnown => StartRule
<1> SUFFICES ASSUME DialTypes, PartsFit, OutcomesKnown,
                    NEW p \in Periods, NEW m \in Meters,
                    m \in MetersIn(p), AllSettledTo(p - 1)
             PROVE  StartShape(p, m)
  BY DEF StartRule
<1> USE SettlementsAssumption
<1> DEFINE PB == PartsBefore(p, m)
           RC == Reconciled(p, m)
<1>0. /\ p \in Nat /\ p >= 1 /\ LastPeriod \in Nat /\ p <= LastPeriod
      /\ swap.period \in 0 .. LastPeriod
      /\ \A q \in 1 .. p : q \in Periods /\ q \in Nat
  BY DEF Periods, DialTypes
<1>1. \A q \in 1 .. p - 1 : q \in PB <=> m \in MetersIn(q)
  <2> SUFFICES ASSUME NEW q \in 1 .. p - 1 PROVE q \in PB <=> m \in MetersIn(q)
    OBVIOUS
  <2>1. IsSettled(q) /\ q \in Periods
    BY <1>0 DEF AllSettledTo
  <2>2. PartFits(settled[q].part[m], q, m)
    BY <2>1 DEF PartsFit
  <2>3. CASE m \in MetersIn(q)
    BY <2>1, <2>2, <2>3 DEF PartFits, PartsBefore, Sourced
  <2>4. CASE m \notin MetersIn(q)
    BY <2>1, <2>2, <2>4 DEF PartFits, PartsBefore, Sourced, NoPart
  <2> QED BY <2>3, <2>4
<1>2. \A q \in 1 .. p - 1 : m \in MetersIn(q) => m \in MetersIn(p - 1)
  BY <1>0 DEF MetersIn
<1>3. \A q \in RC : q \in 1 .. p /\ Applied(q, m) /\ m \in MetersIn(q)
  <2> SUFFICES ASSUME NEW q \in RC PROVE q \in 1 .. p /\ Applied(q, m) /\ m \in MetersIn(q)
    OBVIOUS
  <2>1. q \in 1 .. p /\ Applied(q, m) /\ q \in Periods
    BY <1>0, ReconciledSet DEF ReconciledRule
  <2>2. Level(q) /\ reading[q].meter = m
    BY <2>1 DEF OutcomesKnown, Applied
  <2>3. m \in MetersIn(q)
    BY <2>1, <2>2, <1>0 DEF Level, MetersIn
  <2> QED BY <2>1, <2>3
<1>4. \A q \in 1 .. p : Applied(q, m) => q \in RC
  BY ReconciledSet DEF ReconciledRule
<1>5. PB \in SUBSET (1 .. LastPeriod) /\ RC \in SUBSET (1 .. LastPeriod)
  BY <1>0 DEF PartsBefore, Reconciled
<1>6. RC # {} => Max(RC) \in RC /\ \A x \in RC : x <= Max(RC)
  <2> HIDE DEF RC
  <2> QED BY <1>0, <1>5, MaxOf
<1>7. PB # {} => Max(PB) \in PB /\ \A x \in PB : x <= Max(PB)
  <2> HIDE DEF PB
  <2> QED BY <1>0, <1>5, MaxOf
<1>8. PB \in SUBSET (1 .. p - 1)
  BY DEF PartsBefore
<1>9. CASE p = 1 \/ m \notin MetersIn(p - 1)
  <2>1. PB = {}
    <3>1. CASE p = 1
      BY <3>1, <1>0, <1>8
    <3>2. CASE m \notin MetersIn(p - 1)
      BY <3>2, <1>1, <1>2, <1>8
    <3> QED BY <3>1, <3>2, <1>9
  <2>2. LastPart(p, m) = Initial
    BY <2>1 DEF LastPart
  <2>3. CASE Applied(p, m)
    <3>1. p \in RC /\ Max(RC) = p
      BY <1>0, <1>3, <1>4, <1>6, <2>3
    <3>2. RC # {} /\ Replaces(Max(RC), Initial)
      BY <3>1, <1>0 DEF Replaces, Initial
    <3> QED BY <2>2, <2>3, <3>1, <3>2 DEF StartShape, StartOf
  <2>4. CASE ~ Applied(p, m)
    <3>1. RC = {}
      <4> SUFFICES ASSUME NEW q \in RC PROVE FALSE
        OBVIOUS
      <4>1. q \in 1 .. p /\ q # p /\ m \in MetersIn(q)
        BY <1>3, <2>4
      <4>2. q \in 1 .. p - 1
        BY <4>1, <1>0
      <4> QED BY <4>1, <4>2, <1>2, <1>9, <1>0
    <3>2. StartOf(p, m) = Initial
      BY <2>2, <3>1 DEF StartOf
    <3> QED BY <2>4, <1>9, <3>2 DEF StartShape
  <2> QED BY <2>3, <2>4
<1>10. CASE p # 1 /\ m \in MetersIn(p - 1)
  <2> DEFINE z == settled[p - 1].part[m]
             prior == LastPart(p, m)
  <2>0. p - 1 \in 1 .. p - 1 /\ p - 1 \in Periods /\ p - 1 \in Nat
    BY <1>0, <1>10
  <2>1. p - 1 \in PB /\ Max(PB) = p - 1
    BY <2>0, <1>1, <1>7, <1>8, <1>10, <1>0
  <2>2. prior = [dial |-> z.end, source |-> z.source, period |-> p - 1]
    BY <2>1 DEF LastPart
  <2>3. PartFits(z, p - 1, m) /\ ~ Removed(p - 1, m)
    <3>1. IsSettled(p - 1)
      BY <2>0 DEF AllSettledTo
    <3>2. ~ Removed(p - 1, m)
      BY <1>0, <1>10 DEF Removed, MetersIn
    <3> QED BY <2>0, <3>1, <3>2 DEF PartsFit
  <2> HIDE DEF prior, z
  <2>4. CASE Applied(p, m)
    <3>1. p \in RC /\ Max(RC) = p
      BY <1>0, <1>3, <1>4, <1>6, <2>4
    <3>2. RC # {} /\ Replaces(Max(RC), prior)
      BY <3>1, <2>2, <1>0 DEF Replaces
    <3>3. StartOf(p, m) = [dial |-> reading[p].dial, source |-> "READING", period |-> p]
      BY <3>1, <3>2 DEF StartOf, prior
    <3> QED BY <2>4, <3>3 DEF StartShape
  <2>5. CASE ~ Applied(p, m) /\ Applied(p - 1, m)
    <3>1. \A q \in RC : q <= p - 1
      BY <1>3, <2>5, <1>0
    <3>2. p - 1 \in RC /\ Max(RC) = p - 1
      <4>1. p - 1 \in 1 .. p
        BY <1>0, <2>0
      <4>2. p - 1 \in RC
        BY <4>1, <1>4, <2>5
      <4>3. Max(RC) \in RC /\ p - 1 <= Max(RC) /\ Max(RC) <= p - 1
        BY <4>2, <1>6, <3>1
      <4>4. Max(RC) \in 1 .. p
        BY <4>3, <1>3
      <4> QED BY <4>2, <4>3, <4>4, <1>0
    <3>3. reading[p - 1].meter = m
      BY <2>5 DEF Applied
    <3>4. CASE z.source = "ESTIMATE"
      <4>1. Replaces(p - 1, prior)
        <5>1. prior.period = p - 1
          BY <2>2
        <5>2. settled[p - 1].part[reading[p - 1].meter] = z
          BY <3>3 DEF z
        <5> QED BY <5>1, <5>2, <3>4 DEF Replaces
      <4>2. RC # {} /\ Replaces(Max(RC), prior)
        BY <3>2, <4>1
      <4>3. StartOf(p, m) = [dial |-> reading[p - 1].dial, source |-> "READING",
                             period |-> p - 1]
        BY <3>2, <4>2 DEF StartOf, prior
      <4> QED BY <2>5, <1>10, <4>3 DEF StartShape
    <3>5. CASE z.source = "READING"
      <4>1. z.end = reading[p - 1].dial /\ z.rev = reading[p - 1].rev
        BY <2>3, <3>5, <1>10 DEF PartFits
      <4>2. z.rev \in Int
        BY <4>1, <2>0 DEF DialTypes, Revisions
      <4>3. ~ Replaces(p - 1, prior)
        <5>1. prior.period = p - 1
          BY <2>2
        <5>2. ~ (p - 1 > p - 1) /\ ~ (z.rev < reading[p - 1].rev)
          BY <4>1, <4>2, <2>0
        <5> QED BY <5>1, <5>2, <3>3, <3>5 DEF Replaces, z
      <4>4. StartOf(p, m) = prior
        BY <3>2, <4>3 DEF StartOf, prior
      <4> QED BY <2>5, <1>10, <2>2, <3>5, <4>1, <4>4 DEF StartShape
    <3> QED BY <2>3, <1>10, <3>4, <3>5 DEF PartFits
  <2>6. CASE ~ Applied(p, m) /\ ~ Applied(p - 1, m)
    <3>1. RC # {} => ~ Replaces(Max(RC), prior)
      <4> SUFFICES ASSUME RC # {} PROVE ~ Replaces(Max(RC), prior)
        OBVIOUS
      <4>1. Max(RC) \in 1 .. p /\ Max(RC) # p /\ Max(RC) # p - 1
        BY <1>3, <1>6, <2>6
      <4>2. Max(RC) < p - 1 /\ prior.period = p - 1
        BY <4>1, <1>0, <2>2
      <4>3. Max(RC) \in Int
        BY <4>1
      <4> QED BY <4>2, <4>3, <2>0 DEF Replaces
    <3>2. StartOf(p, m) = prior
      BY <3>1 DEF StartOf, prior
    <3> QED BY <2>6, <1>10, <2>2, <3>2 DEF StartShape, z
  <2> QED BY <2>4, <2>5, <2>6
<1> QED BY <1>9, <1>10
(* The meter on which the next period goes on.                             *)
OnMeter(p) == IF swap.period = 0 \/ p < swap.period THEN 1 ELSE 2

NextRule ==
    \A p \in Periods :
        p + 1 \in Periods /\ AllSettledTo(p) /\ Outcome(p + 1) # "APPLIED" =>
            /\ StartIn(p + 1, 1) \in Int /\ StartIn(p + 1, 2) \in Int
            /\ StartIn(p + 1, 1) + StartIn(p + 1, 2) =
                 IF Applied(p, OnMeter(p)) THEN reading[p].dial
                 ELSE settled[p].part[OnMeter(p)].end

(* So the period after one that is settled starts where that one ends.     *)
LEMMA NextFollows == DialTypes /\ PartsFit /\ OutcomesKnown => NextRule
<1> SUFFICES ASSUME DialTypes, PartsFit, OutcomesKnown, NEW p \in Periods,
                    p + 1 \in Periods, AllSettledTo(p), Outcome(p + 1) # "APPLIED"
             PROVE  /\ StartIn(p + 1, 1) \in Int /\ StartIn(p + 1, 2) \in Int
                    /\ StartIn(p + 1, 1) + StartIn(p + 1, 2) =
                         IF Applied(p, OnMeter(p)) THEN reading[p].dial
                         ELSE settled[p].part[OnMeter(p)].end
  BY DEF NextRule
<1> USE SettlementsAssumption
<1> DEFINE q == p + 1
           end == IF Applied(p, OnMeter(p)) THEN reading[p].dial
                  ELSE settled[p].part[OnMeter(p)].end
<1>1. /\ p \in Int /\ 1 <= p /\ q \in Periods /\ q # 1 /\ q - 1 = p
      /\ swap.period \in 0 .. LastPeriod /\ AllSettledTo(q - 1)
  BY DEF Periods, DialTypes
<1>2. \A m \in Meters : m \in MetersIn(q) => StartShape(q, m)
  BY <1>1, StartShapes DEF StartRule
<1>3. \A m \in Meters : ~ Applied(q, m)
  BY DEF Applied
<1>4. OnMeter(p) \in Meters /\ OnMeter(p) \in MetersIn(q) /\ OnMeter(p) \in MetersIn(p)
  BY <1>1 DEF OnMeter, MetersIn, Meters
<1>5. StartIn(q, OnMeter(p)) = end
  <2>1. StartShape(q, OnMeter(p)) /\ ~ Applied(q, OnMeter(p))
    BY <1>2, <1>3, <1>4
  <2>2. StartOf(q, OnMeter(p)).dial = end
    BY <1>1, <1>4, <2>1 DEF StartShape
  <2> QED BY <1>4, <2>2 DEF StartIn
<1>6. \A m \in Meters : m # OnMeter(p) => StartIn(q, m) = 0
  <2> SUFFICES ASSUME NEW m \in Meters, m # OnMeter(p) PROVE StartIn(q, m) = 0
    OBVIOUS
  <2>1. CASE m \notin MetersIn(q)
    BY <2>1 DEF StartIn
  <2>2. CASE m \in MetersIn(q)
    <3>1. m \notin MetersIn(p)
      BY <1>1, <2>2 DEF MetersIn, Meters, OnMeter
    <3>2. StartOf(q, m) = Initial
      BY <1>1, <1>2, <1>3, <2>2, <3>1 DEF StartShape
    <3> QED BY <3>2 DEF StartIn, Initial
  <2> QED BY <2>1, <2>2
<1>7. end \in Int
  <2>1. reading[p].dial \in Int /\ settled[p].part[OnMeter(p)] \in PartSet
    BY <1>4 DEF DialTypes, Dial
  <2> QED BY <2>1 DEF PartSet
<1> HIDE DEF end
<1>8. CASE OnMeter(p) = 1
  BY <1>5, <1>6, <1>7, <1>8 DEF Meters, end
<1>9. CASE OnMeter(p) = 2
  BY <1>5, <1>6, <1>7, <1>9 DEF Meters, end
<1> QED BY <1>4, <1>8, <1>9 DEF Meters

-----------------------------------------------------------------------------
(* What a step leaves as it was.                                           *)
LEMMA BooksFrame ==
  ASSUME UNCHANGED <<swap, settled, shift>>
  PROVE  /\ \A n : ChargedUpTo(n)' = ChargedUpTo(n) /\ Turns(n)' = Turns(n)
         /\ \A n : Past(n)' = Past(n) /\ MetersIn(n)' = MetersIn(n)
<1>1. swap' = swap /\ settled' = settled /\ shift' = shift
  OBVIOUS
<1>2. ASSUME NEW n PROVE ChargedUpTo(n)' = ChargedUpTo(n)
  BY <1>1 DEF ChargedUpTo, Charged, Total
<1>3. ASSUME NEW n PROVE Turns(n)' = Turns(n)
  BY <1>1 DEF Turns, TurnsIn, Turned
<1>4. ASSUME NEW n PROVE Past(n)' = Past(n)
  BY <1>1, <1>3 DEF Past, Behind
<1>5. ASSUME NEW n PROVE MetersIn(n)' = MetersIn(n)
  BY <1>1 DEF MetersIn
<1> QED BY <1>2, <1>3, <1>4, <1>5

(* prevChain depends on the parts, on which periods are settled and on the *)
(* readings of APPLIED reconciliations only.                               *)
LEMMA StartFrame ==
  ASSUME DialTypes,
         \A q \in Periods : /\ settled'[q].part = settled[q].part
                            /\ IsSettled(q)' = IsSettled(q),
         \A q \in Periods, n \in Meters : Reconciled(q, n)' = Reconciled(q, n),
         \A q \in Periods : Trusted(q) /\ Outcome(q) = "APPLIED" => reading'[q] = reading[q],
         NEW p \in Periods, NEW m \in Meters
  PROVE  StartOf(p, m)' = StartOf(p, m)
<1> USE SettlementsAssumption
<1>1. PartsBefore(p, m)' = PartsBefore(p, m)
  <2>1. \A x \in 1 .. p - 1 : x \in Periods
    BY DEF Periods
  <2>2. \A x \in Periods : Sourced(x, m)' = Sourced(x, m)
    BY DEF Sourced
  <2> QED BY <2>1, <2>2 DEF PartsBefore
<1>2. LastPart(p, m)' = LastPart(p, m)
  <2>1. CASE PartsBefore(p, m) = {}
    BY <1>1, <2>1 DEF LastPart
  <2>2. CASE PartsBefore(p, m) # {}
    <3>1. PartsBefore(p, m) \in SUBSET (1 .. LastPeriod) /\ LastPeriod \in Nat
      BY DEF PartsBefore, Periods
    <3>2. PICK x \in Periods : x = Max(PartsBefore(p, m))
      BY <2>2, <3>1, MaxOf DEF Periods
    <3>3. LastPart(p, m) = [dial |-> settled[x].part[m].end,
                            source |-> settled[x].part[m].source, period |-> x]
      BY <2>2, <3>2 DEF LastPart
    <3>4. x = Max(PartsBefore(p, m)')
      BY <1>1, <3>2
    <3>5. LastPart(p, m)' = [dial |-> settled'[x].part[m].end,
                             source |-> settled'[x].part[m].source, period |-> x]
      BY <1>1, <2>2, <3>4 DEF LastPart
    <3> QED BY <3>3, <3>5
  <2> QED BY <2>1, <2>2
<1>3. Reconciled(p, m)' = Reconciled(p, m)
  OBVIOUS
<1>4. CASE Reconciled(p, m) = {}
  BY <1>2, <1>3, <1>4 DEF StartOf
<1>5. CASE Reconciled(p, m) # {}
  <2>1. Reconciled(p, m) \in SUBSET (1 .. LastPeriod) /\ LastPeriod \in Nat
    BY DEF Reconciled, Periods
  <2>2. PICK q \in Periods : q = Max(Reconciled(p, m)) /\ q \in Reconciled(p, m)
    BY <1>5, <2>1, MaxOf DEF Periods
  <2>3. Trusted(q) /\ Outcome(q) = "APPLIED"
    BY <2>2 DEF Reconciled, Outcome
  <2>4. reading'[q] = reading[q]
    BY <2>3
  <2>5. q = Max(Reconciled(p, m)')
    BY <2>2, <1>3
  <2> DEFINE prior == LastPart(p, m)
  <2>6. Replaces(q, prior)' <=> Replaces(q, prior)
    BY <1>2, <2>4 DEF Replaces
  <2>7. StartOf(p, m) = IF Replaces(q, prior)
                        THEN [dial |-> reading[q].dial, source |-> "READING", period |-> q]
                        ELSE prior
    BY <1>5, <2>2 DEF StartOf
  <2>8. StartOf(p, m)' = IF Replaces(q, prior)'
                         THEN [dial |-> reading'[q].dial, source |-> "READING", period |-> q]
                         ELSE prior'
    BY <1>5, <1>3, <2>5 DEF StartOf
  <2> QED BY <1>2, <2>4, <2>6, <2>7, <2>8
<1> QED BY <1>4, <1>5

(* A step that changes nothing but the work under way.                     *)
LEMMA QuietFrame ==
  ASSUME DialTypes, DialFacts, UNCHANGED <<reading, swap, settled, shift, recon>>
  PROVE  /\ SettledInOrder' /\ ReadingsMetered' /\ PartsFit' /\ TurnsSeen' /\ ShiftsApplied'
         /\ OutcomesKnown' /\ DraftsStart' /\ KnownCharged' /\ NextStarts'
         /\ \A k \in Clerks : draft'[k] = draft[k] => WorkFits(k)'
<1>0. reading' = reading /\ swap' = swap /\ settled' = settled /\ shift' = shift
      /\ recon' = recon
  OBVIOUS
<1>1. \A q : /\ IsSettled(q)' = IsSettled(q) /\ Trusted(q)' = Trusted(q)
             /\ Outcome(q)' = Outcome(q) /\ Level(q)' = Level(q)
             /\ AllSettledTo(q)' = AllSettledTo(q)
  BY <1>0 DEF IsSettled, Trusted, Outcome, Level, AllSettledTo
<1>2. \A q, m : Turned(q, m)' = Turned(q, m) /\ Removed(q, m)' = Removed(q, m)
  BY <1>0 DEF Turned, Removed
<1>3. \A n : /\ ChargedUpTo(n)' = ChargedUpTo(n) /\ Past(n)' = Past(n)
             /\ MetersIn(n)' = MetersIn(n)
  BY BooksFrame
<1>4. ASSUME NEW p \in Periods, NEW m \in Meters PROVE StartOf(p, m)' = StartOf(p, m)
  <2>1. \A q \in Periods, n \in Meters : Reconciled(q, n)' = Reconciled(q, n)
    BY <1>0 DEF Reconciled, Trusted
  <2> QED BY <1>0, <1>1, <2>1, StartFrame
<1>5. \A z, q, m : PartFits(z, q, m)' = PartFits(z, q, m)
  BY <1>0 DEF PartFits, MetersIn, Removed, Trusted
<1>6. SettledInOrder' /\ ReadingsMetered'
  BY <1>0, <1>1 DEF DialFacts, SettledInOrder, ReadingsMetered
<1>7. PartsFit'
  BY <1>0, <1>1, <1>5 DEF DialFacts, PartsFit
<1>8. TurnsSeen'
  BY <1>0, <1>1, <1>2 DEF DialFacts, TurnsSeen
<1>9. ShiftsApplied'
  BY <1>0, <1>1 DEF DialFacts, ShiftsApplied
<1>10. OutcomesKnown'
  BY <1>0, <1>1 DEF DialFacts, OutcomesKnown
<1>11. DraftsStart'
  BY <1>0, <1>3 DEF DialFacts, DraftsStart
<1>12. KnownCharged'
  BY <1>0, <1>1, <1>3 DEF DialFacts, KnownCharged, Known
<1>13. NextStarts'
  <2>1. \A p \in Periods : StartIn(p, 1)' = StartIn(p, 1) /\ StartIn(p, 2)' = StartIn(p, 2)
    BY <1>3, <1>4 DEF StartIn, Meters
  <2> QED BY <1>1, <1>3, <2>1 DEF DialFacts, NextStarts
<1>14. ASSUME NEW k \in Clerks, draft'[k] = draft[k] PROVE WorkFits(k)'
  <2>1. WorkFits(k)
    BY DEF DialFacts, DraftsFit
  <2> QED BY <1>0, <1>1, <1>5, <1>14, <2>1 DEF WorkFits
<1> QED BY <1>6, <1>7, <1>8, <1>9, <1>10, <1>11, <1>12, <1>13, <1>14

(* A level reading is of the only meter of its period.                     *)
LEMMA LevelMeter ==
  DialTypes => \A q \in Periods : Level(q) => /\ MetersIn(q) = {reading[q].meter}
                                              /\ q # swap.period /\ q + 1 # 0
BY SettlementsAssumption DEF Level, MetersIn, DialTypes, Periods, Meters

(* A generation computes parts that fit the readings it saw.               *)
LEMMA GeneratedFit ==
  ASSUME DialTypes, OutcomesKnown, NEW p \in Periods, NEW e \in [Meters -> Int]
  PROVE  /\ \A m \in Meters : PartFits(Parts(p, e)[m], p, m) /\ Measured(Parts(p, e)[m])
         /\ Outcome(p) = "APPLIED" => Parts(p, e)[reading[p].meter].source = "READING"
<1>1. ASSUME NEW m \in Meters, m \notin MetersIn(p)
      PROVE  PartFits(Parts(p, e)[m], p, m) /\ Measured(Parts(p, e)[m])
  BY <1>1, PartsTypes DEF PartFits, Measured, NoPart
<1>2. ASSUME NEW m \in Meters, m \in MetersIn(p)
      PROVE  PartFits(Parts(p, e)[m], p, m) /\ Measured(Parts(p, e)[m])
  <2> DEFINE z == Parts(p, e)[m]
  <2>1. /\ z.prev \in Int /\ z.prev = StartOf(p, m).dial
        /\ HasDial(p, m) => /\ z.source = "READING" /\ z.end = EndDial(p, m)
                            /\ z.usage = DialUsage(z.prev, z.end)
                            /\ ~ Removed(p, m) => z.rev = reading[p].rev
        /\ ~ HasDial(p, m) => /\ z.source = "ESTIMATE" /\ z.end = z.prev + e[m]
                              /\ z.usage = e[m] /\ e[m] \in Int
    BY <1>2, PartsTypes, StartTypes
  <2> HIDE DEF z
  <2>2. CASE HasDial(p, m)
    <3>1. PartFits(z, p, m) /\ Measured(z)
      BY <1>2, <2>1, <2>2 DEF PartFits, Measured, HasDial, EndDial
    <3> QED BY <3>1 DEF z
  <2>3. CASE ~ HasDial(p, m)
    <3>1. PartFits(z, p, m) /\ Measured(z)
      BY <1>2, <2>1, <2>3 DEF PartFits, Measured, HasDial
    <3> QED BY <3>1 DEF z
  <2> QED BY <2>2, <2>3
<1>3. ASSUME Outcome(p) = "APPLIED" PROVE Parts(p, e)[reading[p].meter].source = "READING"
  <2>1. Trusted(p) /\ Level(p)
    BY <1>3 DEF OutcomesKnown
  <2>2. reading[p].meter \in MetersIn(p)
    BY <2>1, LevelMeter
  <2>3. HasDial(p, reading[p].meter)
    BY <2>1 DEF HasDial
  <2> QED BY <2>2, <2>3, PartsTypes
<1> QED BY <1>1, <1>2, <1>3

(* StartGenerate and Recheck keep the facts.                               *)
LEMMA GenerateFacts ==
  ASSUME DialTypes, DialTypes', DialFacts, NEW k \in Clerks,
         \/ \E p \in Periods : StartGenerate(k, p)
         \/ Recheck(k)
  PROVE  DialFacts'
<1> USE SettlementsAssumption
<1>1. UNCHANGED <<reading, swap, settled, shift, recon>>
  BY DEF StartGenerate, Recheck, UnchangedFacts, UnchangedMoney
<1>2. \A c \in Clerks : c # k => draft'[c] = draft[c]
  BY DEF StartGenerate, Recheck, Keep, DialTypes
<1>3. /\ draft'[k].at # "write"
      \/ \E p \in Periods, e \in [Meters -> Int] :
             draft'[k] = [at |-> "write", period |-> p, part |-> Parts(p, e)]
  <2>1. ASSUME NEW p \in Periods, StartGenerate(k, p)
        PROVE  \/ draft'[k].at # "write"
               \/ \E e \in [Meters -> Int] :
                    draft'[k] = [at |-> "write", period |-> p, part |-> Parts(p, e)]
    <3>1. CASE OverEstimated(p)
      <4>1. draft'[k] = [at |-> "recheck", period |-> p]
        BY <2>1, <3>1 DEF StartGenerate, Keep, DialTypes
      <4> QED BY <4>1
    <3>2. CASE ~ OverEstimated(p)
      <4>1. PICK e \in [Meters -> 0 .. MaxEstimate] :
              draft' = [draft EXCEPT ![k] = [at |-> "write", period |-> p, part |-> Parts(p, e)]]
        BY <2>1, <3>2 DEF StartGenerate, Keep
      <4>2. e \in [Meters -> Int]
        OBVIOUS
      <4> QED BY <4>1, <4>2 DEF DialTypes
    <3> QED BY <3>1, <3>2
  <2>2. ASSUME Recheck(k)
        PROVE  \/ draft'[k].at # "write"
               \/ \E p \in Periods, e \in [Meters -> Int] :
                    draft'[k] = [at |-> "write", period |-> p, part |-> Parts(p, e)]
    <3>1. draft[k] \in Blocked
      BY <2>2, WorkKinds DEF Recheck
    <3>2. PICK p \in Periods : p = draft[k].period
      BY <3>1 DEF Blocked
    <3>3. CASE draft' = [draft EXCEPT ![k] = NoDraft]
      BY <3>3 DEF NoDraft, DialTypes
    <3>4. CASE draft' = [draft EXCEPT ![k] = [at |-> "write", period |-> p,
                                              part |-> Parts(p, [m \in Meters |-> 0])]]
      <4>1. [m \in Meters |-> 0] \in [Meters -> Int]
        OBVIOUS
      <4> QED BY <3>4, <4>1 DEF DialTypes
    <3> QED BY <2>2, <3>2, <3>3, <3>4 DEF Recheck, Keep
  <2> QED BY <2>1, <2>2
<1>4. OutcomesKnown
  BY DEF DialFacts
<1>5. WorkFits(k)'
  <2>1. CASE draft'[k].at # "write"
    BY <2>1 DEF WorkFits
  <2>2. ASSUME NEW p \in Periods, NEW e \in [Meters -> Int],
               draft'[k] = [at |-> "write", period |-> p, part |-> Parts(p, e)]
        PROVE  WorkFits(k)'
    <3> DEFINE z == Parts(p, e)
    <3>1. /\ \A m \in Meters : PartFits(z[m], p, m) /\ Measured(z[m])
          /\ Outcome(p) = "APPLIED" => z[reading[p].meter].source = "READING"
      BY <1>4, GeneratedFit
    <3> HIDE DEF z
    <3>2. draft'[k].period = p /\ draft'[k].part = z
      BY <2>2 DEF z
    <3>3. reading' = reading /\ swap' = swap /\ settled' = settled /\ recon' = recon
      BY <1>1
    <3>4. /\ Outcome(draft[k].period)' = Outcome(p)
          /\ IsSettled(draft[k].period)' = IsSettled(p)
      BY <3>2, <3>3 DEF Outcome, IsSettled
    <3>5. \A m \in Meters : PartFits(draft[k].part[m], draft[k].period, m)'
                              /\ Measured(draft[k].part[m])'
      <4> SUFFICES ASSUME NEW m \in Meters
                   PROVE  PartFits(draft[k].part[m], draft[k].period, m)'
                            /\ Measured(draft[k].part[m])'
        OBVIOUS
      <4>1. PartFits(draft[k].part[m], draft[k].period, m)'
        BY <3>1, <3>2, <3>3 DEF PartFits, MetersIn, Removed, Trusted
      <4>2. Measured(draft[k].part[m])'
        BY <3>1, <3>2 DEF Measured, DialUsage
      <4> QED BY <4>1, <4>2
    <3> QED BY <3>1, <3>2, <3>3, <3>4, <3>5 DEF WorkFits
  <2> QED BY <1>3, <2>1, <2>2
<1>6. DraftsFit'
  BY <1>1, <1>2, <1>5, QuietFrame DEF DraftsFit
<1> QED BY <1>1, <1>6, QuietFrame DEF DialFacts

(* A step that changes none of the facts keeps them.                       *)
LEMMA QuietFacts ==
  ASSUME DialTypes, DialFacts, UNCHANGED <<reading, swap, settled, shift, recon, draft>>
  PROVE  DialFacts'
<1>1. \A k \in Clerks : draft'[k] = draft[k]
  OBVIOUS
<1>2. DraftsFit'
  BY <1>1, QuietFrame DEF DraftsFit
<1> QED BY <1>2, QuietFrame DEF DialFacts

(* Finalize keeps the facts: a part stays as it was drafted.               *)
LEMMA FinalizeFacts ==
  ASSUME DialTypes, DialTypes', DialFacts, NEW p \in Periods, Finalize(p)
  PROVE  DialFacts'
<1> USE SettlementsAssumption
<1>0. /\ settled' = [settled EXCEPT ![p] = [settled[p] EXCEPT !.status = "FINAL"]]
      /\ settled[p].status = "DRAFT"
      /\ reading' = reading /\ swap' = swap /\ shift' = shift /\ recon' = recon
      /\ draft' = draft
  BY DEF Finalize, UnchangedFacts, DialTypes
<1>1. \A q \in Periods :
         /\ settled'[q].part = settled[q].part
         /\ settled'[q].status = IF q = p THEN "FINAL" ELSE settled[q].status
  <2>1. settled[p] \in [status : Statuses, part : [Meters -> PartSet]]
    BY DEF DialTypes
  <2> QED BY <1>0, <2>1 DEF DialTypes
<1>2. \A q \in Periods : IsSettled(q)' = IsSettled(q)
  BY <1>0, <1>1 DEF IsSettled
<1>3. /\ \A q : Trusted(q)' = Trusted(q) /\ Outcome(q)' = Outcome(q) /\ Level(q)' = Level(q)
      /\ \A q, m : Removed(q, m)' = Removed(q, m)
      /\ \A q : MetersIn(q)' = MetersIn(q) /\ Behind(q)' = Behind(q)
  BY <1>0 DEF Trusted, Outcome, Level, Removed, MetersIn, Behind
<1>4. \A q \in Periods, m \in Meters : Turned(q, m)' = Turned(q, m)
  BY <1>1 DEF Turned
<1>5. \A q \in Periods : Charged(q)' = Charged(q) /\ TurnsIn(q)' = TurnsIn(q)
  BY <1>0, <1>1, <1>4 DEF Charged, Total, TurnsIn, Meters
<1>6. \A n \in 0 .. LastPeriod : /\ ChargedUpTo(n)' = ChargedUpTo(n)
                                 /\ Past(n)' = Past(n)
  <2> SUFFICES ASSUME NEW n \in 0 .. LastPeriod
               PROVE  ChargedUpTo(n)' = ChargedUpTo(n) /\ Past(n)' = Past(n)
    OBVIOUS
  <2>1. \A q \in 1 .. n : q \in Periods
    BY DEF Periods
  <2>2. ChargedUpTo(n)' = ChargedUpTo(n)
    BY <1>5, <2>1, ChargedFrame
  <2>3. Turns(n)' = Turns(n)
    BY <1>5, <2>1, TurnFrame
  <2> QED BY <1>3, <2>2, <2>3 DEF Past
<1>7. \A q \in Periods : q \in 0 .. LastPeriod /\ q - 1 \in 0 .. LastPeriod
  BY DEF Periods
<1>8. \A q \in Periods : AllSettledTo(q - 1)' = AllSettledTo(q - 1)
  <2>1. \A q \in Periods : \A x \in 1 .. q - 1 : x \in Periods
    BY DEF Periods
  <2> QED BY <1>2, <2>1 DEF AllSettledTo
<1>9. ASSUME NEW q \in Periods, NEW m \in Meters PROVE StartOf(q, m)' = StartOf(q, m)
  <2>1. \A x \in Periods, n \in Meters : Reconciled(x, n)' = Reconciled(x, n)
    BY <1>0 DEF Reconciled, Trusted
  <2> QED BY <1>0, <1>1, <1>2, <2>1, StartFrame
<1>10. \A z : \A q \in Periods, m \in Meters : PartFits(z, q, m)' = PartFits(z, q, m)
  BY <1>0 DEF PartFits, MetersIn, Removed, Trusted
<1>11. SettledInOrder' /\ ReadingsMetered'
  BY <1>0, <1>2 DEF DialFacts, SettledInOrder, ReadingsMetered
<1>12. PartsFit'
  <2> SUFFICES ASSUME NEW q \in Periods, NEW m \in Meters, IsSettled(q)'
               PROVE  PartFits(settled[q].part[m], q, m)'
    BY DEF PartsFit
  <2>1. PartFits(settled[q].part[m], q, m) /\ settled'[q].part[m] = settled[q].part[m]
    BY <1>1, <1>2 DEF DialFacts, PartsFit
  <2> QED BY <1>0, <2>1 DEF PartFits, MetersIn, Removed, Trusted
<1>13. TurnsSeen'
  BY <1>0, <1>1, <1>2, <1>3, <1>4 DEF DialFacts, TurnsSeen
<1>14. ShiftsApplied'
  BY <1>0, <1>1, <1>3 DEF DialFacts, ShiftsApplied
<1>15. OutcomesKnown'
  BY <1>0, <1>1, <1>2, <1>3, <1>8 DEF DialFacts, OutcomesKnown
<1>16. DraftsStart'
  <2> SUFFICES ASSUME NEW q \in Periods, settled'[q].status = "DRAFT", q # swap.period,
                      NEW m \in MetersIn(q)
               PROVE  ChargedUpTo(q - 1)' = Past(q - 1)' + settled'[q].part[m].prev
    BY <1>0, <1>3 DEF DraftsStart
  <2>1. settled[q].status = "DRAFT"
    BY <1>1
  <2>2. ChargedUpTo(q - 1) = Past(q - 1) + settled[q].part[m].prev
    BY <2>1 DEF DialFacts, DraftsStart
  <2> QED BY <1>1, <1>6, <1>7, <2>2
<1>17. KnownCharged'
  <2> SUFFICES ASSUME NEW q \in Periods, Known(q)'
               PROVE  ChargedUpTo(q)' = Past(q)' + reading'[q].dial
    BY DEF KnownCharged
  <2>1. Known(q)
    BY <1>0, <1>1, <1>2, <1>3 DEF Known
  <2> QED BY <1>0, <1>6, <1>7, <2>1 DEF DialFacts, KnownCharged
<1>18. NextStarts'
  <2>1. \A q \in Periods : StartIn(q, 1)' = StartIn(q, 1) /\ StartIn(q, 2)' = StartIn(q, 2)
    BY <1>3, <1>9 DEF StartIn, Meters
  <2> QED BY <1>2, <1>6, <1>7, <1>8, <2>1 DEF DialFacts, NextStarts
<1>19. DraftsFit'
  <2> SUFFICES ASSUME NEW k \in Clerks PROVE WorkFits(k)'
    BY DEF DraftsFit
  <2>1. WorkFits(k) /\ draft'[k] = draft[k]
    BY <1>0 DEF DialFacts, DraftsFit
  <2>2. CASE draft[k].at = "write"
    <3>1. draft[k] \in Written
      BY <2>2, WorkKinds
    <3>2. PICK q \in Periods : q = draft[k].period
      BY <3>1 DEF Written
    <3> QED BY SMTT(60), <1>0, <1>2, <1>3, <1>10, <2>1, <2>2, <3>2 DEF WorkFits
  <2> QED BY <2>1, <2>2 DEF WorkFits
<1> QED BY <1>11, <1>12, <1>13, <1>14, <1>15, <1>16, <1>17, <1>18, <1>19 DEF DialFacts
(* A reading that no reconciliation has used changes, or is parked.        *)
LEMMA ReadingFacts ==
  ASSUME DialTypes, DialTypes', DialFacts, NEW p \in Periods,
         UNCHANGED <<swap, settled, shift, draft>>,
         \A q \in Periods : q # p => reading'[q] = reading[q] /\ recon'[q] = recon[q],
         Outcome(p) \notin {"APPLIED", "ABSORBED"},
         Outcome(p)' \notin {"APPLIED", "ABSORBED"},
         \A v \in Revisions : v > reading'[p].rev => recon'[p][v] = "NONE",
         IF reading'[p].meter = 1 THEN swap.period = 0 \/ p < swap.period
         ELSE swap.period # 0,
         \/ reading'[p] = reading[p]
         \/ ~ Trusted(p)
         \/ ~ IsSettled(p) /\ \A k \in Clerks : draft[k] = NoDraft \/ draft[k].period # p
  PROVE  DialFacts'
<1> USE SettlementsAssumption
<1>0. swap' = swap /\ settled' = settled /\ shift' = shift /\ draft' = draft
  OBVIOUS
<1>1. \A q : /\ IsSettled(q)' = IsSettled(q) /\ AllSettledTo(q)' = AllSettledTo(q)
             /\ MetersIn(q)' = MetersIn(q)
  BY <1>0 DEF IsSettled, AllSettledTo, MetersIn
<1>2. \A q \in Periods : q # p => /\ Trusted(q)' = Trusted(q) /\ Outcome(q)' = Outcome(q)
                                  /\ Level(q)' = Level(q)
  BY <1>0 DEF Trusted, Outcome, Level
<1>3. \A q, m : Turned(q, m)' = Turned(q, m) /\ Removed(q, m)' = Removed(q, m)
  BY <1>0 DEF Turned, Removed
<1>4. \A n : ChargedUpTo(n)' = ChargedUpTo(n) /\ Past(n)' = Past(n)
  BY BooksFrame
<1>5. \A q \in Periods, m \in Meters : Reconciled(q, m)' = Reconciled(q, m)
  <2> SUFFICES ASSUME NEW q \in Periods, NEW m \in Meters
               PROVE  Reconciled(q, m)' = Reconciled(q, m)
    OBVIOUS
  <2>1. \A x \in 1 .. q : x \in Periods
    BY DEF Periods
  <2>2. \A x \in Periods : Applied(x, m)' = Applied(x, m)
    BY <1>2 DEF Applied
  <2>3. Reconciled(q, m) = {x \in 1 .. q : Applied(x, m)}
    BY ReconciledSet DEF ReconciledRule
  <2>4. Reconciled(q, m)' = {x \in 1 .. q : Applied(x, m)'}
    <3>1. ReconciledRule'
      BY ReconciledSet, PTL
    <3> QED BY <3>1 DEF ReconciledRule
  <2> QED BY <2>1, <2>2, <2>3, <2>4
<1>6. ASSUME NEW q \in Periods, NEW m \in Meters PROVE StartOf(q, m)' = StartOf(q, m)
  <2>1. \A x \in Periods : Trusted(x) /\ Outcome(x) = "APPLIED" => reading'[x] = reading[x]
    OBVIOUS
  <2> QED BY <1>0, <1>1, <1>5, <2>1, StartFrame
<1>7. ASSUME NEW q \in Periods, NEW m \in Meters, NEW z, PartFits(z, q, m),
             q # p \/ ~ Trusted(p) \/ reading'[p] = reading[p]
      PROVE  PartFits(z, q, m)'
  BY <1>0, <1>7 DEF PartFits, MetersIn, Removed, Trusted
<1>8. SettledInOrder' /\ ReadingsMetered'
  BY <1>0, <1>1 DEF DialFacts, SettledInOrder, ReadingsMetered
<1>9. PartsFit'
  <2> SUFFICES ASSUME NEW q \in Periods, NEW m \in Meters, IsSettled(q)
               PROVE  PartFits(settled[q].part[m], q, m)'
    BY <1>1 DEF PartsFit
  <2>1. PartFits(settled[q].part[m], q, m)
    BY DEF DialFacts, PartsFit
  <2> DEFINE z == settled[q].part[m]
  <2>2. PICK y : y = z
    OBVIOUS
  <2>3. PartFits(y, q, m)'
    BY <1>7, <2>1, <2>2
  <2> QED BY <1>0, <2>2, <2>3 DEF PartFits, MetersIn, Removed, Trusted
<1>10. TurnsSeen'
  <2> SUFFICES ASSUME NEW q \in Periods, NEW m \in Meters,
                      IsSettled(q), Turned(q, m), ~ Removed(q, m)
               PROVE  /\ q - 1 \in Periods /\ Trusted(q - 1)' /\ reading'[q - 1].meter = m
                      /\ reading'[q - 1].dial = settled'[q].part[m].prev
    BY <1>1, <1>3 DEF TurnsSeen
  <2>1. /\ q - 1 \in Periods /\ Trusted(q - 1) /\ reading[q - 1].meter = m
        /\ reading[q - 1].dial = settled[q].part[m].prev
    BY DEF DialFacts, TurnsSeen
  <2>2. IsSettled(q - 1)
    <3>1. q - 1 < q
      BY DEF Periods
    <3> QED BY <2>1, <3>1 DEF DialFacts, SettledInOrder
  <2>3. reading'[q - 1] = reading[q - 1]
    BY <2>1, <2>2
  <2> QED BY <1>0, <2>1, <2>3 DEF Trusted
<1>11. ShiftsApplied'
  <2> SUFFICES ASSUME NEW q \in Periods, shift[q] # 0
               PROVE  /\ settled'[q].status = "FINAL"
                      /\ \E x \in Periods : /\ x = q \/ x = q + 1
                                            /\ Trusted(x)' /\ Outcome(x)' = "APPLIED"
    BY <1>0 DEF ShiftsApplied
  <2>1. PICK x \in Periods : (x = q \/ x = q + 1) /\ Trusted(x) /\ Outcome(x) = "APPLIED"
    BY DEF DialFacts, ShiftsApplied
  <2>2. x # p
    BY <2>1
  <2>3. settled[q].status = "FINAL"
    BY DEF DialFacts, ShiftsApplied
  <2> QED BY <1>0, <1>2, <2>1, <2>2, <2>3
<1>12. OutcomesKnown'
  <2> SUFFICES ASSUME NEW q \in Periods
               PROVE  /\ Outcome(q)' \in {"APPLIED", "ABSORBED"} =>
                           Trusted(q)' /\ Level(q)' /\ AllSettledTo(q - 1)'
                      /\ Outcome(q)' = "ABSORBED" =>
                           /\ IsSettled(q)'
                           /\ settled'[q].part[reading'[q].meter].source = "READING"
                      /\ \A v \in Revisions : v > reading'[q].rev => recon'[q][v] = "NONE"
    BY DEF OutcomesKnown
  <2>1. CASE q = p
    BY <1>0, <2>1
  <2>2. CASE q # p
    BY <1>0, <1>1, <1>2, <2>2 DEF DialFacts, OutcomesKnown
  <2> QED BY <2>1, <2>2
<1>13. DraftsStart'
  BY <1>0, <1>1, <1>4 DEF DialFacts, DraftsStart
<1>14. KnownCharged'
  <2> SUFFICES ASSUME NEW q \in Periods, Known(q)'
               PROVE  ChargedUpTo(q)' = Past(q)' + reading'[q].dial
    BY DEF KnownCharged
  <2>1. CASE q = p
    <3> DEFINE m == reading'[p].meter
    <3>1. /\ IsSettled(p) /\ Trusted(p)' /\ m \in MetersIn(p)
          /\ settled[p].part[m].source = "READING"
      BY <1>0, <1>1, <2>1 DEF Known
    <3>2. m \in Meters
      BY DEF DialTypes
    <3>3. PartFits(settled[p].part[m], p, m)
      BY <3>1, <3>2 DEF DialFacts, PartsFit
    <3>4. ~ Removed(p, m)
      BY DEF Removed, Periods
    <3>5. Trusted(p)
      BY <3>1, <3>3, <3>4 DEF PartFits
    <3>6. reading'[p] = reading[p]
      BY <3>1, <3>5
    <3>7. Known(p)
      BY <3>1, <3>5, <3>6 DEF Known
    <3> QED BY <1>4, <2>1, <3>6, <3>7 DEF DialFacts, KnownCharged
  <2>2. CASE q # p
    <3>1. Known(q)
      BY <1>0, <1>1, <1>2, <2>2 DEF Known
    <3> QED BY <1>4, <2>2, <3>1 DEF DialFacts, KnownCharged
  <2> QED BY <2>1, <2>2
<1>15. NextStarts'
  <2>1. \A q \in Periods : StartIn(q, 1)' = StartIn(q, 1) /\ StartIn(q, 2)' = StartIn(q, 2)
    BY <1>1, <1>6 DEF StartIn, Meters
  <2> QED BY <1>1, <1>4, <2>1 DEF DialFacts, NextStarts
<1>16. DraftsFit'
  <2> SUFFICES ASSUME NEW k \in Clerks, draft[k].at = "write"
               PROVE  WorkFits(k)'
    BY <1>0 DEF DraftsFit, WorkFits
  <2>1. draft[k] \in Written /\ draft[k] # NoDraft
    BY WorkKinds
  <2>2. PICK q \in Periods, z \in [Meters -> PartSet] : q = draft[k].period /\ z = draft[k].part
    BY <2>1 DEF Written
  <2>3. /\ \A m \in Meters : PartFits(z[m], q, m) /\ Measured(z[m])
        /\ Outcome(q) = "APPLIED" /\ ~ IsSettled(q) => z[reading[q].meter].source = "READING"
    BY <2>2 DEF DialFacts, DraftsFit, WorkFits
  <2>4. q # p \/ ~ Trusted(p) \/ reading'[p] = reading[p]
    BY <2>1, <2>2
  <2>5. ASSUME NEW m \in Meters
        PROVE  PartFits(draft[k].part[m], draft[k].period, m)' /\ Measured(draft[k].part[m])'
    <3>1. PICK y : y = z[m]
      OBVIOUS
    <3>2. PartFits(y, q, m)'
      BY <1>7, <2>3, <2>4, <3>1
    <3>3. PartFits(draft[k].part[m], draft[k].period, m)'
      BY <1>0, <2>2, <3>1, <3>2 DEF PartFits, MetersIn, Removed, Trusted
    <3>4. Measured(draft[k].part[m])'
      BY <1>0, <2>2, <2>3 DEF Measured, DialUsage
    <3> QED BY <3>3, <3>4
  <2>6. ASSUME Outcome(draft[k].period)' = "APPLIED", ~ IsSettled(draft[k].period)'
        PROVE  draft'[k].part[reading'[draft'[k].period].meter].source = "READING"
    <3>1. q # p /\ Outcome(q) = "APPLIED" /\ ~ IsSettled(q)
      BY <1>0, <1>2, <2>2, <2>6 DEF IsSettled, Outcome
    <3>2. reading'[q] = reading[q]
      BY <3>1
    <3> QED BY <1>0, <2>2, <2>3, <3>1, <3>2
  <2> QED BY <2>5, <2>6 DEF WorkFits
<1> QED BY <1>8, <1>9, <1>10, <1>11, <1>12, <1>13, <1>14, <1>15, <1>16 DEF DialFacts

(* Enter keeps the facts: an item's first reading is unchecked.            *)
LEMMA EnterFacts ==
  ASSUME DialTypes, DialTypes', DialFacts, NEW p \in Periods, NEW d \in Dial, Enter(p, d)
  PROVE  DialFacts'
<1> USE SettlementsAssumption
<1>1. /\ UNCHANGED <<swap, settled, shift, recon, draft>>
      /\ reading[p].qc = "NONE" /\ reading[p].rev = 0
      /\ reading'[p] = [meter |-> ActiveMeter, dial |-> d, qc |-> "PENDING", rev |-> 0]
      /\ \A q \in Periods : q # p => reading'[q] = reading[q]
  BY DEF Enter, UnchangedMoney, DialTypes
<1>2. ~ Trusted(p)
  BY <1>1 DEF Trusted
<1>3. Outcome(p) \notin {"APPLIED", "ABSORBED"} /\ Outcome(p)' = Outcome(p)
  BY <1>1, <1>2 DEF DialFacts, OutcomesKnown, Outcome
<1>4. \A v \in Revisions : v > reading'[p].rev => recon[p][v] = "NONE"
  BY <1>1 DEF DialFacts, OutcomesKnown
<1>5. IF reading'[p].meter = 1 THEN swap.period = 0 \/ p < swap.period
      ELSE swap.period # 0
  BY <1>1 DEF ActiveMeter
<1>6. recon' = recon
  BY <1>1
<1> QED BY <1>1, <1>2, <1>3, <1>4, <1>5, <1>6, ReadingFacts

(* Check keeps the facts: only a reading that waits is judged.             *)
LEMMA CheckFacts ==
  ASSUME DialTypes, DialTypes', DialFacts, NEW p \in Periods,
         NEW v \in {"PASSED", "REJECTED"}, Check(p, v)
  PROVE  DialFacts'
<1> USE SettlementsAssumption
<1>1. /\ UNCHANGED <<swap, settled, shift, recon, draft>>
      /\ reading[p].qc = "PENDING"
      /\ reading'[p] = [reading[p] EXCEPT !.qc = v]
      /\ \A q \in Periods : q # p => reading'[q] = reading[q]
  BY DEF Check, UnchangedMoney, DialTypes
<1>2. ~ Trusted(p)
  BY <1>1 DEF Trusted
<1>r. reading'[p].rev = reading[p].rev /\ reading'[p].meter = reading[p].meter
  <2>1. PICK r : r = reading[p]
    OBVIOUS
  <2>2. r \in [meter : Meters, dial : Dial, rev : Revisions,
               qc : {"NONE", "PENDING", "PASSED", "REJECTED"}]
    BY <2>1 DEF DialTypes
  <2>3. reading'[p] = [r EXCEPT !.qc = v]
    BY <1>1, <2>1
  <2> QED BY <2>1, <2>2, <2>3
<1>3. Outcome(p) \notin {"APPLIED", "ABSORBED"} /\ Outcome(p)' = Outcome(p)
  BY <1>1, <1>r, <1>2 DEF DialFacts, OutcomesKnown, Outcome
<1>4. \A x \in Revisions : x > reading'[p].rev => recon[p][x] = "NONE"
  BY <1>r DEF DialFacts, OutcomesKnown
<1>5. IF reading'[p].meter = 1 THEN swap.period = 0 \/ p < swap.period
      ELSE swap.period # 0
  BY <1>1, <1>r DEF DialFacts, ReadingsMetered
<1>6. recon' = recon
  BY <1>1
<1> QED BY ZenonT(60), <1>1, <1>2, <1>3, <1>4, <1>5, <1>6, ReadingFacts

(* Correct keeps the facts when nothing had used the reading.              *)
LEMMA CorrectFacts ==
  ASSUME DialTypes, DialTypes', DialFacts, NEW p \in Periods, NEW d \in Dial,
         Correct(p, d), orderly'
  PROVE  DialFacts'
<1> USE SettlementsAssumption
<1>1. /\ UNCHANGED <<swap, settled, shift, recon, draft>>
      /\ reading[p].qc # "NONE" /\ reading[p].rev = 0
      /\ ~ IsSettled(p) /\ recon[p][0] # "APPLIED"
      /\ \A k \in Clerks : draft[k] = NoDraft \/ draft[k].period # p
      /\ \A q \in Periods : q # p => reading'[q] = reading[q]
  BY DEF Correct, UnchangedMoney, DialTypes
<1>2. reading'[p].rev = 1 /\ reading'[p].meter = reading[p].meter
  <2>1. PICK r : r = reading[p]
    OBVIOUS
  <2>2. r \in [meter : Meters, dial : Dial, rev : Revisions,
               qc : {"NONE", "PENDING", "PASSED", "REJECTED"}]
    BY <2>1 DEF DialTypes
  <2>3. reading' = [reading EXCEPT ![p] = [r EXCEPT !.dial = d, !.qc = "PENDING", !.rev = 1]]
    BY <2>1, CorrectReading
  <2>4. reading'[p] = [r EXCEPT !.dial = d, !.qc = "PENDING", !.rev = 1]
    BY <2>3 DEF DialTypes
  <2> QED BY <2>1, <2>2, <2>4
<1>3. Outcome(p) \notin {"APPLIED", "ABSORBED"}
  BY <1>1 DEF DialFacts, OutcomesKnown, Outcome
<1>4. Outcome(p)' = "NONE"
  <2>1. recon[p][1] = "NONE"
    BY <1>1 DEF DialFacts, OutcomesKnown, Revisions
  <2> QED BY <1>1, <1>2, <2>1 DEF Outcome
<1>5. \A x \in Revisions : x > reading'[p].rev => recon[p][x] = "NONE"
  BY <1>2 DEF Revisions
<1>6. IF reading'[p].meter = 1 THEN swap.period = 0 \/ p < swap.period
      ELSE swap.period # 0
  BY <1>1, <1>2 DEF DialFacts, ReadingsMetered
<1>7. recon' = recon
  BY <1>1
<1> QED BY <1>1, <1>3, <1>4, <1>5, <1>6, <1>7, ReadingFacts

(* ExchangeMeter keeps the facts when nothing later was used.              *)
LEMMA ExchangeFacts ==
  ASSUME DialTypes, DialTypes', DialFacts, NEW p \in Periods, NEW d \in Dial,
         ExchangeMeter(p, d), orderly'
  PROVE  DialFacts'
<1> USE SettlementsAssumption
<1>0. /\ reading' = reading /\ settled' = settled /\ shift' = shift /\ recon' = recon
      /\ draft' = draft /\ swap.period = 0 /\ swap' = [period |-> p, final |-> d]
      /\ \A k \in Clerks : draft[k] = NoDraft
      /\ \A q \in Periods : q >= p => ~ IsSettled(q) /\ reading[q].qc = "NONE"
  <2>1. /\ reading' = reading /\ settled' = settled /\ shift' = shift /\ recon' = recon
        /\ draft' = draft /\ swap.period = 0 /\ swap' = [period |-> p, final |-> d]
    BY DEF ExchangeMeter, UnchangedMoney
  <2>2. /\ \A k \in Clerks : draft[k] = NoDraft
        /\ \A q \in p .. LastPeriod : ~ IsSettled(q) /\ reading[q].qc = "NONE"
    BY DEF ExchangeMeter
  <2> QED BY <2>1, <2>2 DEF Periods
<1>1. \A q : /\ IsSettled(q)' = IsSettled(q) /\ AllSettledTo(q)' = AllSettledTo(q)
             /\ Trusted(q)' = Trusted(q) /\ Outcome(q)' = Outcome(q)
  BY <1>0 DEF IsSettled, AllSettledTo, Trusted, Outcome
<1>2. \A q, m : Turned(q, m)' = Turned(q, m)
  BY <1>0 DEF Turned
<1>3. \A n : ChargedUpTo(n)' = ChargedUpTo(n) /\ Turns(n)' = Turns(n)
  BY <1>0, <1>2 DEF ChargedUpTo, Charged, Total, Turns, TurnsIn
<1>4. \A q \in Periods : q < p =>
         /\ MetersIn(q) = {1} /\ MetersIn(q)' = {1}
         /\ \A m \in Meters : ~ Removed(q, m) /\ ~ Removed(q, m)'
  BY <1>0 DEF MetersIn, Removed, Meters, Periods
<1>5. \A n \in 0 .. p - 1 : Past(n)' = Past(n)
  BY <1>0, <1>3 DEF Past, Behind, Periods
<1>6. \A q \in Periods : reading[q].qc # "NONE" => q < p /\ reading[q].meter = 1
  BY <1>0 DEF DialFacts, ReadingsMetered, Periods
<1>7. \A q \in Periods : IsSettled(q) => q < p
  BY <1>0 DEF Periods
<1>8. \A q \in Periods : Trusted(q) => q < p /\ reading[q].meter = 1 /\ Level(q)'
  BY <1>0, <1>6 DEF Trusted, Level, Periods
<1>9. ASSUME NEW q \in Periods, NEW m \in Meters PROVE StartOf(q, m)' = StartOf(q, m)
  <2>1. \A x \in Periods, n \in Meters : Reconciled(x, n)' = Reconciled(x, n)
    BY <1>0 DEF Reconciled, Trusted
  <2> QED BY <1>0, <1>1, <2>1, StartFrame
<1>10. SettledInOrder' /\ ReadingsMetered'
  BY <1>0, <1>1, <1>6 DEF DialFacts, SettledInOrder, ReadingsMetered
<1>11. PartsFit'
  <2> SUFFICES ASSUME NEW q \in Periods, NEW m \in Meters, IsSettled(q)
               PROVE  PartFits(settled[q].part[m], q, m)'
    BY <1>1 DEF PartsFit
  <2>1. PartFits(settled[q].part[m], q, m) /\ q < p
    BY <1>7 DEF DialFacts, PartsFit
  <2>2. MetersIn(q)' = MetersIn(q) /\ ~ Removed(q, m) /\ ~ Removed(q, m)'
    BY <1>4, <2>1
  <2> QED BY <1>0, <1>1, <2>1, <2>2 DEF PartFits
<1>12. TurnsSeen'
  <2>1. \A q \in Periods, m \in Meters : IsSettled(q) => ~ Removed(q, m)
    BY <1>4, <1>7
  <2> QED BY <1>0, <1>1, <1>2, <2>1 DEF DialFacts, TurnsSeen
<1>13. ShiftsApplied'
  BY <1>0, <1>1 DEF DialFacts, ShiftsApplied
<1>14. OutcomesKnown'
  <2> SUFFICES ASSUME NEW q \in Periods
               PROVE  /\ Outcome(q)' \in {"APPLIED", "ABSORBED"} =>
                           Trusted(q)' /\ Level(q)' /\ AllSettledTo(q - 1)'
                      /\ Outcome(q)' = "ABSORBED" =>
                           /\ IsSettled(q)'
                           /\ settled'[q].part[reading'[q].meter].source = "READING"
                      /\ \A v \in Revisions : v > reading'[q].rev => recon'[q][v] = "NONE"
    BY DEF OutcomesKnown
  <2>1. /\ Outcome(q) \in {"APPLIED", "ABSORBED"} => Trusted(q) /\ AllSettledTo(q - 1)
        /\ Outcome(q) = "ABSORBED" =>
             /\ IsSettled(q)
             /\ settled[q].part[reading[q].meter].source = "READING"
        /\ \A v \in Revisions : v > reading[q].rev => recon[q][v] = "NONE"
    BY DEF DialFacts, OutcomesKnown
  <2> QED BY <1>0, <1>1, <1>8, <2>1
<1>15. DraftsStart'
  <2> SUFFICES ASSUME NEW q \in Periods, settled[q].status = "DRAFT",
                      NEW m \in MetersIn(q)'
               PROVE  ChargedUpTo(q - 1)' = Past(q - 1)' + settled'[q].part[m].prev
    BY <1>0 DEF DraftsStart
  <2>1. q < p /\ q - 1 \in 0 .. p - 1
    BY <1>7 DEF IsSettled, Periods
  <2>2. m \in MetersIn(q) /\ q # swap.period
    BY <1>0, <1>4, <2>1 DEF Periods
  <2>3. ChargedUpTo(q - 1) = Past(q - 1) + settled[q].part[m].prev
    BY <2>2 DEF DialFacts, DraftsStart
  <2> QED BY <1>0, <1>3, <1>5, <2>1, <2>3
<1>16. KnownCharged'
  <2> SUFFICES ASSUME NEW q \in Periods, Known(q)'
               PROVE  ChargedUpTo(q)' = Past(q)' + reading'[q].dial
    BY DEF KnownCharged
  <2>1. q < p /\ q \in 0 .. p - 1
    BY <1>1, <1>7 DEF Known, Periods
  <2>2. Known(q)
    BY <1>0, <1>1, <1>4, <2>1 DEF Known
  <2> QED BY <1>0, <1>3, <1>5, <2>1, <2>2 DEF DialFacts, KnownCharged
<1>17. NextStarts'
  <2> SUFFICES ASSUME NEW q \in Periods, ~ IsSettled(q), AllSettledTo(q - 1)
               PROVE  ChargedUpTo(q - 1)' = Past(q - 1)' + StartIn(q, 1)' + StartIn(q, 2)'
    BY <1>1 DEF NextStarts
  <2>1. q <= p /\ q - 1 \in 0 .. p - 1
    <3>1. CASE q <= p
      BY <3>1 DEF Periods
    <3>2. CASE p < q
      <4>1. p \in 1 .. q - 1
        BY <3>2 DEF Periods
      <4> QED BY <1>0, <4>1 DEF AllSettledTo, Periods
    <3> QED BY <3>1, <3>2 DEF Periods
  <2>2. ChargedUpTo(q - 1) = Past(q - 1) + StartIn(q, 1) + StartIn(q, 2)
    BY DEF DialFacts, NextStarts
  <2>3. MetersIn(q) = {1} /\ 1 \in MetersIn(q)' /\ (q # p => 2 \notin MetersIn(q)')
    BY <1>0, <2>1 DEF MetersIn, Meters, Periods
  <2>4. StartIn(q, 1)' = StartIn(q, 1) /\ StartIn(q, 2) = 0
    BY <1>9, <2>3 DEF StartIn, Meters
  <2>5. StartIn(q, 2)' = 0
    <3>1. CASE q # p
      BY <2>3, <3>1 DEF StartIn
    <3>2. CASE q = p
      <4>1. StartRule'
        <5>1. PartsFit' /\ OutcomesKnown'
          BY <1>11, <1>14
        <5> QED BY <5>1, StartShapes, PTL
      <4>2. /\ 2 \in MetersIn(p)' /\ AllSettledTo(p - 1)'
            /\ 2 \in Meters
        BY <1>0, <1>1, <3>2 DEF MetersIn, Meters, Periods
      <4>3. StartShape(p, 2)'
        BY <4>1, <4>2 DEF StartRule
      <4>4. ~ Applied(p, 2)'
        BY <1>0, <1>1, <1>8 DEF Applied, Periods
      <4>5. p = 1 \/ 2 \notin MetersIn(p - 1)'
        BY <1>0 DEF MetersIn, Periods
      <4>6. StartOf(p, 2)' = Initial
        BY <4>3, <4>4, <4>5 DEF StartShape, Initial
      <4> QED BY <3>2, <4>6 DEF StartIn, Initial
    <3> QED BY <3>1, <3>2
  <2> QED BY <1>3, <1>5, <2>1, <2>2, <2>4, <2>5
<1>18. DraftsFit'
  BY <1>0 DEF DraftsFit, WorkFits, NoDraft
<1> QED BY <1>10, <1>11, <1>12, <1>13, <1>14, <1>15, <1>16, <1>17, <1>18 DEF DialFacts
-----------------------------------------------------------------------------
(* A settlement written in its order.                                      *)

(* A turn of the dial more is one dial more.                               *)
LEMMA Distribute == \A x, y, z \in Int : x * (y + z) = x * y + x * z
OBVIOUS

(* What a part adds to the sum: from where the meter starts to its end,    *)
(* and a turn of the dial if it turned.                                    *)
LEMMA PartUsage ==
  ASSUME NEW z \in PartSet, Measured(z), NEW D \in Int, D = MaxDial
  PROVE  z.usage = z.end - z.prev + (IF z.source = "READING" /\ z.end < z.prev THEN D ELSE 0)
BY DEF Measured, DialUsage, PartSet

(* A settlement written in its order is the first not settled.             *)
LEMMA WriteEffect ==
  ASSUME DialTypes, DialTypes', DialFacts, NEW k \in Clerks, WriteSettlement(k), orderly',
         NotTaken(k)
  PROVE  \E p \in Periods, z \in [Meters -> PartSet] :
           /\ reading' = reading /\ swap' = swap /\ shift' = shift /\ recon' = recon
           /\ settled'[p] = [status |-> "DRAFT", part |-> z]
           /\ \A q \in Periods : q # p => settled'[q] = settled[q]
           /\ draft'[k] = NoDraft /\ \A c \in Clerks : c # k => draft'[c] = draft[c]
           /\ \A q \in Periods : IsSettled(q) <=> q < p
           /\ \A q \in Periods : IsSettled(q)' <=> q <= p
           /\ ~ OverEstimated(p)
           /\ \A m \in MetersIn(p) : z[m].prev = StartOf(p, m).dial
           /\ \A m \in Meters : PartFits(z[m], p, m) /\ Measured(z[m])
           /\ Outcome(p) = "APPLIED" => z[reading[p].meter].source = "READING"
           /\ shift[p] = 0
<1> USE SettlementsAssumption
<1>1. draft[k] \in Written
  BY WorkKinds DEF WriteSettlement
<1>2. PICK p \in Periods, z \in [Meters -> PartSet] : p = draft[k].period /\ z = draft[k].part
  BY <1>1 DEF Written
<1>3. /\ reading' = reading /\ swap' = swap /\ shift' = shift /\ recon' = recon
      /\ settled' = [settled EXCEPT ![p] = [status |-> "DRAFT", part |-> z]]
      /\ draft' = [draft EXCEPT ![k] = NoDraft]
      /\ InOrder(p, z)
  BY <1>2 DEF WriteSettlement, UnchangedFacts, Keep
<1>4. /\ settled'[p] = [status |-> "DRAFT", part |-> z]
      /\ \A q \in Periods : q # p => settled'[q] = settled[q]
      /\ draft'[k] = NoDraft /\ \A c \in Clerks : c # k => draft'[c] = draft[c]
  BY <1>3 DEF DialTypes
<1>5. /\ \A q \in Periods : IsSettled(q) <=> q < p
      /\ ~ OverEstimated(p)
      /\ \A m \in MetersIn(p) : z[m].prev = StartOf(p, m).dial
  BY <1>3 DEF InOrder
<1>6. \A q \in Periods : IsSettled(q)' <=> q <= p
  <2> SUFFICES ASSUME NEW q \in Periods PROVE IsSettled(q)' <=> q <= p
    OBVIOUS
  <2>1. CASE q = p
    BY <1>4, <2>1 DEF IsSettled, Periods
  <2>2. CASE q # p
    BY <1>4, <1>5, <2>2 DEF IsSettled, Periods
  <2> QED BY <2>1, <2>2
<1>7. ~ IsSettled(p)
  BY <1>5 DEF Periods
<1>8. /\ \A m \in Meters : PartFits(z[m], p, m) /\ Measured(z[m])
      /\ Outcome(p) = "APPLIED" => z[reading[p].meter].source = "READING"
  <2>1. draft[k].at = "write" /\ WorkFits(k)
    BY <1>1 DEF DialFacts, DraftsFit, Written
  <2> QED BY <1>2, <1>7, <2>1 DEF WorkFits
<1>9. shift[p] = 0
  BY <1>7 DEF DialFacts, ShiftsApplied, IsSettled
<1> QED BY <1>3, <1>4, <1>5, <1>6, <1>8, <1>9

(* The sum up to the written period is where its meters end.               *)
LEMMA WriteSum ==
  ASSUME DialTypes, DialTypes', DialFacts,
         NEW p \in Periods, NEW z \in [Meters -> PartSet],
         swap' = swap, shift' = shift,
         settled'[p] = [status |-> "DRAFT", part |-> z],
         \A q \in Periods : q # p => settled'[q] = settled[q],
         \A q \in Periods : IsSettled(q) <=> q < p,
         \A m \in MetersIn(p) : z[m].prev = StartOf(p, m).dial,
         \A m \in Meters : PartFits(z[m], p, m) /\ Measured(z[m]),
         shift[p] = 0
  PROVE  /\ \A n \in 0 .. p - 1 : ChargedUpTo(n)' = ChargedUpTo(n) /\ Past(n)' = Past(n)
         /\ ChargedUpTo(p)' = Past(p)' + z[OnMeter(p)].end
<1> USE SettlementsAssumption
<1>0. p \in Int /\ 1 <= p /\ p <= LastPeriod /\ p - 1 \in 0 .. LastPeriod /\ MaxDial \in Int
      /\ swap.period \in 0 .. LastPeriod /\ swap.final \in Int
      /\ z[1] \in PartSet /\ z[2] \in PartSet
  BY DEF Periods, DialTypes, Dial, Meters
<1>1. \A q \in Periods : q # p => Charged(q)' = Charged(q) /\ TurnsIn(q)' = TurnsIn(q)
  BY DEF Charged, Total, TurnsIn, Turned
<1>2. \A n \in 0 .. p - 1 : ChargedUpTo(n)' = ChargedUpTo(n) /\ Turns(n)' = Turns(n)
  <2> SUFFICES ASSUME NEW n \in 0 .. p - 1
               PROVE  ChargedUpTo(n)' = ChargedUpTo(n) /\ Turns(n)' = Turns(n)
    OBVIOUS
  <2>1. n \in 0 .. LastPeriod /\ \A q \in 1 .. n : q \in Periods /\ q # p
    BY <1>0 DEF Periods
  <2> QED BY <1>1, <2>1, ChargedFrame, TurnFrame
<1>3. \A n : Behind(n)' = Behind(n)
  BY DEF Behind
<1>4. \A n \in 0 .. p - 1 : Past(n)' = Past(n)
  BY <1>2, <1>3 DEF Past
<1> DEFINE t(m) == IF z[m].source = "READING" /\ z[m].end < z[m].prev THEN 1 ELSE 0
           e(m) == IF m \in MetersIn(p) THEN z[m].end ELSE 0
<1>5. TurnsIn(p)' = t(1) + t(2)
  <2>1. settled'[p].part = z
    OBVIOUS
  <2>2. \A m \in Meters : Turned(p, m)' <=> z[m].source = "READING" /\ z[m].end < z[m].prev
    BY <2>1 DEF Turned
  <2> QED BY <2>2 DEF TurnsIn, Meters
<1>6. Charged(p)' = z[1].usage + z[2].usage
  BY <1>0 DEF Charged, Total, PartSet
<1>7. \A m \in Meters : /\ z[m].usage = e(m) - StartIn(p, m) + MaxDial * t(m)
                        /\ StartIn(p, m) \in Int /\ e(m) \in Int /\ t(m) \in Int
  <2> SUFFICES ASSUME NEW m \in Meters
               PROVE  /\ z[m].usage = e(m) - StartIn(p, m) + MaxDial * t(m)
                      /\ StartIn(p, m) \in Int /\ e(m) \in Int /\ t(m) \in Int
    OBVIOUS
  <2>1. z[m] \in PartSet /\ PartFits(z[m], p, m) /\ Measured(z[m])
    OBVIOUS
  <2>2. MaxDial * 1 = MaxDial /\ MaxDial * 0 = 0
    BY <1>0
  <2>3. CASE m \notin MetersIn(p)
    <3>1. z[m] = NoPart
      BY <2>1, <2>3 DEF PartFits
    <3> QED BY <2>2, <2>3, <3>1 DEF NoPart, StartIn
  <2>4. CASE m \in MetersIn(p)
    <3>1. z[m].prev = StartIn(p, m) /\ z[m].prev \in Int /\ z[m].end \in Int
      BY <2>1, <2>4 DEF StartIn, PartSet
    <3>2. z[m].usage = z[m].end - z[m].prev
                        + (IF z[m].source = "READING" /\ z[m].end < z[m].prev THEN MaxDial ELSE 0)
      BY <1>0, <2>1, PartUsage
    <3> QED BY <1>0, <2>2, <2>4, <3>1, <3>2
  <2> QED BY <2>3, <2>4
<1>8. ChargedUpTo(p - 1) = Past(p - 1) + StartIn(p, 1) + StartIn(p, 2)
  <2>1. ~ IsSettled(p) /\ AllSettledTo(p - 1)
    BY <1>0 DEF AllSettledTo, Periods
  <2> QED BY <2>1 DEF DialFacts, NextStarts
<1>9. /\ ChargedUpTo(p)' = ChargedUpTo(p - 1) + z[1].usage + z[2].usage
      /\ Turns(p)' = Turns(p - 1) + t(1) + t(2)
      /\ Turns(p - 1) \in Int
  <2>1. ChargedRule' /\ TurnRule'
    BY ChargedSum, TurnSum, PTL
  <2>2. /\ ChargedUpTo(p)' = ChargedUpTo(p - 1)' + Charged(p)'
        /\ Turns(p)' = Turns(p - 1)' + TurnsIn(p)'
    BY <2>1 DEF ChargedRule, TurnRule, Periods
  <2>3. /\ ChargedUpTo(p - 1) \in Int /\ Turns(p - 1) \in Int
        /\ ChargedUpTo(p - 1)' = ChargedUpTo(p - 1) /\ Turns(p - 1)' = Turns(p - 1)
    BY <1>0, <1>2, ChargedSum, TurnSum DEF ChargedRule, TurnRule
  <2>4. z[1].usage \in Int /\ z[2].usage \in Int /\ t(1) \in Int /\ t(2) \in Int
    BY <1>0 DEF PartSet
  <2> HIDE DEF t
  <2> QED BY <1>5, <1>6, <2>2, <2>3, <2>4
<1>10. /\ MaxDial * Turns(p)' = MaxDial * Turns(p - 1) + MaxDial * t(1) + MaxDial * t(2)
       /\ MaxDial * Turns(p - 1) \in Int
       /\ \A m \in Meters : MaxDial * t(m) \in Int
  <2>1. t(1) \in Int /\ t(2) \in Int
    OBVIOUS
  <2> HIDE DEF t
  <2>2. Turns(p)' = Turns(p - 1) + (t(1) + t(2))
    BY <1>9, <2>1
  <2>3. /\ MaxDial * (Turns(p - 1) + (t(1) + t(2)))
             = MaxDial * Turns(p - 1) + MaxDial * (t(1) + t(2))
        /\ MaxDial * (t(1) + t(2)) = MaxDial * t(1) + MaxDial * t(2)
    BY <1>0, <1>9, <2>1, Distribute
  <2>4. \A x, y \in Int : x * y \in Int
    OBVIOUS
  <2>5. /\ MaxDial * Turns(p - 1) \in Int
        /\ MaxDial * t(1) \in Int /\ MaxDial * t(2) \in Int
    BY <1>0, <1>9, <2>1, <2>4
  <2> QED BY <2>2, <2>3, <2>5 DEF Meters
<1>11. ChargedUpTo(p)' = Behind(p - 1) + MaxDial * Turns(p)' + e(1) + e(2)
  <2>1. /\ z[1].usage = e(1) - StartIn(p, 1) + MaxDial * t(1)
        /\ z[2].usage = e(2) - StartIn(p, 2) + MaxDial * t(2)
        /\ StartIn(p, 1) \in Int /\ e(1) \in Int /\ StartIn(p, 2) \in Int /\ e(2) \in Int
        /\ MaxDial * t(1) \in Int /\ MaxDial * t(2) \in Int
    BY <1>7, <1>10 DEF Meters
  <2>2. Behind(p - 1) \in Int
    BY <1>0 DEF Behind
  <2> HIDE DEF e, t
  <2> QED BY <1>8, <1>9, <1>10, <2>1, <2>2 DEF Past
<1>12. Behind(p - 1) + e(1) + e(2) = Behind(p) + z[OnMeter(p)].end
  <2>0. z[1].end \in Int /\ z[2].end \in Int
    BY <1>0 DEF PartSet
  <2>1. CASE swap.period = 0 \/ p < swap.period
    <3>1. MetersIn(p) = {1} /\ OnMeter(p) = 1 /\ Behind(p - 1) = 0 /\ Behind(p) = 0
      BY <1>0, <2>1 DEF MetersIn, Meters, OnMeter, Behind
    <3> QED BY <2>0, <3>1
  <2>2. CASE swap.period # 0 /\ swap.period = p
    <3>1. MetersIn(p) = {1, 2} /\ OnMeter(p) = 2 /\ Behind(p - 1) = 0 /\ Behind(p) = swap.final
          /\ Removed(p, 1)
      BY <1>0, <2>2 DEF MetersIn, Meters, OnMeter, Behind, Removed
    <3>2. z[1].end = swap.final
      BY <3>1 DEF PartFits, Meters
    <3> QED BY <1>0, <2>0, <3>1, <3>2
  <2>3. CASE swap.period # 0 /\ swap.period < p
    <3>1. MetersIn(p) = {2} /\ OnMeter(p) = 2 /\ Behind(p - 1) = swap.final
          /\ Behind(p) = swap.final
      BY <1>0, <2>3 DEF MetersIn, Meters, OnMeter, Behind
    <3> QED BY <1>0, <2>0, <3>1
  <2> QED BY <1>0, <2>1, <2>2, <2>3
<1>13. ChargedUpTo(p)' = Past(p)' + z[OnMeter(p)].end
  <2>1. Past(p)' = Behind(p) + MaxDial * Turns(p)'
    BY <1>3 DEF Past
  <2>2. /\ Behind(p - 1) \in Int /\ Behind(p) \in Int
        /\ e(1) \in Int /\ e(2) \in Int /\ z[OnMeter(p)].end \in Int
    BY <1>0, <1>7 DEF Behind, Meters, OnMeter, PartSet
  <2>3. MaxDial * Turns(p)' \in Int
    <3>1. MaxDial * Turns(p - 1) \in Int /\ MaxDial * t(1) \in Int /\ MaxDial * t(2) \in Int
      BY <1>10 DEF Meters
    <3> HIDE DEF t
    <3> QED BY <1>10, <3>1
  <2> HIDE DEF e
  <2>4. PICK w \in Int : w = MaxDial * Turns(p)'
    BY <2>3
  <2>5. ChargedUpTo(p)' = Behind(p - 1) + w + e(1) + e(2) /\ Past(p)' = Behind(p) + w
    BY <1>11, <2>1, <2>4
  <2> QED BY ONLY <1>12, <2>2, <2>4, <2>5
<1> QED BY <1>2, <1>4, <1>13

(* WriteSettlement keeps the facts.                                        *)
LEMMA WriteFacts ==
  ASSUME DialTypes, DialTypes', DialFacts, NEW k \in Clerks, WriteSettlement(k), orderly',
         NotTaken(k)
  PROVE  DialFacts'
<1> USE SettlementsAssumption
<1>1. PICK p \in Periods, z \in [Meters -> PartSet] :
           /\ reading' = reading /\ swap' = swap /\ shift' = shift /\ recon' = recon
           /\ settled'[p] = [status |-> "DRAFT", part |-> z]
           /\ \A q \in Periods : q # p => settled'[q] = settled[q]
           /\ draft'[k] = NoDraft /\ \A c \in Clerks : c # k => draft'[c] = draft[c]
           /\ \A q \in Periods : IsSettled(q) <=> q < p
           /\ \A q \in Periods : IsSettled(q)' <=> q <= p
           /\ ~ OverEstimated(p)
           /\ \A m \in MetersIn(p) : z[m].prev = StartOf(p, m).dial
           /\ \A m \in Meters : PartFits(z[m], p, m) /\ Measured(z[m])
           /\ Outcome(p) = "APPLIED" => z[reading[p].meter].source = "READING"
           /\ shift[p] = 0
  BY WriteEffect
<1>2. /\ \A n \in 0 .. p - 1 : ChargedUpTo(n)' = ChargedUpTo(n) /\ Past(n)' = Past(n)
      /\ ChargedUpTo(p)' = Past(p)' + z[OnMeter(p)].end
  BY <1>1, WriteSum
<1>3. /\ \A q : Trusted(q)' = Trusted(q) /\ Outcome(q)' = Outcome(q) /\ Level(q)' = Level(q)
      /\ \A q, m : Removed(q, m)' = Removed(q, m)
      /\ \A q : MetersIn(q)' = MetersIn(q)
  BY <1>1 DEF Trusted, Outcome, Level, Removed, MetersIn
<1>4. /\ p \in Int /\ 1 <= p /\ p <= LastPeriod /\ swap.period \in 0 .. LastPeriod
      /\ settled'[p].part = z /\ settled'[p].status = "DRAFT"
      /\ ~ IsSettled(p) /\ AllSettledTo(p - 1)
  BY <1>1 DEF Periods, DialTypes, AllSettledTo
<1>5. \A q \in Periods : AllSettledTo(q - 1) => AllSettledTo(q - 1)' /\ q <= p
  <2> SUFFICES ASSUME NEW q \in Periods, AllSettledTo(q - 1)
               PROVE  AllSettledTo(q - 1)' /\ q <= p
    OBVIOUS
  <2>1. q <= p
    <3> SUFFICES ASSUME p < q PROVE FALSE
      BY <1>4 DEF Periods
    <3>1. p \in 1 .. q - 1
      BY <1>4 DEF Periods
    <3> QED BY <1>4, <3>1 DEF AllSettledTo
  <2>2. \A x \in 1 .. q - 1 : x \in Periods /\ x <= p
    BY <1>4, <2>1 DEF Periods
  <2> QED BY <1>1, <2>1, <2>2 DEF AllSettledTo
<1>6. \A q \in Periods : q < p => q \in 0 .. p - 1 /\ q - 1 \in 0 .. p - 1 /\ q # p
  BY <1>4 DEF Periods
<1>7. SettledInOrder' /\ ReadingsMetered'
  <2>1. SettledInOrder'
    BY <1>1 DEF SettledInOrder, Periods
  <2> QED BY <1>1, <2>1 DEF DialFacts, ReadingsMetered
<1>8. PartsFit'
  <2> SUFFICES ASSUME NEW q \in Periods, NEW m \in Meters, IsSettled(q)'
               PROVE  PartFits(settled[q].part[m], q, m)'
    BY DEF PartsFit
  <2>1. CASE q = p
    BY <1>1, <1>4, <2>1 DEF PartFits, MetersIn, Removed, Trusted
  <2>2. CASE q # p
    <3>1. IsSettled(q)
      BY <1>1, <2>2 DEF IsSettled
    <3>2. PartFits(settled[q].part[m], q, m)
      BY <3>1 DEF DialFacts, PartsFit
    <3> QED BY <1>1, <2>2, <3>2 DEF PartFits, MetersIn, Removed, Trusted
  <2> QED BY <2>1, <2>2
<1>9. TurnsSeen'
  <2> SUFFICES ASSUME NEW q \in Periods, NEW m \in Meters,
                      IsSettled(q)', Turned(q, m)', ~ Removed(q, m)
               PROVE  /\ q - 1 \in Periods /\ Trusted(q - 1) /\ reading[q - 1].meter = m
                      /\ reading[q - 1].dial = settled'[q].part[m].prev
    BY <1>1, <1>3 DEF TurnsSeen
  <2>1. CASE q # p
    <3>1. settled'[q] = settled[q] /\ IsSettled(q) /\ Turned(q, m)
      BY <1>1, <2>1 DEF IsSettled, Turned
    <3> QED BY <3>1 DEF DialFacts, TurnsSeen
  <2>2. CASE q = p
    <3> DEFINE s == StartOf(p, m)
    <3>1. z[m].source = "READING" /\ z[m].end < z[m].prev
      BY <1>4, <2>2 DEF Turned
    <3>2. PartFits(z[m], p, m)
      BY <1>1
    <3>3. m \in MetersIn(p)
      BY <3>1, <3>2 DEF PartFits, NoPart
    <3>4. /\ Trusted(p) /\ reading[p].meter = m /\ z[m].end = reading[p].dial
          /\ z[m].prev = s.dial
      BY <1>1, <2>2, <3>1, <3>2, <3>3 DEF PartFits
    <3>5. s.source # "ESTIMATE"
      <4>1. HasDial(p, m) /\ EndDial(p, m) < s.dial
        BY <2>2, <3>1, <3>4 DEF HasDial, EndDial
      <4> QED BY <1>1, <3>3, <4>1 DEF OverEstimated
    <3>6. StartShape(p, m)
      <4>1. StartRule
        BY StartShapes DEF DialFacts
      <4> QED BY <1>4, <3>3, <4>1 DEF StartRule
    <3>7. z[m].end \in Int /\ z[m].end >= 0 /\ z[m].end = reading[p].dial
      BY <3>4 DEF DialTypes, Dial
    <3> HIDE DEF s
    <3>8. ~ Applied(p, m)
      <4> SUFFICES ASSUME Applied(p, m) PROVE FALSE
        OBVIOUS
      <4>1. s.dial = reading[p].dial
        BY <3>6 DEF StartShape, s
      <4> QED BY <3>1, <3>4, <3>7, <4>1
    <3>9. p # 1 /\ m \in MetersIn(p - 1)
      <4> SUFFICES ASSUME p = 1 \/ m \notin MetersIn(p - 1) PROVE FALSE
        OBVIOUS
      <4>1. s = Initial
        BY <3>6, <3>8 DEF StartShape, s
      <4>2. s.dial = 0
        BY <4>1 DEF Initial
      <4> QED BY <3>1, <3>4, <3>7, <4>2
    <3>10. p - 1 \in Periods
      BY <1>4, <3>9 DEF Periods
    <3>11. CASE Applied(p - 1, m)
      <4>1. s.dial = reading[p - 1].dial
        BY <3>6, <3>8, <3>9, <3>11 DEF StartShape, s
      <4> QED BY <1>4, <2>2, <3>4, <3>10, <3>11, <4>1 DEF Applied
    <3>12. CASE ~ Applied(p - 1, m)
      <4> DEFINE y == settled[p - 1].part[m]
      <4>1. s.dial = y.end /\ s.source = y.source
        BY <3>6, <3>8, <3>9, <3>12 DEF StartShape, s
      <4>2. PartFits(y, p - 1, m)
        <5>1. p - 1 < p
          BY <1>4
        <5>2. IsSettled(p - 1)
          BY <1>1, <3>10, <5>1
        <5> QED BY <3>10, <5>2 DEF DialFacts, PartsFit
      <4>3. ~ Removed(p - 1, m)
        BY <1>4, <3>3, <3>9, <3>10 DEF Removed, MetersIn, Periods
      <4> HIDE DEF y
      <4>4. y.source = "READING"
        BY <3>5, <3>9, <4>1, <4>2 DEF PartFits
      <4>5. Trusted(p - 1) /\ reading[p - 1].meter = m /\ y.end = reading[p - 1].dial
        BY <3>9, <4>2, <4>3, <4>4 DEF PartFits
      <4> QED BY <1>4, <2>2, <3>4, <3>10, <4>1, <4>5
    <3> QED BY <3>11, <3>12
  <2> QED BY <2>1, <2>2
<1>10. ShiftsApplied'
  <2> SUFFICES ASSUME NEW q \in Periods, shift[q] # 0
               PROVE  /\ settled'[q].status = "FINAL"
                      /\ \E x \in Periods : /\ x = q \/ x = q + 1
                                            /\ Trusted(x)' /\ Outcome(x)' = "APPLIED"
    BY <1>1 DEF ShiftsApplied
  <2>1. q # p
    BY <1>1
  <2> QED BY <1>1, <1>3, <2>1 DEF DialFacts, ShiftsApplied
<1>11. OutcomesKnown'
  <2> SUFFICES ASSUME NEW q \in Periods
               PROVE  /\ Outcome(q)' \in {"APPLIED", "ABSORBED"} =>
                           Trusted(q)' /\ Level(q)' /\ AllSettledTo(q - 1)'
                      /\ Outcome(q)' = "ABSORBED" =>
                           /\ IsSettled(q)'
                           /\ settled'[q].part[reading'[q].meter].source = "READING"
                      /\ \A v \in Revisions : v > reading'[q].rev => recon'[q][v] = "NONE"
    BY DEF OutcomesKnown
  <2>1. /\ Outcome(q) \in {"APPLIED", "ABSORBED"} =>
             Trusted(q) /\ Level(q) /\ AllSettledTo(q - 1)
        /\ Outcome(q) = "ABSORBED" =>
             /\ IsSettled(q)
             /\ settled[q].part[reading[q].meter].source = "READING"
        /\ \A v \in Revisions : v > reading[q].rev => recon[q][v] = "NONE"
    BY DEF DialFacts, OutcomesKnown
  <2>2. IsSettled(q) => IsSettled(q)' /\ settled'[q] = settled[q]
    BY <1>1, <1>4 DEF Periods
  <2> QED BY <1>1, <1>3, <1>5, <2>1, <2>2
<1>12. DraftsStart'
  <2> SUFFICES ASSUME NEW q \in Periods, settled'[q].status = "DRAFT", q # swap.period,
                      NEW m \in MetersIn(q)
               PROVE  ChargedUpTo(q - 1)' = Past(q - 1)' + settled'[q].part[m].prev
    BY <1>1, <1>3 DEF DraftsStart
  <2>1. CASE q # p
    <3>1. settled'[q] = settled[q]
      BY <1>1, <2>1
    <3>2. q < p
      <4>1. IsSettled(q)
        BY <3>1 DEF IsSettled
      <4> QED BY <1>1, <4>1
    <3>3. ChargedUpTo(q - 1) = Past(q - 1) + settled[q].part[m].prev
      BY <3>1 DEF DialFacts, DraftsStart
    <3> QED BY <1>2, <1>6, <3>1, <3>2, <3>3
  <2>2. CASE q = p
    <3>1. ChargedUpTo(p - 1) = Past(p - 1) + StartIn(p, 1) + StartIn(p, 2)
      BY <1>4 DEF DialFacts, NextStarts
    <3>2. m \in Meters /\ z[m].prev = StartIn(p, m)
      BY <1>1, <2>2 DEF StartIn, MetersIn
    <3>3. StartIn(p, m) \in Int /\ \A n \in Meters : n # m => StartIn(p, n) = 0
      <4>1. \A n \in Meters : n # m => n \notin MetersIn(p)
        BY <1>4, <2>2 DEF MetersIn, Meters
      <4>2. StartOf(p, m).dial \in Int
        BY <3>2, StartTypes
      <4> QED BY <4>1, <4>2 DEF StartIn
    <3>4. StartIn(p, 1) + StartIn(p, 2) = StartIn(p, m)
      BY <3>2, <3>3 DEF Meters
    <3>5. Past(p - 1) \in Int /\ StartIn(p, 1) \in Int /\ StartIn(p, 2) \in Int
      <4>1. Turns(p - 1) \in Int /\ MaxDial \in Int
        BY TurnSum DEF TurnRule
      <4>2. MaxDial * Turns(p - 1) \in Int
        BY <4>1
      <4>3. Behind(p - 1) \in Int
        BY DEF Behind, DialTypes, Dial
      <4>4. Past(p - 1) \in Int
        BY <4>2, <4>3 DEF Past
      <4> QED BY <3>2, <3>3, <4>4 DEF Meters
    <3>6. ChargedUpTo(p - 1) = Past(p - 1) + z[m].prev
      BY <3>1, <3>2, <3>4, <3>5
    <3>7. p - 1 \in 0 .. p - 1
      BY <1>4
    <3> QED BY <1>2, <1>4, <2>2, <3>6, <3>7
  <2> QED BY <2>1, <2>2
<1>13. \A m \in Meters : Trusted(p) /\ reading[p].meter = m /\ m \in MetersIn(p)
                          /\ z[m].source = "READING" =>
                             m = OnMeter(p) /\ z[m].end = reading[p].dial
  <2> SUFFICES ASSUME NEW m \in Meters, Trusted(p), reading[p].meter = m, m \in MetersIn(p),
                      z[m].source = "READING"
               PROVE  m = OnMeter(p) /\ z[m].end = reading[p].dial
    OBVIOUS
  <2>1. IF m = 1 THEN swap.period = 0 \/ p < swap.period ELSE swap.period # 0
    BY DEF DialFacts, ReadingsMetered, Trusted
  <2>2. m = OnMeter(p) /\ ~ Removed(p, m)
    BY <1>4, <2>1 DEF OnMeter, MetersIn, Removed, Meters
  <2>3. PartFits(z[m], p, m)
    BY <1>1
  <2> QED BY <2>2, <2>3 DEF PartFits
<1>14. KnownCharged'
  <2> SUFFICES ASSUME NEW q \in Periods, Known(q)'
               PROVE  ChargedUpTo(q)' = Past(q)' + reading'[q].dial
    BY DEF KnownCharged
  <2>1. CASE q # p
    <3>1. settled'[q] = settled[q]
      BY <1>1, <2>1
    <3>2. Known(q)
      BY <1>1, <1>3, <3>1 DEF Known, IsSettled
    <3>3. q < p
      BY <1>1, <3>2 DEF Known
    <3> QED BY <1>1, <1>2, <1>6, <3>2, <3>3 DEF DialFacts, KnownCharged
  <2>2. CASE q = p
    <3>1. /\ Trusted(p) /\ reading[p].meter \in MetersIn(p) /\ reading[p].meter \in Meters
          /\ \/ z[reading[p].meter].source = "READING"
             \/ Outcome(p) \in {"APPLIED", "ABSORBED"}
      BY <1>1, <1>3, <1>4, <2>2 DEF Known, DialTypes
    <3>2. Outcome(p) # "ABSORBED"
      BY <1>4 DEF DialFacts, OutcomesKnown
    <3>3. z[reading[p].meter].source = "READING"
      BY <1>1, <3>1, <3>2
    <3>4. z[OnMeter(p)].end = reading[p].dial
      BY <1>13, <3>1, <3>3
    <3> QED BY <1>1, <1>2, <2>2, <3>4
  <2> QED BY <2>1, <2>2
<1>15. NextStarts'
  <2> SUFFICES ASSUME NEW q \in Periods, ~ IsSettled(q)', AllSettledTo(q - 1)'
               PROVE  ChargedUpTo(q - 1)' = Past(q - 1)' + StartIn(q, 1)' + StartIn(q, 2)'
    BY DEF NextStarts
  <2>1. q = p + 1
    <3>1. ~ (q <= p)
      BY <1>1
    <3>2. ~ (q > p + 1)
      <4> SUFFICES ASSUME q > p + 1 PROVE FALSE
        OBVIOUS
      <4>1. p + 1 \in 1 .. q - 1 /\ p + 1 \in Periods /\ ~ (p + 1 <= p)
        BY <1>4 DEF Periods
      <4>2. IsSettled(p + 1)'
        BY <4>1 DEF AllSettledTo
      <4> QED BY <1>1, <4>1, <4>2
    <3> QED BY <1>4, <3>1, <3>2 DEF Periods
  <2>2. q - 1 = p
    BY <1>4, <2>1
  <2>3. /\ StartIn(q, 1)' \in Int /\ StartIn(q, 2)' \in Int
        /\ StartIn(q, 1)' + StartIn(q, 2)' =
             IF Applied(p, OnMeter(p))' THEN reading'[p].dial
             ELSE settled'[p].part[OnMeter(p)'].end
    <3>1. NextRule'
      BY <1>8, <1>11, NextFollows, PTL
    <3>2. ~ AllSettledTo(q - 1)
      BY <1>4, <1>5, <2>1
    <3>3. Outcome(q)' # "APPLIED"
      BY <1>3, <3>2 DEF DialFacts, OutcomesKnown
    <3> QED BY <2>1, <2>2, <3>1, <3>3 DEF NextRule, Periods
  <2>4. PICK mm \in Meters : mm = OnMeter(p) /\ mm = OnMeter(p)' /\ mm \in MetersIn(p)
    <3>1. OnMeter(p) \in Meters /\ OnMeter(p)' = OnMeter(p) /\ OnMeter(p) \in MetersIn(p)
      BY <1>1, <1>4 DEF OnMeter, MetersIn, Meters
    <3> QED BY <3>1
  <2>5. StartIn(q, 1)' + StartIn(q, 2)' = z[mm].end
    <3>1. CASE Applied(p, mm)'
      <4>1. Trusted(p) /\ reading[p].meter = mm /\ Outcome(p) = "APPLIED"
        BY <1>1, <1>3, <3>1 DEF Applied
      <4>2. z[mm].source = "READING"
        BY <1>1, <4>1
      <4>3. z[mm].end = reading[p].dial
        BY <1>13, <2>4, <4>1, <4>2
      <4>4. Applied(p, OnMeter(p))'
        BY <2>4, <3>1 DEF Applied
      <4> QED BY <1>1, <2>3, <4>3, <4>4
    <3>2. CASE ~ Applied(p, mm)'
      <4>1. ~ Applied(p, OnMeter(p))'
        BY <2>4, <3>2 DEF Applied
      <4> QED BY <1>4, <2>3, <2>4, <4>1
    <3> QED BY <3>1, <3>2
  <2>6. z[mm].end \in Int /\ ChargedUpTo(p)' = Past(p)' + z[mm].end
    BY <1>2, <2>4 DEF PartSet
  <2>7. Past(p)' \in Int
    <3>1. TurnRule'
      BY TurnSum, PTL
    <3>2. Turns(p)' \in Int /\ MaxDial \in Int
      BY <3>1 DEF TurnRule, Periods
    <3>3. MaxDial * Turns(p)' \in Int
      BY <3>2
    <3>4. Behind(p)' \in Int
      BY DEF Behind, DialTypes, Dial
    <3> QED BY <3>3, <3>4 DEF Past
  <2> QED BY <2>2, <2>3, <2>5, <2>6, <2>7
<1>16. DraftsFit'
  <2> SUFFICES ASSUME NEW c \in Clerks, draft'[c].at = "write"
               PROVE  WorkFits(c)'
    BY DEF DraftsFit, WorkFits
  <2>1. c # k /\ draft'[c] = draft[c]
    BY <1>1 DEF NoDraft
  <2>2. draft[c] \in Written
    BY <2>1, WorkKinds
  <2>3. PICK q \in Periods, y \in [Meters -> PartSet] : q = draft[c].period /\ y = draft[c].part
    BY <2>2 DEF Written
  <2>4. /\ \A m \in Meters : PartFits(y[m], q, m) /\ Measured(y[m])
        /\ Outcome(q) = "APPLIED" /\ ~ IsSettled(q) => y[reading[q].meter].source = "READING"
    BY <2>1, <2>3 DEF DialFacts, DraftsFit, WorkFits
  <2>5. ASSUME NEW m \in Meters
        PROVE  PartFits(draft[c].part[m], draft[c].period, m)' /\ Measured(draft[c].part[m])'
    <3>1. PartFits(draft[c].part[m], draft[c].period, m)'
      BY SMTT(60), <1>1, <2>1, <2>3, <2>4 DEF PartFits, MetersIn, Removed, Trusted
    <3>2. Measured(draft[c].part[m])'
      BY <2>1, <2>3, <2>4 DEF Measured, DialUsage
    <3> QED BY <3>1, <3>2
  <2>6. ASSUME Outcome(draft[c].period)' = "APPLIED", ~ IsSettled(draft[c].period)'
        PROVE  draft'[c].part[reading'[draft'[c].period].meter].source = "READING"
    <3>1. Outcome(q) = "APPLIED" /\ ~ IsSettled(q)'
      BY <1>1, <2>1, <2>3, <2>6 DEF IsSettled, Outcome
    <3>2. ~ IsSettled(q)
      BY <1>1, <1>4, <3>1 DEF Periods
    <3> QED BY <1>1, <2>1, <2>3, <2>4, <3>1, <3>2
  <2> QED BY <2>5, <2>6 DEF WorkFits
<1> QED BY <1>7, <1>8, <1>9, <1>10, <1>11, <1>12, <1>14, <1>15, <1>16 DEF DialFacts
-----------------------------------------------------------------------------
(* Reconciliation.                                                         *)

(* Only the outcome of the newest revision changes.                        *)
LEMMA Recorded ==
  ASSUME DialTypes, NEW p \in Periods, NEW o \in Outcomes, Record(p, o),
         reading' = reading
  PROVE  /\ \A q \in Periods : q # p => recon'[q] = recon[q] /\ Outcome(q)' = Outcome(q)
         /\ Outcome(p)' = o
         /\ \A v \in Revisions : v # reading[p].rev => recon'[p][v] = recon[p][v]
<1>1. recon[p] \in [Revisions -> Outcomes] /\ reading[p].rev \in Revisions
  BY DEF DialTypes
<1>2. recon' = [recon EXCEPT ![p] = [recon[p] EXCEPT ![reading[p].rev] = o]]
  BY DEF Record, DialTypes
<1>3. recon'[p] = [recon[p] EXCEPT ![reading[p].rev] = o]
  BY <1>2 DEF DialTypes
<1>4. \A q \in Periods : q # p => recon'[q] = recon[q]
  BY <1>2 DEF DialTypes
<1> QED BY <1>1, <1>3, <1>4 DEF Outcome

(* A reconciliation left to MANUAL_REVIEW keeps the facts.                 *)
LEMMA ParkFacts ==
  ASSUME DialTypes, DialTypes', DialFacts, NEW p \in Periods,
         Trusted(p), recon[p][reading[p].rev] = "NONE",
         Record(p, "MANUAL_REVIEW"), UNCHANGED <<reading, swap, settled, shift, draft>>
  PROVE  DialFacts'
<1> USE SettlementsAssumption
<1>1. /\ \A q \in Periods : q # p => recon'[q] = recon[q]
      /\ Outcome(p)' = "MANUAL_REVIEW"
      /\ \A v \in Revisions : v # reading[p].rev => recon'[p][v] = recon[p][v]
  BY Recorded DEF Outcomes
<1>2. Outcome(p) = "NONE"
  BY DEF Outcome
<1>3. \A v \in Revisions : v > reading'[p].rev => recon'[p][v] = "NONE"
  BY <1>1 DEF DialFacts, OutcomesKnown, DialTypes, Revisions
<1>4. IF reading'[p].meter = 1 THEN swap.period = 0 \/ p < swap.period
      ELSE swap.period # 0
  BY DEF DialFacts, ReadingsMetered, Trusted
<1> QED BY <1>1, <1>2, <1>3, <1>4, ReadingFacts
SpanRule ==
    \A a \in 0 .. LastPeriod : \A b \in a .. LastPeriod :
        /\ ChargedUpTo(b) = ChargedUpTo(a) + SumOver(a + 1 .. b, [q \in Periods |-> Charged(q)])
        /\ (\A q \in a + 1 .. b : TurnsIn(q) = 0) => Turns(b) = Turns(a)

(* The sums over the periods between two readings.                         *)
LEMMA SpanSums == DialTypes => SpanRule
<1> SUFFICES ASSUME DialTypes, NEW a \in 0 .. LastPeriod, NEW b \in a .. LastPeriod
             PROVE  /\ ChargedUpTo(b) = ChargedUpTo(a)
                          + SumOver(a + 1 .. b, [q \in Periods |-> Charged(q)])
                    /\ (\A q \in a + 1 .. b : TurnsIn(q) = 0) => Turns(b) = Turns(a)
  BY DEF SpanRule
<1>0. LastPeriod \in Nat
  BY SettlementsAssumption
<1>1. \A q \in Periods : Charged(q) \in Int /\ TurnsIn(q) \in Int
  BY ChargedSum, TurnSum DEF ChargedRule, TurnRule
<1>2. ChargedUpTo(b) = ChargedUpTo(a) + SumOver(a + 1 .. b, [q \in Periods |-> Charged(q)])
  <2> DEFINE f == [q \in Periods |-> Charged(q)]
             g == [q \in Periods |-> IF q \in a + 1 .. b THEN f[q] ELSE 0]
  <2>1. \A i \in 1 .. LastPeriod : f[i] \in Int
    BY <1>1 DEF Periods
  <2>2. \A i \in 1 .. LastPeriod : g[i] = IF i \in a + 1 .. b THEN f[i] ELSE 0
    BY DEF Periods
  <2>3. /\ ChargedUpTo(b) = SumTo(f, b) /\ ChargedUpTo(a) = SumTo(f, a)
        /\ SumOver(a + 1 .. b, f) = SumTo(g, LastPeriod)
    BY DEF ChargedUpTo, SumOver
  <2> HIDE DEF f, g
  <2>4. SumTo(f, b) = SumTo(f, a) + SumTo(g, LastPeriod)
    BY <1>0, <2>1, <2>2, SpanSum
  <2> QED BY <2>3, <2>4 DEF f
<1>3. ASSUME \A q \in a + 1 .. b : TurnsIn(q) = 0 PROVE Turns(b) = Turns(a)
  <2> DEFINE f == [q \in Periods |-> TurnsIn(q)]
             g == [q \in Periods |-> IF q \in a + 1 .. b THEN f[q] ELSE 0]
  <2>1. \A i \in 1 .. LastPeriod : f[i] \in Int
    BY <1>1 DEF Periods
  <2>2. \A i \in 1 .. LastPeriod : g[i] = IF i \in a + 1 .. b THEN f[i] ELSE 0
    BY DEF Periods
  <2>3. \A i \in 1 .. LastPeriod : g[i] = 0
    BY <1>3 DEF Periods
  <2>4. Turns(b) = SumTo(f, b) /\ Turns(a) = SumTo(f, a)
    BY DEF Turns
  <2> HIDE DEF f, g
  <2>5. SumTo(f, b) = SumTo(f, a) + SumTo(g, LastPeriod)
    BY <1>0, <2>1, <2>2, SpanSum
  <2>6. SumTo(g, LastPeriod) = 0
    BY <1>0, <2>3, SumZeros
  <2>7. SumTo(f, a) \in Int
    <3>1. a \in Nat /\ \A i \in 1 .. a : f[i] \in Int
      BY <1>0, <2>1
    <3> QED BY <3>1, SumInt
  <2> QED BY <2>4, <2>5, <2>6, <2>7
<1> QED BY <1>2, <1>3

(* Sums over some periods: of equal terms, and with one changed.           *)
LEMMA SumOverEqual ==
  ASSUME NEW S \in SUBSET Periods, NEW f, NEW g,
         \A q \in S : f[q] \in Int /\ g[q] = f[q]
  PROVE  SumOver(S, f) \in Int /\ SumOver(S, g) = SumOver(S, f)
<1> DEFINE x == [q \in Periods |-> IF q \in S THEN f[q] ELSE 0]
           y == [q \in Periods |-> IF q \in S THEN g[q] ELSE 0]
<1>0. LastPeriod \in Nat
  BY SettlementsAssumption
<1>1. \A i \in 1 .. LastPeriod : x[i] \in Int /\ y[i] = x[i]
  BY DEF Periods
<1>2. SumOver(S, f) = SumTo(x, LastPeriod) /\ SumOver(S, g) = SumTo(y, LastPeriod)
  BY DEF SumOver
<1> HIDE DEF x, y
<1>3. SumTo(x, LastPeriod) \in Int
  BY <1>0, <1>1, SumInt
<1>4. SumTo(x, LastPeriod) = SumTo(y, LastPeriod)
  BY <1>0, <1>1, SumEqual
<1> QED BY <1>2, <1>3, <1>4

LEMMA SumOverBump ==
  ASSUME NEW S \in SUBSET Periods, NEW b \in S, NEW d \in Int, NEW f, NEW g,
         \A q \in S : f[q] \in Int /\ g[q] = IF q = b THEN f[q] + d ELSE f[q]
  PROVE  SumOver(S, g) = SumOver(S, f) + d
<1> DEFINE x == [q \in Periods |-> IF q \in S THEN f[q] ELSE 0]
           y == [q \in Periods |-> IF q \in S THEN g[q] ELSE 0]
<1>0. LastPeriod \in Nat /\ b \in 1 .. LastPeriod
  BY SettlementsAssumption DEF Periods
<1>1. /\ \A i \in 1 .. LastPeriod : x[i] \in Int /\ y[i] \in Int
      /\ \A i \in 1 .. LastPeriod : i # b => y[i] = x[i]
      /\ y[b] = x[b] + d /\ x[b] \in Int
  BY DEF Periods
<1>2. SumOver(S, f) = SumTo(x, LastPeriod) /\ SumOver(S, g) = SumTo(y, LastPeriod)
  BY DEF SumOver
<1> HIDE DEF x, y
<1>3. SumTo(x, LastPeriod) \in Int
  BY <1>0, <1>1, SumInt
<1>4. SumTo(y, LastPeriod) = SumTo(x, LastPeriod) + y[b] - x[b]
  BY <1>0, <1>1, SumUpdate
<1> QED BY <1>1, <1>2, <1>3, <1>4

(* What a reconciliation in its order finds between its two readings: one  *)
(* meter, no turn of the dial and no adjustment.                           *)
LEMMA SpanFacts ==
  ASSUME DialTypes, DialFacts, NEW p \in Periods, NEW a \in Periods, a < p,
         Trusted(p), Trusted(a), \A q \in Periods : a < q /\ q < p => ~ Trusted(q),
         reading[a].meter = reading[p].meter, reading[a].dial <= reading[p].dial,
         Outcome(p) = "NONE", UsedInOrder(a, p)
  PROVE  /\ AllSettledTo(p - 1)
         /\ \A q \in Periods : q > p => ~ IsSettled(q) /\ Outcome(q) = "NONE"
         /\ Level(p)
         /\ ChargedUpTo(a) = Past(a) + reading[a].dial
         /\ \A b \in a .. p : AllSettledTo(b) => Past(b) = Past(a)
         /\ \A q \in Periods : a < q /\ q <= p /\ IsSettled(q) => TurnsIn(q) = 0
         /\ \A q \in Periods : a < q /\ q < p => shift[q] = 0
         /\ settled[p].status # "FINAL" => shift[p] = 0
<1> USE SettlementsAssumption
<1> DEFINE m == reading[p].meter
<1>0. /\ a \in Int /\ p \in Int /\ 1 <= a /\ p <= LastPeriod /\ m \in Meters
      /\ swap.period \in 0 .. LastPeriod /\ p - 1 \in Periods
      /\ reading[p].rev \in Revisions /\ reading[a].rev \in Revisions
  BY DEF Periods, DialTypes
<1>1. /\ \A q \in p + 1 .. LastPeriod :
            ~ IsSettled(q) /\ \A v \in Revisions : recon[q][v] = "NONE"
      /\ Consumed(a) \/ Outcome(a) \in {"APPLIED", "ABSORBED"}
      /\ \A q \in 1 .. p - 1 : IsSettled(q)
  BY DEF UsedInOrder, Outcome
<1>2. AllSettledTo(p - 1) /\ IsSettled(a)
  BY <1>0, <1>1 DEF AllSettledTo
<1>3. \A q \in Periods : q > p => ~ IsSettled(q) /\ Outcome(q) = "NONE"
  BY <1>0, <1>1 DEF Periods, Outcome, DialTypes
<1>4. m \in MetersIn(a) /\ (settled[a].part[m].source = "READING"
                              \/ Outcome(a) \in {"APPLIED", "ABSORBED"})
  <2>1. CASE Consumed(a)
    <3>1. settled[a].part[m].source = "READING"
      BY <2>1 DEF Consumed
    <3>2. PartFits(settled[a].part[m], a, m)
      BY <1>0, <1>2 DEF DialFacts, PartsFit
    <3> QED BY <3>1, <3>2 DEF PartFits, NoPart
  <2>2. CASE Outcome(a) \in {"APPLIED", "ABSORBED"}
    <3>1. Level(a)
      BY <2>2 DEF DialFacts, OutcomesKnown
    <3> QED BY <2>2, <3>1, LevelMeter
  <2> QED BY <1>1, <2>1, <2>2
<1>5. ChargedUpTo(a) = Past(a) + reading[a].dial
  BY <1>2, <1>4 DEF DialFacts, KnownCharged, Known
<1>6. /\ Level(p)
      /\ \A q \in Periods : a < q /\ q <= p => /\ MetersIn(q) = {m} /\ ~ Removed(q, m)
                                               /\ Behind(q) = Behind(a)
  <2>1. IF m = 1 THEN swap.period = 0 \/ p < swap.period ELSE swap.period # 0
    BY DEF DialFacts, ReadingsMetered, Trusted
  <2>2. CASE m = 1
    BY <1>0, <2>1, <2>2 DEF Level, MetersIn, Removed, Behind, Meters, Periods
  <2>3. CASE m = 2
    <3>1. swap.period # 0 /\ swap.period <= a
      BY <1>4, <2>1, <2>3 DEF MetersIn
    <3>2. Level(p)
      BY <1>0, <2>3, <3>1 DEF Level
    <3>3. ASSUME NEW q \in Periods, a < q, q <= p
          PROVE  MetersIn(q) = {m} /\ ~ Removed(q, m) /\ Behind(q) = Behind(a)
      BY <1>0, <2>3, <3>1, <3>3 DEF MetersIn, Removed, Behind, Meters, Periods
    <3> QED BY <3>2, <3>3
  <2> QED BY <1>0, <2>2, <2>3 DEF Meters
<1>7. ASSUME NEW q \in Periods, a < q, q <= p, IsSettled(q) PROVE TurnsIn(q) = 0
  <2> SUFFICES ASSUME NEW n \in Meters, Turned(q, n) PROVE FALSE
    BY DEF TurnsIn, Meters
  <2> DEFINE z == settled[q].part[n]
  <2>1. z.source = "READING" /\ z.end < z.prev
    BY DEF Turned
  <2>2. PartFits(z, q, n)
    BY <1>7 DEF DialFacts, PartsFit
  <2>3. n = m /\ ~ Removed(q, n)
    <3>1. n \in MetersIn(q)
      BY <2>1, <2>2 DEF PartFits, NoPart
    <3> QED BY <1>6, <1>7, <3>1
  <2>4. /\ q - 1 \in Periods /\ Trusted(q - 1) /\ reading[q - 1].meter = n
        /\ reading[q - 1].dial = z.prev
    BY <1>7, <2>3 DEF DialFacts, TurnsSeen
  <2>5. q - 1 = a
    BY <1>0, <1>7, <2>4 DEF Periods
  <2>6. Trusted(q) /\ z.end = reading[q].dial
    BY <1>6, <1>7, <2>1, <2>2, <2>3 DEF PartFits
  <2>7. q = p
    BY <1>0, <1>7, <2>6 DEF Periods
  <2>8. reading[a].dial = z.prev /\ z.end = reading[p].dial
    BY <2>4, <2>5, <2>6, <2>7
  <2>9. reading[a].dial \in Int /\ reading[p].dial \in Int
    BY DEF DialTypes, Dial
  <2> HIDE DEF z
  <2> QED BY <2>1, <2>8, <2>9
<1>8. ASSUME NEW b \in a .. p, AllSettledTo(b) PROVE Past(b) = Past(a)
  <2>1. a \in 0 .. LastPeriod /\ b \in a .. LastPeriod /\ b \in Periods
    BY <1>0 DEF Periods
  <2>2. \A q \in a + 1 .. b : TurnsIn(q) = 0
    <3> SUFFICES ASSUME NEW q \in a + 1 .. b PROVE TurnsIn(q) = 0
      OBVIOUS
    <3>1. q \in Periods /\ a < q /\ q <= p /\ q \in 1 .. b
      BY <1>0 DEF Periods
    <3> QED BY <1>7, <1>8, <3>1 DEF AllSettledTo
  <2>3. Turns(b) = Turns(a)
    BY <2>1, <2>2, SpanSums DEF SpanRule
  <2>4. Behind(b) = Behind(a)
    <3>1. CASE b = a
      BY <3>1
    <3>2. CASE b # a
      BY <1>0, <1>6, <2>1, <3>2
    <3> QED BY <3>1, <3>2
  <2> QED BY <2>3, <2>4 DEF Past
<1>9. ASSUME NEW q \in Periods, a < q, q < p PROVE shift[q] = 0
  <2> SUFFICES ASSUME shift[q] # 0 PROVE FALSE
    OBVIOUS
  <2>1. PICK x \in Periods : (x = q \/ x = q + 1) /\ Trusted(x) /\ Outcome(x) = "APPLIED"
    BY DEF DialFacts, ShiftsApplied
  <2>2. a < x /\ x <= p
    BY <1>0, <1>9, <2>1 DEF Periods
  <2>3. x = p
    BY <1>0, <2>1, <2>2 DEF Periods
  <2> QED BY <2>1, <2>3
<1>10. settled[p].status # "FINAL" => shift[p] = 0
  BY DEF DialFacts, ShiftsApplied
<1> QED BY <1>2, <1>3, <1>5, <1>6, <1>7, <1>8, <1>9, <1>10

(* What Absorb writes, when the period has one meter.                      *)
LEMMA AbsorbEffect ==
  ASSUME DialTypes, NEW p \in Periods, NEW x \in Int, Absorb(p, x), ~ Park(p),
         Level(p), PartsFit, IsSettled(p), reading' = reading
  PROVE  LET m == reading[p].meter
             z == [prev |-> settled[p].part[m].prev, end |-> reading[p].dial, usage |-> x,
                   source |-> "READING", rev |-> reading[p].rev]
         IN  /\ x >= 0 /\ shift' = shift /\ Record(p, "ABSORBED")
             /\ settled'[p].status = settled[p].status
             /\ settled'[p].part[m] = z
             /\ \A n \in Meters : n # m => /\ settled'[p].part[n] = settled[p].part[n]
                                           /\ settled[p].part[n] = NoPart
             /\ \A q \in Periods : q # p => settled'[q] = settled[q]
<1> DEFINE m == reading[p].meter
           rest == x - settled[p].part[3 - m].usage
           y == [prev |-> settled[p].part[m].prev, end |-> reading[p].dial, usage |-> rest,
                 source |-> "READING", rev |-> reading[p].rev]
<1> USE SettlementsAssumption
<1>1. m \in Meters /\ 3 - m \in Meters /\ \A n \in Meters : n # m => n = 3 - m
  BY DEF DialTypes, Meters
<1>2. \A n \in Meters : n # m => settled[p].part[n] = NoPart
  <2>1. MetersIn(p) = {m}
    BY LevelMeter
  <2> QED BY <2>1 DEF PartsFit, PartFits
<1>3. rest = x
  <2>1. 3 - m # m
    BY <1>1 DEF Meters
  <2> QED BY <1>1, <1>2, <2>1 DEF NoPart
<1>4. /\ ~ (rest < 0) /\ shift' = shift /\ Record(p, "ABSORBED")
      /\ settled' = [settled EXCEPT ![p] =
                        [settled[p] EXCEPT !.part = [settled[p].part EXCEPT ![m] = y]]]
  <2>1. settled[p] \in [status : Statuses, part : [Meters -> PartSet]]
    BY DEF DialTypes
  <2>2. ~ (rest < 0)
    BY DEF Absorb
  <2> QED BY <1>1, <2>1, <2>2 DEF Absorb, DialTypes
<1> HIDE DEF y, rest
<1>5. /\ settled'[p] = [settled[p] EXCEPT !.part = [settled[p].part EXCEPT ![m] = y]]
      /\ \A q \in Periods : q # p => settled'[q] = settled[q]
  BY <1>4 DEF DialTypes
<1>6. PICK s \in [status : Statuses, part : [Meters -> PartSet]] : s = settled[p]
  BY DEF DialTypes
<1>7. settled'[p] = [s EXCEPT !.part = [s.part EXCEPT ![m] = y]]
  BY <1>5, <1>6
<1>8. /\ settled'[p].status = settled[p].status
      /\ settled'[p].part = [s.part EXCEPT ![m] = y]
  BY <1>6, <1>7
<1>9. settled'[p].part[m] = y /\ \A n \in Meters : n # m => settled'[p].part[n] = s.part[n]
  BY <1>1, <1>6, <1>8
<1>10. y = [prev |-> settled[p].part[m].prev, end |-> reading[p].dial, usage |-> x,
            source |-> "READING", rev |-> reading[p].rev]
  BY <1>3 DEF y
<1> QED BY SMTT(60), <1>2, <1>3, <1>4, <1>5, <1>6, <1>8, <1>9, <1>10

(* What is charged up to the absorbed period is what its dial shows.       *)
LEMMA AbsorbSum ==
  ASSUME DialTypes, DialTypes', DialFacts, NEW p \in Periods, NEW a \in Periods, a < p,
         Trusted(p), Trusted(a), \A q \in Periods : a < q /\ q < p => ~ Trusted(q),
         reading[a].meter = reading[p].meter, reading[a].dial <= reading[p].dial,
         Outcome(p) = "NONE", UsedInOrder(a, p), NEW x \in Int,
         x = reading[p].dial - reading[a].dial - SettledUsage(Span(a, p)),
         Absorbable(p, Span(a, p), x), Absorb(p, x), ~ Park(p),
         reading' = reading, swap' = swap
  PROVE  /\ \A n \in 0 .. p - 1 : ChargedUpTo(n)' = ChargedUpTo(n)
         /\ \A n \in 0 .. LastPeriod : Past(n)' = Past(n)
         /\ ChargedUpTo(p)' = Past(p) + reading[p].dial
         /\ settled'[p].part[reading[p].meter].prev <= reading[p].dial
<1> USE SettlementsAssumption
<1> DEFINE m == reading[p].meter
           prev == settled[p].part[m].prev
<1>0. /\ a \in Int /\ p \in Int /\ 1 <= a /\ p <= LastPeriod /\ m \in Meters
      /\ MaxDial \in Int /\ prev \in Int
      /\ reading[p].dial \in Int /\ reading[a].dial \in Int
  <2>1. m \in Meters /\ reading[p].dial \in Int /\ reading[a].dial \in Int
    BY DEF DialTypes, Dial
  <2>2. settled[p].part[m] \in PartSet
    BY <2>1 DEF DialTypes
  <2>3. prev \in Int
    BY <2>2 DEF PartSet
  <2> HIDE DEF prev, m
  <2> QED BY <2>1, <2>3 DEF Periods, m
<1>1. /\ AllSettledTo(p - 1) /\ Level(p)
      /\ ChargedUpTo(a) = Past(a) + reading[a].dial
      /\ \A b \in a .. p : AllSettledTo(b) => Past(b) = Past(a)
      /\ \A q \in Periods : a < q /\ q <= p /\ IsSettled(q) => TurnsIn(q) = 0
      /\ \A q \in Periods : a < q /\ q < p => shift[q] = 0
      /\ settled[p].status # "FINAL" => shift[p] = 0
  BY SpanFacts
<1>2. /\ p \in Span(a, p) /\ settled[p].status = "DRAFT" /\ IsSettled(p)
      /\ \A q \in Span(a, p) \ {p} : settled[q].status = "FINAL"
  BY DEF Absorbable, IsSettled
<1>3. AllSettledTo(p) /\ Past(p) = Past(a) /\ Past(p - 1) = Past(a) /\ shift[p] = 0
  <2>1. AllSettledTo(p)
    BY <1>0, <1>1, <1>2 DEF AllSettledTo
  <2>2. p \in a .. p /\ p - 1 \in a .. p
    BY <1>0
  <2> QED BY <1>1, <1>2, <2>1, <2>2
<1>4. /\ x >= 0 /\ shift' = shift
      /\ settled'[p].part[m] = [prev |-> prev, end |-> reading[p].dial, usage |-> x,
                                source |-> "READING", rev |-> reading[p].rev]
      /\ \A n \in Meters : n # m => /\ settled'[p].part[n] = settled[p].part[n]
                                    /\ settled[p].part[n] = NoPart
      /\ \A q \in Periods : q # p => settled'[q] = settled[q]
  <2>1. PartsFit
    BY DEF DialFacts
  <2> QED BY <1>1, <1>2, <2>1, AbsorbEffect
<1> DEFINE T == a + 1 .. p - 1
           total == [q \in Periods |-> Total(q)]
<1>5. {q \in Span(a, p) : settled[q].status = "FINAL"} = T
  <2>1. \A q \in T : q \in Span(a, p) \ {p}
    BY <1>0, <1>1 DEF Span, AllSettledTo
  <2>2. \A q \in Span(a, p) : q = p \/ q \in T
    BY <1>0 DEF Span
  <2> QED BY <1>0, <1>2, <2>1, <2>2
<1>6. SettledUsage(Span(a, p)) = SumOver(T, total)
  BY <1>5 DEF SettledUsage
<1>7. ChargedUpTo(p - 1) = ChargedUpTo(a) + SumOver(T, total) /\ SumOver(T, total) \in Int
  <2> DEFINE charged == [q \in Periods |-> Charged(q)]
  <2>1. T \in SUBSET Periods
    BY <1>0 DEF Periods
  <2>2. \A q \in T : total[q] \in Int /\ charged[q] = total[q]
    <3> SUFFICES ASSUME NEW q \in T PROVE total[q] \in Int /\ charged[q] = total[q]
      OBVIOUS
    <3>1. q \in Periods /\ a < q /\ q < p
      BY <1>0, <2>1
    <3>2. Total(q) \in Int /\ shift[q] = 0
      BY <1>1, <3>1, ChargedSum DEF ChargedRule
    <3> QED BY <3>1, <3>2 DEF Charged
  <2>3. a \in 0 .. LastPeriod /\ p - 1 \in a .. LastPeriod
    BY <1>0
  <2>4. ChargedUpTo(p - 1) = ChargedUpTo(a) + SumOver(T, charged)
    BY <2>3, SpanSums DEF SpanRule
  <2> HIDE DEF T, total, charged
  <2>5. SumOver(T, total) \in Int /\ SumOver(T, charged) = SumOver(T, total)
    BY <2>1, <2>2, SumOverEqual
  <2> QED BY <2>4, <2>5
<1> HIDE DEF T, total
<1>8. ChargedUpTo(p - 1) = Past(p - 1) + prev
  <2>1. p # swap.period /\ m \in MetersIn(p)
    BY <1>1, LevelMeter
  <2> QED BY <1>2, <2>1 DEF DialFacts, DraftsStart
<1>9. Past(a) \in Int
  <2>1. Turns(a) \in Int
    BY TurnSum DEF TurnRule
  <2>2. MaxDial * Turns(a) \in Int
    BY <1>0, <2>1
  <2>3. Behind(a) \in Int
    BY DEF Behind, DialTypes, Dial
  <2> QED BY <2>2, <2>3 DEF Past
<1> HIDE DEF prev
<1>10. x = reading[p].dial - prev
  BY <1>0, <1>1, <1>3, <1>6, <1>7, <1>8, <1>9
<1>11. prev <= reading[p].dial
  BY <1>0, <1>4, <1>10
<1>12. \A q \in Periods : TurnsIn(q)' = TurnsIn(q)
  <2> SUFFICES ASSUME NEW q \in Periods PROVE TurnsIn(q)' = TurnsIn(q)
    OBVIOUS
  <2>1. CASE q # p
    BY <1>4, <2>1 DEF TurnsIn, Turned
  <2>2. CASE q = p
    <3>1. TurnsIn(p) = 0
      BY <1>0, <1>1, <1>2
    <3>2. \A n \in Meters : ~ Turned(p, n)'
      <4> SUFFICES ASSUME NEW n \in Meters PROVE ~ Turned(p, n)'
        OBVIOUS
      <4>1. CASE n = m
        <5>1. settled'[p].part[n].prev = prev /\ settled'[p].part[n].end = reading[p].dial
          BY <1>4, <4>1
        <5> QED BY <1>0, <1>11, <5>1 DEF Turned
      <4>2. CASE n # m
        BY <1>4, <4>2 DEF Turned, NoPart
      <4> QED BY <4>1, <4>2
    <3> QED BY <2>2, <3>1, <3>2 DEF TurnsIn, Meters
  <2> QED BY <2>1, <2>2
<1>13. \A n \in 0 .. LastPeriod : Past(n)' = Past(n)
  <2> SUFFICES ASSUME NEW n \in 0 .. LastPeriod PROVE Past(n)' = Past(n)
    OBVIOUS
  <2>1. \A q \in 1 .. n : q \in Periods
    BY DEF Periods
  <2>2. Turns(n)' = Turns(n)
    BY <1>12, <2>1, TurnFrame
  <2> QED BY <2>2 DEF Past, Behind
<1>14. \A n \in 0 .. p - 1 : ChargedUpTo(n)' = ChargedUpTo(n)
  <2> SUFFICES ASSUME NEW n \in 0 .. p - 1 PROVE ChargedUpTo(n)' = ChargedUpTo(n)
    OBVIOUS
  <2>1. n \in 0 .. LastPeriod /\ \A q \in 1 .. n : q \in Periods /\ q # p
    BY <1>0 DEF Periods
  <2>2. \A q \in 1 .. n : Charged(q)' = Charged(q)
    BY <1>4, <2>1 DEF Charged, Total
  <2> QED BY <2>1, <2>2, ChargedFrame
<1>15. Charged(p)' = x
  <2>1. settled'[p].part[m].usage = x /\ \A n \in Meters : n # m => settled'[p].part[n].usage = 0
    BY <1>4 DEF NoPart
  <2>2. Total(p)' = x
    <3>1. CASE m = 1
      BY <2>1, <3>1 DEF Total, Meters
    <3>2. CASE m = 2
      BY <2>1, <3>2 DEF Total, Meters
    <3> QED BY <1>0, <3>1, <3>2 DEF Meters
  <2> QED BY <1>3, <1>4, <2>2 DEF Charged
<1>16. ChargedUpTo(p)' = Past(p) + reading[p].dial
  <2>1. ChargedRule'
    BY ChargedSum, PTL
  <2>2. ChargedUpTo(p)' = ChargedUpTo(p - 1)' + Charged(p)'
    BY <2>1 DEF ChargedRule, Periods
  <2>3. ChargedUpTo(p - 1)' = ChargedUpTo(p - 1)
    BY <1>0, <1>14
  <2> QED BY <1>0, <1>3, <1>8, <1>9, <1>10, <1>15, <2>2, <2>3
<1>17. settled'[p].part[m].prev = prev
  BY <1>4
<1> QED BY <1>11, <1>13, <1>14, <1>16, <1>17

(* A reconciliation absorbed into a draft keeps the facts.                 *)
LEMMA AbsorbFacts ==
  ASSUME DialTypes, DialTypes', DialFacts, NEW p \in Periods, NEW a \in Periods, a < p,
         Trusted(p), Trusted(a), \A q \in Periods : a < q /\ q < p => ~ Trusted(q),
         reading[a].meter = reading[p].meter, reading[a].dial <= reading[p].dial,
         Outcome(p) = "NONE", UsedInOrder(a, p), NEW x \in Int,
         x = reading[p].dial - reading[a].dial - SettledUsage(Span(a, p)),
         Absorbable(p, Span(a, p), x), Absorb(p, x), ~ Park(p),
         reading' = reading, swap' = swap, draft' = draft
  PROVE  DialFacts'
<1> USE SettlementsAssumption
<1>1. /\ p \in Int /\ 1 <= p /\ p <= LastPeriod /\ swap.period \in 0 .. LastPeriod
      /\ reading[p].meter \in Meters /\ reading[p].dial \in Int
  BY DEF Periods, DialTypes, Dial
<1>2. /\ AllSettledTo(p - 1) /\ Level(p)
      /\ \A q \in Periods : q > p => ~ IsSettled(q) /\ Outcome(q) = "NONE"
  BY SpanFacts
<1>3. /\ \A n \in 0 .. p - 1 : ChargedUpTo(n)' = ChargedUpTo(n)
      /\ \A n \in 0 .. LastPeriod : Past(n)' = Past(n)
      /\ ChargedUpTo(p)' = Past(p) + reading[p].dial
      /\ settled'[p].part[reading[p].meter].prev <= reading[p].dial
  BY AbsorbSum
<1>4. IsSettled(p) /\ settled[p].status = "DRAFT"
  BY DEF Absorbable, IsSettled
<1> DEFINE m == reading[p].meter
           z == [prev |-> settled[p].part[m].prev, end |-> reading[p].dial, usage |-> x,
                 source |-> "READING", rev |-> reading[p].rev]
<1>5. /\ shift' = shift /\ Record(p, "ABSORBED")
      /\ settled'[p].status = settled[p].status
      /\ settled'[p].part[m] = z
      /\ \A n \in Meters : n # m => settled'[p].part[n] = settled[p].part[n]
      /\ \A q \in Periods : q # p => settled'[q] = settled[q]
  <2>1. PartsFit
    BY DEF DialFacts
  <2> QED BY <1>2, <1>4, <2>1, AbsorbEffect
<1>6. /\ \A q \in Periods : q # p => Outcome(q)' = Outcome(q)
      /\ \A q \in Periods : q # p => recon'[q] = recon[q]
      /\ Outcome(p)' = "ABSORBED"
      /\ \A v \in Revisions : v # reading[p].rev => recon'[p][v] = recon[p][v]
  <2>1. "ABSORBED" \in Outcomes
    BY DEF Outcomes
  <2> QED BY <1>5, <2>1, Recorded
<1>7. \A q \in Periods : IsSettled(q)' = IsSettled(q) /\ settled'[q].status = settled[q].status
  BY <1>5 DEF IsSettled
<1>8. /\ \A q : Trusted(q)' = Trusted(q) /\ Level(q)' = Level(q) /\ MetersIn(q)' = MetersIn(q)
      /\ \A q, n : Removed(q, n)' = Removed(q, n)
  BY DEF Trusted, Level, MetersIn, Removed
<1>9. \A q \in Periods : AllSettledTo(q - 1)' = AllSettledTo(q - 1)
  <2>1. \A q \in Periods : \A y \in 1 .. q - 1 : y \in Periods
    BY DEF Periods
  <2> QED BY <1>7, <2>1 DEF AllSettledTo
<1>10. /\ MetersIn(p) = {m} /\ p # swap.period /\ ~ Removed(p, m) /\ OnMeter(p) = m
  <2>1. MetersIn(p) = {m} /\ p # swap.period
    BY <1>2, LevelMeter
  <2>2. OnMeter(p) \in MetersIn(p)
    BY <1>1 DEF OnMeter, MetersIn, Meters
  <2> QED BY <2>1, <2>2 DEF Removed
<1>11. SettledInOrder' /\ ReadingsMetered'
  <2>1. SettledInOrder'
    BY <1>7 DEF DialFacts, SettledInOrder
  <2>2. ReadingsMetered'
    BY DEF DialFacts, ReadingsMetered
  <2> QED BY <2>1, <2>2
<1>12. PartsFit'
  <2> SUFFICES ASSUME NEW q \in Periods, NEW n \in Meters, IsSettled(q)'
               PROVE  PartFits(settled[q].part[n], q, n)'
    BY DEF PartsFit
  <2>1. PartFits(settled[q].part[n], q, n)
    BY <1>7 DEF DialFacts, PartsFit
  <2>2. CASE q = p /\ n = m
    <3>1. PartFits(z, p, m)
      BY <1>10 DEF PartFits
    <3> HIDE DEF z, m
    <3> QED BY <1>5, <2>2, <3>1 DEF PartFits, MetersIn, Removed, Trusted
  <2>3. CASE q # p \/ n # m
    <3>1. settled'[q].part[n] = settled[q].part[n]
      BY <1>5, <2>3
    <3> QED BY <2>1, <3>1 DEF PartFits, MetersIn, Removed, Trusted
  <2> QED BY <2>2, <2>3
<1>13. TurnsSeen'
  <2> SUFFICES ASSUME NEW q \in Periods, NEW n \in Meters,
                      IsSettled(q)', Turned(q, n)', ~ Removed(q, n)
               PROVE  /\ q - 1 \in Periods /\ Trusted(q - 1) /\ reading[q - 1].meter = n
                      /\ reading[q - 1].dial = settled'[q].part[n].prev
    BY <1>8 DEF TurnsSeen
  <2>1. CASE q = p /\ n = m
    <3>1. settled'[p].part[m].end = reading[p].dial
      BY <1>5
    <3>2. settled'[p].part[m].prev \in Int
      <4>1. settled'[p].part[m] \in PartSet
        BY <1>1 DEF DialTypes
      <4> QED BY <4>1 DEF PartSet
    <3> QED BY SMTT(60), <1>1, <1>3, <2>1, <3>1, <3>2 DEF Turned
  <2>2. CASE q # p \/ n # m
    <3>1. settled'[q].part[n] = settled[q].part[n]
      BY <1>5, <2>2
    <3>2. Turned(q, n) /\ IsSettled(q)
      BY <1>7, <3>1 DEF Turned
    <3> QED BY <3>1, <3>2 DEF DialFacts, TurnsSeen
  <2> QED BY <2>1, <2>2
<1>14. ShiftsApplied'
  <2> SUFFICES ASSUME NEW q \in Periods, shift[q] # 0
               PROVE  /\ settled'[q].status = "FINAL"
                      /\ \E y \in Periods : /\ y = q \/ y = q + 1
                                            /\ Trusted(y)' /\ Outcome(y)' = "APPLIED"
    BY <1>5 DEF ShiftsApplied
  <2>1. PICK y \in Periods : (y = q \/ y = q + 1) /\ Trusted(y) /\ Outcome(y) = "APPLIED"
    BY DEF DialFacts, ShiftsApplied
  <2>2. y # p
    BY <2>1
  <2>3. settled[q].status = "FINAL"
    BY DEF DialFacts, ShiftsApplied
  <2> QED BY <1>6, <1>7, <1>8, <2>1, <2>2, <2>3
<1>15. OutcomesKnown'
  <2> SUFFICES ASSUME NEW q \in Periods
               PROVE  /\ Outcome(q)' \in {"APPLIED", "ABSORBED"} =>
                           Trusted(q)' /\ Level(q)' /\ AllSettledTo(q - 1)'
                      /\ Outcome(q)' = "ABSORBED" =>
                           /\ IsSettled(q)'
                           /\ settled'[q].part[reading'[q].meter].source = "READING"
                      /\ \A v \in Revisions : v > reading'[q].rev => recon'[q][v] = "NONE"
    BY DEF OutcomesKnown
  <2>1. /\ Outcome(q) \in {"APPLIED", "ABSORBED"} =>
             Trusted(q) /\ Level(q) /\ AllSettledTo(q - 1)
        /\ Outcome(q) = "ABSORBED" =>
             /\ IsSettled(q)
             /\ settled[q].part[reading[q].meter].source = "READING"
        /\ \A v \in Revisions : v > reading[q].rev => recon[q][v] = "NONE"
    BY DEF DialFacts, OutcomesKnown
  <2>2. CASE q # p
    BY <1>5, <1>6, <1>7, <1>8, <1>9, <2>1, <2>2
  <2>3. CASE q = p
    <3>1. \A v \in Revisions : v > reading[p].rev => recon'[p][v] = "NONE"
      BY <1>6, <2>1, <2>3 DEF DialTypes, Revisions
    <3>2. settled'[p].part[m].source = "READING"
      BY <1>5
    <3> QED BY <1>2, <1>4, <1>7, <1>8, <1>9, <2>3, <3>1, <3>2
  <2> QED BY <2>2, <2>3
<1>16. DraftsStart'
  <2> SUFFICES ASSUME NEW q \in Periods, settled'[q].status = "DRAFT", q # swap.period,
                      NEW n \in MetersIn(q)
               PROVE  ChargedUpTo(q - 1)' = Past(q - 1)' + settled'[q].part[n].prev
    BY <1>8 DEF DraftsStart
  <2>1. settled[q].status = "DRAFT"
    BY <1>7
  <2>2. ChargedUpTo(q - 1) = Past(q - 1) + settled[q].part[n].prev
    BY <2>1 DEF DialFacts, DraftsStart
  <2>3. q <= p
    <3>1. IsSettled(q)
      BY <2>1 DEF IsSettled
    <3> QED BY <1>1, <1>2, <3>1 DEF Periods
  <2>4. q - 1 \in 0 .. p - 1 /\ q - 1 \in 0 .. LastPeriod
    BY <1>1, <2>3 DEF Periods
  <2>5. settled'[q].part[n].prev = settled[q].part[n].prev
    <3>1. n \in Meters
      BY DEF MetersIn
    <3> QED BY <1>5, <3>1
  <2> QED BY <1>3, <2>2, <2>4, <2>5
<1>17. KnownCharged'
  <2> SUFFICES ASSUME NEW q \in Periods, Known(q)'
               PROVE  ChargedUpTo(q)' = Past(q)' + reading[q].dial
    BY DEF KnownCharged
  <2>1. CASE q = p
    <3>1. p \in 0 .. LastPeriod
      BY <1>1
    <3> QED BY <1>3, <2>1, <3>1
  <2>2. CASE q # p
    <3>1. Known(q)
      BY <1>5, <1>6, <1>7, <1>8, <2>2 DEF Known
    <3>2. q < p
      BY <1>1, <1>2, <2>2, <3>1 DEF Known, Periods
    <3>3. q \in 0 .. p - 1 /\ q \in 0 .. LastPeriod
      BY <1>1, <3>2 DEF Periods
    <3> QED BY <1>3, <3>1, <3>3 DEF DialFacts, KnownCharged
  <2> QED BY <2>1, <2>2
<1>18. NextStarts'
  <2> SUFFICES ASSUME NEW q \in Periods, ~ IsSettled(q)', AllSettledTo(q - 1)'
               PROVE  ChargedUpTo(q - 1)' = Past(q - 1)' + StartIn(q, 1)' + StartIn(q, 2)'
    BY DEF NextStarts
  <2>1. q = p + 1 /\ q - 1 = p /\ p + 1 \in Periods /\ AllSettledTo(p)'
    <3>1. q > p
      <4> SUFFICES ASSUME q <= p PROVE FALSE
        BY <1>1 DEF Periods
      <4>1. q = p \/ q \in 1 .. p - 1
        BY <1>1 DEF Periods
      <4> QED BY <1>2, <1>4, <1>7, <4>1 DEF AllSettledTo
    <3>2. q <= p + 1
      <4> SUFFICES ASSUME q > p + 1 PROVE FALSE
        BY <1>1 DEF Periods
      <4>1. p + 1 \in 1 .. q - 1 /\ p + 1 \in Periods
        BY <1>1 DEF Periods
      <4>2. IsSettled(p + 1)'
        BY <4>1 DEF AllSettledTo
      <4> QED BY <1>1, <1>2, <1>7, <4>1, <4>2
    <3>3. q = p + 1 /\ q - 1 = p
      BY <1>1, <3>1, <3>2 DEF Periods
    <3> QED BY <3>3
  <2>2. /\ StartIn(q, 1)' \in Int /\ StartIn(q, 2)' \in Int
        /\ StartIn(q, 1)' + StartIn(q, 2)' = settled'[p].part[m].end
    <3>1. NextRule'
      BY <1>12, <1>15, NextFollows, PTL
    <3>2. Outcome(p + 1)' # "APPLIED"
      BY <1>1, <1>2, <1>6, <2>1
    <3>3. ~ Applied(p, OnMeter(p))'
      BY <1>6 DEF Applied
    <3>4. OnMeter(p)' = m
      BY <1>10 DEF OnMeter
    <3> QED BY <2>1, <3>1, <3>2, <3>3, <3>4 DEF NextRule
  <2>3. settled'[p].part[m].end = reading[p].dial
    BY <1>5
  <2>4. Past(p)' \in Int /\ Past(p)' = Past(p)
    <3>1. TurnRule'
      BY TurnSum, PTL
    <3>2. Turns(p)' \in Int /\ MaxDial \in Int
      BY <3>1 DEF TurnRule, Periods
    <3>3. MaxDial * Turns(p)' \in Int
      BY <3>2
    <3>4. Behind(p)' \in Int
      BY DEF Behind, DialTypes, Dial
    <3>5. p \in 0 .. LastPeriod
      BY <1>1
    <3> QED BY <1>3, <3>3, <3>4, <3>5 DEF Past
  <2> HIDE DEF m, z
  <2> QED BY <1>1, <1>3, <2>1, <2>2, <2>3, <2>4
<1>19. DraftsFit'
  <2> SUFFICES ASSUME NEW c \in Clerks, draft[c].at = "write"
               PROVE  WorkFits(c)'
    BY DEF DraftsFit, WorkFits
  <2>1. draft[c] # NoDraft
    BY WorkKinds
  <2>2. draft[c] \in Written
    BY WorkKinds
  <2>3. PICK q \in Periods, y \in [Meters -> PartSet] : q = draft[c].period /\ y = draft[c].part
    BY <2>2 DEF Written
  <2>4. /\ \A n \in Meters : PartFits(y[n], q, n) /\ Measured(y[n])
        /\ Outcome(q) = "APPLIED" /\ ~ IsSettled(q) => y[reading[q].meter].source = "READING"
    BY <2>3 DEF DialFacts, DraftsFit, WorkFits
  <2>5. ASSUME NEW n \in Meters
        PROVE  PartFits(draft[c].part[n], draft[c].period, n)' /\ Measured(draft[c].part[n])'
    <3>1. PartFits(draft[c].part[n], draft[c].period, n)'
      BY <2>3, <2>4 DEF PartFits, MetersIn, Removed, Trusted
    <3>2. Measured(draft[c].part[n])'
      BY <2>3, <2>4 DEF Measured, DialUsage
    <3> QED BY <3>1, <3>2
  <2>6. ASSUME Outcome(draft[c].period)' = "APPLIED", ~ IsSettled(draft[c].period)'
        PROVE  draft'[c].part[reading'[draft'[c].period].meter].source = "READING"
    <3>1. Outcome(q)' = "APPLIED" /\ ~ IsSettled(q)'
      BY <2>3, <2>6 DEF IsSettled, Outcome
    <3>2. Outcome(q) = "APPLIED" /\ ~ IsSettled(q)
      BY <1>6, <1>7, <3>1
    <3> QED BY <2>3, <2>4, <3>2
  <2> QED BY <2>5, <2>6 DEF WorkFits
<1> QED BY <1>11, <1>12, <1>13, <1>14, <1>15, <1>16, <1>17, <1>18, <1>19 DEF DialFacts
(* An adjustment charges up to its last period what the dial shows.        *)
LEMMA AdjustSum ==
  ASSUME DialTypes, DialTypes', DialFacts, NEW p \in Periods, NEW a \in Periods, a < p,
         Trusted(p), Trusted(a), \A q \in Periods : a < q /\ q < p => ~ Trusted(q),
         reading[a].meter = reading[p].meter, reading[a].dial <= reading[p].dial,
         Outcome(p) = "NONE", UsedInOrder(a, p), NEW x \in Int,
         x = reading[p].dial - reading[a].dial, Span(a, p) # {},
         AdjustUsage(p, Span(a, p), x), reading' = reading, swap' = swap
  PROVE  \E b \in Periods :
            /\ b = IF IsSettled(p) THEN p ELSE p - 1
            /\ a < b /\ AllSettledTo(b)
            /\ \A q \in Periods : a < q /\ q <= b => settled[q].status = "FINAL"
            /\ \A q \in Periods : q # b => shift'[q] = shift[q]
            /\ \A n \in 0 .. a : ChargedUpTo(n)' = ChargedUpTo(n)
            /\ ChargedUpTo(b)' = Past(b) + reading[p].dial
<1> USE SettlementsAssumption
<1>0. /\ a \in Int /\ p \in Int /\ 1 <= a /\ p <= LastPeriod
      /\ reading[p].dial \in Int /\ reading[a].dial \in Int
  BY DEF Periods, DialTypes, Dial
<1>1. /\ AllSettledTo(p - 1) /\ Level(p)
      /\ ChargedUpTo(a) = Past(a) + reading[a].dial
      /\ \A b \in a .. p : AllSettledTo(b) => Past(b) = Past(a)
      /\ \A q \in Periods : a < q /\ q < p => shift[q] = 0
  BY SpanFacts
<1>2. PICK b \in 1 .. LastPeriod : b = (IF IsSettled(p) THEN p ELSE p - 1)
  BY <1>0
<1>3. b \in Periods /\ b \in Int /\ b <= p /\ Span(a, p) = a + 1 .. b
  <2>1. \A q \in a + 1 .. p - 1 : IsSettled(q)
    BY <1>0, <1>1 DEF AllSettledTo
  <2>2. b \in Int /\ b <= p /\ b \in Periods
    BY <1>0, <1>2 DEF Periods
  <2>3. \A q : q \in Span(a, p) <=> q \in a + 1 .. b
    BY <1>0, <1>2, <2>1, <2>2 DEF Span
  <2> QED BY <2>2, <2>3
<1>4. a < b
  <2>1. PICK q \in a + 1 .. b : TRUE
    BY <1>3
  <2> QED BY <1>0, <1>3
<1>5. AllSettledTo(b)
  <2> SUFFICES ASSUME NEW q \in 1 .. b PROVE IsSettled(q)
    BY DEF AllSettledTo
  <2>1. q \in 1 .. p - 1 \/ (q = p /\ IsSettled(p))
    BY <1>0, <1>2
  <2> QED BY <1>1, <2>1 DEF AllSettledTo
<1> DEFINE S == a + 1 .. b
           total == [q \in Periods |-> Total(q)]
           charged == [q \in Periods |-> Charged(q)']
           d == x - SumOver(S, total)
<1>6. Max(S) = b
  <2>1. S \in SUBSET (1 .. LastPeriod) /\ S # {} /\ LastPeriod \in Nat /\ b \in S
    BY <1>0, <1>4
  <2>2. Max(S) \in S /\ \A y \in S : y <= Max(S)
    BY ONLY <2>1, MaxOf
  <2>3. Max(S) <= b /\ b <= Max(S) /\ Max(S) \in Int
    BY <1>3, <2>1, <2>2
  <2> QED BY <1>3, <2>3
<1>7. settled' = settled /\ \A q \in S : settled[q].status = "FINAL"
  BY <1>3 DEF AdjustUsage
<1>8. shift' = [q \in Periods |-> IF q \notin S THEN shift[q] ELSE IF q < b THEN 0 ELSE d]
  BY <1>3, <1>6 DEF AdjustUsage
<1> HIDE DEF d
<1>9. \A q \in Periods : q # b => shift'[q] = shift[q]
  <2> SUFFICES ASSUME NEW q \in Periods, q # b PROVE shift'[q] = shift[q]
    OBVIOUS
  <2>1. CASE q \notin S
    BY <1>8, <2>1
  <2>2. CASE q \in S
    <3>1. q < b /\ a < q /\ q < p
      BY <1>0, <1>3, <2>2
    <3> QED BY <1>1, <1>8, <2>2, <3>1
  <2> QED BY <2>1, <2>2
<1>10. b \in S /\ shift'[b] = d /\ S \in SUBSET Periods
  <2>1. b \in S /\ S \in SUBSET Periods
    BY <1>0, <1>3, <1>4 DEF Periods
  <2> QED BY <1>3, <1>8, <2>1
<1>11. \A q \in Periods : Total(q) \in Int /\ Total(q)' = Total(q)
  BY <1>7, ChargedSum DEF ChargedRule, Total
<1>12. SumOver(S, total) \in Int
  <2>1. \A q \in S : total[q] \in Int /\ total[q] = total[q]
    BY <1>10, <1>11
  <2> HIDE DEF S, total
  <2> QED BY <1>10, <2>1, SumOverEqual
<1>13. SumOver(S, charged) = x
  <2>1. d \in Int /\ d = x - SumOver(S, total)
    BY <1>12 DEF d
  <2>2. \A q \in S : /\ total[q] \in Int
                     /\ charged[q] = IF q = b THEN total[q] + d ELSE total[q]
    <3> SUFFICES ASSUME NEW q \in S
                 PROVE  /\ total[q] \in Int
                        /\ charged[q] = IF q = b THEN total[q] + d ELSE total[q]
      OBVIOUS
    <3>1. q \in Periods /\ total[q] = Total(q) /\ Total(q) \in Int
      BY <1>10, <1>11
    <3>2. charged[q] = Total(q) + shift'[q]
      BY <1>11, <3>1 DEF Charged
    <3>3. q # b => shift'[q] = 0
      <4> SUFFICES ASSUME q # b PROVE shift'[q] = 0
        OBVIOUS
      <4>1. q < b
        BY <1>0, <1>3
      <4> QED BY <1>8, <3>1, <4>1
    <3> HIDE DEF charged, total, S
    <3> QED BY <1>10, <3>1, <3>2, <3>3
  <2> HIDE DEF S, total, charged
  <2>3. SumOver(S, charged) = SumOver(S, total) + d
    <3>1. S \in SUBSET Periods /\ b \in S /\ d \in Int
      BY <1>10, <2>1
    <3>2. \A q \in S : total[q] \in Int /\ charged[q] = IF q = b THEN total[q] + d ELSE total[q]
      BY <2>2
    <3> QED BY ONLY <3>1, <3>2, SumOverBump
  <2> QED BY <1>12, <2>1, <2>3
<1>14. ChargedUpTo(b)' = ChargedUpTo(a)' + SumOver(S, charged)
  <2>1. SpanRule'
    BY SpanSums, PTL
  <2>2. a \in 0 .. LastPeriod /\ b \in a .. LastPeriod
    BY <1>0, <1>3, <1>4
  <2> QED BY <2>1, <2>2 DEF SpanRule, SumOver
<1>15. \A n \in 0 .. a : ChargedUpTo(n)' = ChargedUpTo(n)
  <2> SUFFICES ASSUME NEW n \in 0 .. a PROVE ChargedUpTo(n)' = ChargedUpTo(n)
    OBVIOUS
  <2>1. n \in 0 .. LastPeriod /\ \A q \in 1 .. n : q \in Periods /\ q # b
    BY <1>0, <1>3, <1>4 DEF Periods
  <2>2. \A q \in 1 .. n : Charged(q)' = Charged(q)
    BY <1>9, <1>11, <2>1 DEF Charged
  <2> QED BY <2>1, <2>2, ChargedFrame
<1>16. Past(a) \in Int
  <2>1. Turns(a) \in Int /\ MaxDial \in Int
    BY TurnSum DEF TurnRule
  <2>2. MaxDial * Turns(a) \in Int
    BY <2>1
  <2>3. Behind(a) \in Int
    BY DEF Behind, DialTypes, Dial
  <2> QED BY <2>2, <2>3 DEF Past
<1>17. ChargedUpTo(b)' = Past(b) + reading[p].dial
  <2>1. Past(b) = Past(a)
    BY <1>0, <1>1, <1>3, <1>4, <1>5
  <2>2. ChargedUpTo(a)' = ChargedUpTo(a)
    BY <1>0, <1>15
  <2> HIDE DEF S, charged
  <2> QED BY <1>0, <1>1, <1>13, <1>14, <1>16, <2>1, <2>2
<1>18. \A q \in Periods : a < q /\ q <= b => settled[q].status = "FINAL"
  BY <1>0, <1>3, <1>7 DEF Periods
<1> QED BY <1>2, <1>3, <1>4, <1>5, <1>9, <1>15, <1>17, <1>18

(* A reconciliation that adjusts billed periods keeps the facts.           *)
LEMMA AdjustFacts ==
  ASSUME DialTypes, DialTypes', DialFacts, NEW p \in Periods, NEW a \in Periods, a < p,
         Trusted(p), Trusted(a), \A q \in Periods : a < q /\ q < p => ~ Trusted(q),
         reading[a].meter = reading[p].meter, reading[a].dial <= reading[p].dial,
         Outcome(p) = "NONE", UsedInOrder(a, p), NEW x \in Int,
         x = reading[p].dial - reading[a].dial, Span(a, p) # {},
         AdjustUsage(p, Span(a, p), x), reading' = reading, swap' = swap, draft' = draft
  PROVE  DialFacts'
<1> USE SettlementsAssumption
<1> DEFINE m == reading[p].meter
<1>1. /\ p \in Int /\ 1 <= p /\ p <= LastPeriod /\ swap.period \in 0 .. LastPeriod
      /\ a \in Int /\ 1 <= a /\ m \in Meters /\ reading[p].dial \in Int
  BY DEF Periods, DialTypes, Dial
<1>2. /\ AllSettledTo(p - 1) /\ Level(p)
      /\ \A q \in Periods : q > p => ~ IsSettled(q) /\ Outcome(q) = "NONE"
  BY SpanFacts
<1>3. PICK b \in Periods :
         /\ b = IF IsSettled(p) THEN p ELSE p - 1
         /\ a < b /\ AllSettledTo(b)
         /\ \A q \in Periods : a < q /\ q <= b => settled[q].status = "FINAL"
         /\ \A q \in Periods : q # b => shift'[q] = shift[q]
         /\ \A n \in 0 .. a : ChargedUpTo(n)' = ChargedUpTo(n)
         /\ ChargedUpTo(b)' = Past(b) + reading[p].dial
  BY AdjustSum
<1>4. settled' = settled /\ Record(p, "APPLIED")
  BY DEF AdjustUsage
<1>5. /\ \A q \in Periods : q # p => Outcome(q)' = Outcome(q) /\ recon'[q] = recon[q]
      /\ Outcome(p)' = "APPLIED"
      /\ \A v \in Revisions : v # reading[p].rev => recon'[p][v] = recon[p][v]
  <2>1. "APPLIED" \in Outcomes
    BY DEF Outcomes
  <2> QED BY <1>4, <2>1, Recorded
<1>6. /\ \A q : Trusted(q)' = Trusted(q) /\ Level(q)' = Level(q) /\ MetersIn(q)' = MetersIn(q)
      /\ \A q, n : Removed(q, n)' = Removed(q, n) /\ Turned(q, n)' = Turned(q, n)
      /\ \A q : IsSettled(q)' = IsSettled(q) /\ AllSettledTo(q)' = AllSettledTo(q)
      /\ \A q : Past(q)' = Past(q)
  <2>1. \A q : Turns(q)' = Turns(q)
    BY <1>4 DEF Turns, TurnsIn, Turned
  <2> QED BY <1>4, <2>1
          DEF Trusted, Level, MetersIn, Removed, Turned, IsSettled, AllSettledTo, Past, Behind
<1>7. /\ MetersIn(p) = {m} /\ p # swap.period /\ OnMeter(p) = m
  <2>1. MetersIn(p) = {m} /\ p # swap.period
    BY <1>2, LevelMeter
  <2>2. OnMeter(p) \in MetersIn(p)
    BY <1>1 DEF OnMeter, MetersIn, Meters
  <2> QED BY <2>1, <2>2
<1>8. \A q \in Periods : IsSettled(q) => q <= b
  <2> SUFFICES ASSUME NEW q \in Periods, IsSettled(q), b < q PROVE FALSE
    BY <1>1, <1>3 DEF Periods
  <2>1. q = p \/ q > p
    BY <1>1, <1>3 DEF Periods
  <2>2. q = p
    BY <1>2, <2>1
  <2> QED BY <1>1, <1>3, <2>2
<1>9. SettledInOrder' /\ ReadingsMetered'
  <2>1. SettledInOrder'
    BY <1>6 DEF DialFacts, SettledInOrder
  <2>2. ReadingsMetered'
    BY DEF DialFacts, ReadingsMetered
  <2> QED BY <2>1, <2>2
<1>10. PartsFit'
  <2> SUFFICES ASSUME NEW q \in Periods, NEW n \in Meters, IsSettled(q)'
               PROVE  PartFits(settled[q].part[n], q, n)'
    BY DEF PartsFit
  <2>1. PartFits(settled[q].part[n], q, n)
    BY <1>6 DEF DialFacts, PartsFit
  <2> QED BY <1>4, <2>1 DEF PartFits, MetersIn, Removed, Trusted
<1>11. TurnsSeen'
  BY <1>4, <1>6 DEF DialFacts, TurnsSeen
<1>12. ShiftsApplied'
  <2> SUFFICES ASSUME NEW q \in Periods, shift'[q] # 0
               PROVE  /\ settled'[q].status = "FINAL"
                      /\ \E y \in Periods : /\ y = q \/ y = q + 1
                                            /\ Trusted(y)' /\ Outcome(y)' = "APPLIED"
    BY DEF ShiftsApplied
  <2>1. CASE q = b
    <3>1. settled'[q].status = "FINAL"
      BY <1>1, <1>3, <1>4, <2>1 DEF Periods
    <3>2. p = q \/ p = q + 1
      BY <1>1, <1>3, <2>1 DEF Periods
    <3> QED BY <1>5, <1>6, <3>1, <3>2
  <2>2. CASE q # b
    <3>1. shift[q] # 0
      BY <1>3, <2>2
    <3>2. PICK y \in Periods : (y = q \/ y = q + 1) /\ Trusted(y) /\ Outcome(y) = "APPLIED"
      BY <3>1 DEF DialFacts, ShiftsApplied
    <3>3. y # p
      BY <3>2
    <3>4. settled[q].status = "FINAL"
      BY <3>1 DEF DialFacts, ShiftsApplied
    <3> QED BY <1>4, <1>5, <1>6, <3>2, <3>3, <3>4
  <2> QED BY <2>1, <2>2
<1>13. OutcomesKnown'
  <2> SUFFICES ASSUME NEW q \in Periods
               PROVE  /\ Outcome(q)' \in {"APPLIED", "ABSORBED"} =>
                           Trusted(q)' /\ Level(q)' /\ AllSettledTo(q - 1)'
                      /\ Outcome(q)' = "ABSORBED" =>
                           /\ IsSettled(q)'
                           /\ settled'[q].part[reading'[q].meter].source = "READING"
                      /\ \A v \in Revisions : v > reading'[q].rev => recon'[q][v] = "NONE"
    BY DEF OutcomesKnown
  <2>1. /\ Outcome(q) \in {"APPLIED", "ABSORBED"} =>
             Trusted(q) /\ Level(q) /\ AllSettledTo(q - 1)
        /\ Outcome(q) = "ABSORBED" =>
             /\ IsSettled(q)
             /\ settled[q].part[reading[q].meter].source = "READING"
        /\ \A v \in Revisions : v > reading[q].rev => recon[q][v] = "NONE"
    BY DEF DialFacts, OutcomesKnown
  <2>2. CASE q # p
    BY <1>4, <1>5, <1>6, <2>1, <2>2
  <2>3. CASE q = p
    <3>1. \A v \in Revisions : v > reading[p].rev => recon'[p][v] = "NONE"
      BY <1>5, <2>1, <2>3 DEF DialTypes, Revisions
    <3> QED BY <1>2, <1>5, <1>6, <2>3, <3>1
  <2> QED BY <2>2, <2>3
<1>14. DraftsStart'
  <2> SUFFICES ASSUME NEW q \in Periods, settled[q].status = "DRAFT", q # swap.period,
                      NEW n \in MetersIn(q)
               PROVE  ChargedUpTo(q - 1)' = Past(q - 1)' + settled[q].part[n].prev
    BY <1>4, <1>6 DEF DraftsStart
  <2>1. ChargedUpTo(q - 1) = Past(q - 1) + settled[q].part[n].prev
    BY DEF DialFacts, DraftsStart
  <2>2. IsSettled(q) /\ ~ (settled[q].status = "FINAL")
    BY DEF IsSettled
  <2>3. q <= a
    BY <1>1, <1>3, <1>8, <2>2 DEF Periods
  <2>4. q - 1 \in 0 .. a
    BY <1>1, <2>3 DEF Periods
  <2> QED BY <1>3, <1>6, <2>1, <2>4
<1>15. KnownCharged'
  <2> SUFFICES ASSUME NEW q \in Periods, Known(q)'
               PROVE  ChargedUpTo(q)' = Past(q)' + reading[q].dial
    BY DEF KnownCharged
  <2>1. IsSettled(q) /\ Trusted(q)
    BY <1>6 DEF Known
  <2>2. CASE q = p
    BY <1>3, <1>6, <2>1, <2>2
  <2>3. CASE q # p
    <3>1. Known(q)
      BY <1>4, <1>5, <1>6, <2>3 DEF Known
    <3>2. q < p
      BY <1>1, <1>2, <2>1, <2>3 DEF Periods
    <3>3. q <= a
      BY <1>1, <2>1, <3>2 DEF Periods
    <3>4. q \in 0 .. a
      BY <1>1, <3>3 DEF Periods
    <3> QED BY <1>3, <1>6, <3>1, <3>4 DEF DialFacts, KnownCharged
  <2> QED BY <2>2, <2>3
<1>16. NextStarts'
  <2> SUFFICES ASSUME NEW q \in Periods, ~ IsSettled(q), AllSettledTo(q - 1)
               PROVE  ChargedUpTo(q - 1)' = Past(q - 1)' + StartIn(q, 1)' + StartIn(q, 2)'
    BY <1>6 DEF NextStarts
  <2>1. q = b + 1 /\ q - 1 = b
    <3>1. q > b
      <4> SUFFICES ASSUME q <= b PROVE FALSE
        BY <1>3 DEF Periods
      <4>1. q \in 1 .. b
        BY DEF Periods
      <4> QED BY <1>3, <4>1 DEF AllSettledTo
    <3>2. q <= b + 1
      <4> SUFFICES ASSUME q > b + 1 PROVE FALSE
        BY <1>3 DEF Periods
      <4>1. b + 1 \in 1 .. q - 1 /\ b + 1 \in Periods /\ ~ (b + 1 <= b)
        BY <1>3 DEF Periods
      <4>2. IsSettled(b + 1)
        BY <4>1 DEF AllSettledTo
      <4> QED BY <1>8, <4>1, <4>2
    <3> QED BY <1>3, <3>1, <3>2 DEF Periods
  <2>2. StartIn(q, 1)' \in Int /\ StartIn(q, 2)' \in Int
        /\ StartIn(q, 1)' + StartIn(q, 2)' = reading[p].dial
    <3>1. CASE IsSettled(p)
      <4>1. b = p /\ q = p + 1 /\ AllSettledTo(p)' /\ p + 1 \in Periods
        BY <1>3, <1>6, <2>1, <3>1
      <4>2. NextRule'
        BY <1>10, <1>13, NextFollows, PTL
      <4>3. Outcome(p + 1)' # "APPLIED"
        BY <1>1, <1>2, <1>5, <4>1
      <4>4. Applied(p, OnMeter(p))'
        <5>1. reading'[p].meter = OnMeter(p)'
          BY <1>7 DEF OnMeter
        <5> QED BY <1>5, <1>6, <5>1 DEF Applied
      <4> QED BY <4>1, <4>2, <4>3, <4>4 DEF NextRule
    <3>2. CASE ~ IsSettled(p)
      <4>1. q = p
        BY <1>1, <1>3, <2>1, <3>2
      <4>2. StartRule'
        BY <1>10, <1>13, StartShapes, PTL
      <4>3. m \in MetersIn(p)' /\ AllSettledTo(p - 1)'
        BY <1>2, <1>6, <1>7
      <4>4. PICK n \in Meters : n = m
        BY <1>1
      <4>5. StartShape(p, n)'
        BY <4>2, <4>3, <4>4 DEF StartRule
      <4>6. Applied(p, n)'
        BY <1>5, <1>6, <4>4 DEF Applied
      <4>7. StartOf(p, n).dial' = reading[p].dial
        BY <4>5, <4>6 DEF StartShape
      <4>8. StartIn(p, n)' = reading[p].dial /\ \A y \in Meters : y # n => StartIn(p, y)' = 0
        BY <1>6, <1>7, <4>4, <4>7 DEF StartIn
      <4>9. CASE n = 1
        BY <1>1, <4>1, <4>8, <4>9 DEF Meters
      <4>10. CASE n = 2
        BY <1>1, <4>1, <4>8, <4>10 DEF Meters
      <4> QED BY <4>9, <4>10 DEF Meters
    <3> QED BY <3>1, <3>2
  <2>3. Past(b) \in Int
    <3>1. Turns(b) \in Int /\ MaxDial \in Int
      BY TurnSum DEF TurnRule
    <3>2. MaxDial * Turns(b) \in Int
      BY <3>1
    <3>3. Behind(b) \in Int
      BY DEF Behind, DialTypes, Dial
    <3> QED BY <3>2, <3>3 DEF Past
  <2> HIDE DEF m
  <2> QED BY <1>1, <1>3, <1>6, <2>1, <2>2, <2>3
<1>17. DraftsFit'
  <2> SUFFICES ASSUME NEW c \in Clerks, draft[c].at = "write"
               PROVE  WorkFits(c)'
    BY DEF DraftsFit, WorkFits
  <2>1. draft[c] # NoDraft
    BY WorkKinds
  <2>2. draft[c] \in Written
    BY WorkKinds
  <2>3. PICK q \in Periods, y \in [Meters -> PartSet] : q = draft[c].period /\ y = draft[c].part
    BY <2>2 DEF Written
  <2>4. /\ \A n \in Meters : PartFits(y[n], q, n) /\ Measured(y[n])
        /\ Outcome(q) = "APPLIED" /\ ~ IsSettled(q) => y[reading[q].meter].source = "READING"
    BY <2>3 DEF DialFacts, DraftsFit, WorkFits
  <2>5. ASSUME NEW n \in Meters
        PROVE  PartFits(draft[c].part[n], draft[c].period, n)' /\ Measured(draft[c].part[n])'
    <3>1. PartFits(draft[c].part[n], draft[c].period, n)'
      BY <2>3, <2>4 DEF PartFits, MetersIn, Removed, Trusted
    <3>2. Measured(draft[c].part[n])'
      BY <2>3, <2>4 DEF Measured, DialUsage
    <3> QED BY <3>1, <3>2
  <2>6. ASSUME Outcome(draft[c].period)' = "APPLIED", ~ IsSettled(draft[c].period)'
        PROVE  draft'[c].part[reading'[draft'[c].period].meter].source = "READING"
    <3>1. Outcome(q)' = "APPLIED" /\ ~ IsSettled(q)
      BY <1>4, <2>3, <2>6 DEF IsSettled, Outcome
    <3>2. q # p
      BY <2>1, <2>3, <3>1 DEF UsedInOrder
    <3>3. Outcome(q) = "APPLIED"
      BY <1>5, <3>1, <3>2
    <3> QED BY <2>3, <2>4, <3>1, <3>3
  <2> QED BY <2>5, <2>6 DEF WorkFits
<1> QED BY <1>9, <1>10, <1>11, <1>12, <1>13, <1>14, <1>15, <1>16, <1>17 DEF DialFacts

(* ReconcileUsage keeps the facts, whichever way it ends.                  *)
LEMMA ReconcileFacts ==
  ASSUME DialTypes, DialTypes', DialFacts, NEW p \in Periods, ReconcileUsage(p), orderly'
  PROVE  DialFacts'
<1> USE SettlementsAssumption
<1>1. PICK a \in Periods :
         a = Max(Anchors(p)) /\ a < p /\ Trusted(a)
         /\ \A q \in Periods : a < q /\ q < p => ~ Trusted(q)
  <2>1. /\ Anchors(p) \in SUBSET (1 .. LastPeriod) /\ LastPeriod \in Nat /\ Anchors(p) # {}
        /\ p \in Int /\ p <= LastPeriod
    BY DEF Anchors, Periods, ReconcileUsage
  <2>2. Max(Anchors(p)) \in Anchors(p) /\ \A y \in Anchors(p) : y <= Max(Anchors(p))
    BY ONLY <2>1, MaxOf
  <2>3. PICK a \in Periods : a = Max(Anchors(p))
    BY <2>1, <2>2 DEF Periods
  <2>4. a < p /\ Trusted(a)
    BY <2>1, <2>2, <2>3 DEF Anchors
  <2>5. ASSUME NEW q \in Periods, a < q, q < p PROVE ~ Trusted(q)
    <3> SUFFICES ASSUME Trusted(q) PROVE FALSE
      OBVIOUS
    <3>1. q \in Anchors(p)
      BY <2>1, <2>5 DEF Anchors, Periods
    <3>2. q <= a
      BY <2>2, <2>3, <3>1
    <3> QED BY <2>5, <3>2 DEF Periods
  <2> QED BY <2>3, <2>4, <2>5
<1> DEFINE actual == reading[p].dial - reading[a].dial
           remainder == actual - SettledUsage(Span(a, p))
<1>2. /\ reading' = reading /\ swap' = swap /\ draft' = draft
      /\ Trusted(p) /\ recon[p][reading[p].rev] = "NONE" /\ Outcome(p) = "NONE"
      /\ Span(a, p) # {}
      /\ IF reading[a].meter # reading[p].meter \/ actual < 0 THEN Park(p)
         ELSE IF Absorbable(p, Span(a, p), remainder) THEN Absorb(p, remainder)
         ELSE AdjustUsage(p, Span(a, p), actual)
  BY <1>1 DEF ReconcileUsage, UnchangedFacts, Outcome
<1>3. actual \in Int /\ reading[p].dial \in Int /\ reading[a].dial \in Int
  BY DEF DialTypes, Dial
<1>4. remainder \in Int
  <2> DEFINE T == {q \in Span(a, p) : settled[q].status = "FINAL"}
             total == [q \in Periods |-> Total(q)]
  <2>1. T \in SUBSET Periods
    BY DEF Span, Periods
  <2>2. \A q \in T : total[q] \in Int /\ total[q] = total[q]
    BY <2>1, ChargedSum DEF ChargedRule
  <2>3. SettledUsage(Span(a, p)) = SumOver(T, total)
    BY DEF SettledUsage
  <2> HIDE DEF T, total, actual
  <2>4. SumOver(T, total) \in Int
    BY <2>1, <2>2, SumOverEqual
  <2> QED BY <1>3, <2>3, <2>4
<1>5. CASE Park(p)
  <2>1. Record(p, "MANUAL_REVIEW") /\ UNCHANGED <<reading, swap, settled, shift, draft>>
    BY <1>2, <1>5 DEF Park
  <2> QED BY <1>2, <2>1, ParkFacts
<1>6. CASE ~ Park(p)
  <2>1. /\ reading[a].meter = reading[p].meter /\ ~ (actual < 0)
        /\ \/ Absorbable(p, Span(a, p), remainder) /\ Absorb(p, remainder)
           \/ AdjustUsage(p, Span(a, p), actual)
    BY <1>2, <1>6
  <2>2. UsedInOrder(a, p)
    <3>1. CASE Absorb(p, remainder)
      BY <1>1, <1>6, <3>1 DEF Absorb
    <3>2. CASE AdjustUsage(p, Span(a, p), actual)
      BY <1>1, <3>2 DEF AdjustUsage
    <3> QED BY <2>1, <3>1, <3>2
  <2>3. reading[a].dial <= reading[p].dial
    BY <1>3, <2>1
  <2>4. PICK x \in Int : x = remainder
    BY <1>4
  <2>5. PICK y \in Int : y = actual
    BY <1>3
  <2>6. CASE Absorbable(p, Span(a, p), remainder) /\ Absorb(p, remainder)
    <3>1. /\ Absorbable(p, Span(a, p), x) /\ Absorb(p, x)
          /\ x = reading[p].dial - reading[a].dial - SettledUsage(Span(a, p))
      BY <2>4, <2>6
    <3> HIDE DEF actual, remainder
    <3> QED BY <1>1, <1>2, <1>6, <2>1, <2>2, <2>3, <3>1, AbsorbFacts
  <2>7. CASE AdjustUsage(p, Span(a, p), actual)
    <3>1. /\ AdjustUsage(p, Span(a, p), y)
          /\ y = reading[p].dial - reading[a].dial
      BY <2>5, <2>7
    <3> HIDE DEF actual, remainder
    <3> QED BY <1>1, <1>2, <2>1, <2>2, <2>3, <3>1, AdjustFacts
  <2> QED BY <2>1, <2>6, <2>7
<1> QED BY <1>5, <1>6

(* The insert that the unique index refuses.                               *)
LEMMA TakenFacts ==
  ASSUME DialTypes, DialFacts, NEW k \in Clerks, WriteSettlement(k), ~ NotTaken(k)
  PROVE  DialFacts'
<1>1. /\ UNCHANGED <<reading, swap, settled, shift, recon>>
      /\ draft'[k] = NoDraft /\ \A c \in Clerks : c # k => draft'[c] = draft[c]
  BY DEF WriteSettlement, Keep, UnchangedFacts, DialTypes
<1>2. ASSUME NEW c \in Clerks PROVE WorkFits(c)'
  <2>1. CASE c = k
    BY <1>1, <2>1 DEF WorkFits, NoDraft
  <2>2. CASE c # k
    <3>1. draft'[c] = draft[c]
      BY <1>1, <2>2
    <3> QED BY <1>1, <3>1, QuietFrame
  <2> QED BY <2>1, <2>2
<1>3. DraftsFit'
  BY <1>2 DEF DraftsFit
<1> QED BY <1>1, <1>3, QuietFrame DEF DialFacts

(* The facts hold of an account nothing was read on.                       *)
LEMMA DialFactsInit == DialInit => DialFacts
<1> SUFFICES ASSUME DialInit PROVE DialFacts
  OBVIOUS
<1> USE SettlementsAssumption
<1>0. DialTypes
  BY DialTypesInit
<1>1. /\ \A q \in Periods : /\ ~ IsSettled(q) /\ settled[q].status = "NONE" /\ shift[q] = 0
                            /\ reading[q].qc = "NONE" /\ ~ Trusted(q) /\ reading[q].rev = 0
                            /\ \A v \in Revisions : recon[q][v] = "NONE"
      /\ \A k \in Clerks : draft[k] = NoDraft
      /\ swap.period = 0
  BY DEF DialInit, NoSettlement, NoReading, IsSettled, Trusted
<1>2. \A q \in Periods : Outcome(q) = "NONE"
  <2>1. 0 \in Revisions
    BY DEF Revisions
  <2> QED BY <1>1, <2>1 DEF Outcome
<1>3. SettledInOrder /\ ReadingsMetered /\ PartsFit /\ TurnsSeen /\ ShiftsApplied
  BY <1>1 DEF SettledInOrder, ReadingsMetered, PartsFit, TurnsSeen, ShiftsApplied
<1>4. OutcomesKnown
  BY <1>1, <1>2 DEF OutcomesKnown
<1>5. DraftsStart /\ KnownCharged
  BY <1>1 DEF DraftsStart, KnownCharged, Known
<1>6. DraftsFit
  BY <1>1 DEF DraftsFit, WorkFits, NoDraft
<1>7. NextStarts
  <2> SUFFICES ASSUME NEW p \in Periods, AllSettledTo(p - 1)
               PROVE  ChargedUpTo(p - 1) = Past(p - 1) + StartIn(p, 1) + StartIn(p, 2)
    BY DEF NextStarts
  <2>1. p = 1
    <3> SUFFICES ASSUME p # 1 PROVE FALSE
      OBVIOUS
    <3>1. 1 \in 1 .. p - 1 /\ 1 \in Periods
      BY DEF Periods
    <3> QED BY <1>1, <3>1 DEF AllSettledTo
  <2>2. ASSUME NEW m \in Meters PROVE StartIn(1, m) = 0
    <3>1. PartsBefore(1, m) = {}
      BY DEF PartsBefore
    <3>2. Reconciled(1, m) = {}
      BY <1>1, <2>1 DEF Reconciled
    <3>3. StartOf(1, m) = Initial
      BY <3>1, <3>2 DEF StartOf, LastPart
    <3> QED BY <3>3 DEF StartIn, Initial
  <2>3. StartIn(1, 1) = 0 /\ StartIn(1, 2) = 0
    BY <2>2 DEF Meters
  <2>4. ChargedUpTo(0) = 0 /\ Turns(0) = 0
    BY <1>0, ChargedSum, TurnSum DEF ChargedRule, TurnRule
  <2>5. Past(0) = 0
    BY <1>1, <2>4 DEF Past, Behind
  <2> QED BY <2>1, <2>3, <2>4, <2>5
<1> QED BY <1>3, <1>4, <1>5, <1>6, <1>7 DEF DialFacts

(* The invariant is inductive: one case for each operation.                *)
LEMMA DialStep ==
  ASSUME DialInv, [DialNext]_dialVars
  PROVE  DialInv'
<1>1. DialTypes /\ DialTypes'
  BY DialTypesStep DEF DialInv
<1> SUFFICES ASSUME orderly' PROVE DialFacts'
  BY <1>1 DEF DialInv
<1>2. DialAct \/ UNCHANGED dialVars
  BY <1>1, DialActs
<1>3. ASSUME NEW k \in Clerks, NEW p \in Periods, StartGenerate(k, p) PROVE DialFacts'
  <2>1. DialFacts
    BY <1>3 DEF StartGenerate, DialInv
  <2> QED BY <1>1, <1>3, <2>1, GenerateFacts
<1>4. ASSUME NEW k \in Clerks, Recheck(k) PROVE DialFacts'
  <2>1. DialFacts
    BY <1>4 DEF Recheck, DialInv
  <2> QED BY <1>1, <1>4, <2>1, GenerateFacts
<1>5. ASSUME NEW k \in Clerks, WriteSettlement(k) PROVE DialFacts'
  <2>1. DialFacts
    BY <1>5 DEF WriteSettlement, DialInv
  <2> QED BY <1>1, <1>5, <2>1, WriteFacts, TakenFacts
<1>6. ASSUME NEW p \in Periods, Finalize(p) PROVE DialFacts'
  <2>1. DialFacts
    BY <1>6 DEF Finalize, DialInv
  <2> QED BY <1>1, <1>6, <2>1, FinalizeFacts
<1>7. ASSUME NEW p \in Periods, BillPeriod(p) PROVE DialFacts'
  <2>1. DialFacts /\ UNCHANGED <<reading, swap, settled, shift, recon, draft>>
    BY <1>7 DEF BillPeriod, DialInv, UnchangedFacts
  <2> QED BY <1>1, <2>1, QuietFacts
<1>8. ASSUME NEW p \in Periods, ReconcileUsage(p) PROVE DialFacts'
  <2>1. orderly
    BY <1>8 DEF ReconcileUsage, Park, Absorb, AdjustUsage
  <2>2. DialFacts
    BY <2>1 DEF DialInv
  <2> QED BY <1>1, <1>8, <2>2, ReconcileFacts
<1>9. ASSUME NEW p \in Periods, NEW d \in Dial, Enter(p, d) PROVE DialFacts'
  <2>1. DialFacts
    BY <1>9 DEF Enter, DialInv
  <2> QED BY <1>1, <1>9, <2>1, EnterFacts
<1>10. ASSUME NEW p \in Periods, NEW d \in Dial, Correct(p, d) PROVE DialFacts'
  <2>1. DialFacts
    BY <1>10 DEF Correct, DialInv
  <2> QED BY <1>1, <1>10, <2>1, CorrectFacts
<1>11. ASSUME NEW p \in Periods, NEW d \in Dial, ExchangeMeter(p, d) PROVE DialFacts'
  <2>1. DialFacts
    BY <1>11 DEF ExchangeMeter, DialInv
  <2> QED BY <1>1, <1>11, <2>1, ExchangeFacts
<1>12. ASSUME NEW p \in Periods, NEW v \in {"PASSED", "REJECTED"}, Check(p, v) PROVE DialFacts'
  <2>1. DialFacts
    BY <1>12 DEF Check, DialInv
  <2> QED BY <1>1, <1>12, <2>1, CheckFacts
<1>13. CASE CloseTask
  <2>1. DialFacts /\ UNCHANGED <<reading, swap, settled, shift, recon, draft>>
    BY <1>13 DEF CloseTask, DialInv, UnchangedFacts, UnchangedMoney
  <2> QED BY <1>1, <2>1, QuietFacts
<1>14. CASE UNCHANGED dialVars
  <2>1. DialFacts /\ UNCHANGED <<reading, swap, settled, shift, recon, draft>>
    BY <1>14 DEF dialVars, DialInv
  <2> QED BY <1>1, <2>1, QuietFacts
<1> QED BY <1>2, <1>3, <1>4, <1>5, <1>6, <1>7, <1>8, <1>9, <1>10, <1>11, <1>12, <1>13, <1>14
        DEF DialAct

(* A period whose meters were all read ends on a known reading.            *)
LEMMA DialCharged == DialInv => WaterChargedOnce
<1> SUFFICES ASSUME DialInv, NEW p \in Periods, orderly, IsSettled(p), ReadAt(p)
             PROVE  ChargedUpTo(p) = Metered(p) + MaxDial * Turns(p)
  BY DEF WaterChargedOnce
<1> USE SettlementsAssumption
<1>1. DialTypes /\ DialFacts
  BY DEF DialInv
<1> DEFINE m == OnMeter(p)
           z == settled[p].part[m]
<1>2. m \in Meters /\ m \in MetersIn(p) /\ ~ Removed(p, m)
  BY <1>1 DEF OnMeter, MetersIn, Removed, Meters, Periods, DialTypes
<1>3. z.source = "READING" /\ PartFits(z, p, m)
  BY <1>1, <1>2 DEF ReadAt, DialFacts, PartsFit
<1>4. Trusted(p) /\ reading[p].meter = m /\ z.end = reading[p].dial
  BY <1>2, <1>3 DEF PartFits
<1>5. ChargedUpTo(p) = Past(p) + reading[p].dial
  BY <1>1, <1>2, <1>3, <1>4 DEF DialFacts, KnownCharged, Known
<1>6. Metered(p) = Behind(p) + z.end
  <2>1. z.end \in Int
    BY <1>1, <1>4 DEF DialTypes, Dial
  <2>2. CASE m = 1
    <3>1. 2 \notin MetersIn(p) /\ Behind(p) = 0
      BY <1>1, <2>2 DEF OnMeter, MetersIn, Behind, Periods, DialTypes
    <3>2. Metered(p) = z.end
      BY <2>2, <3>1 DEF Metered
    <3> HIDE DEF z, m
    <3> QED BY <2>1, <3>1, <3>2
  <2>3. CASE m = 2
    <3>1. Behind(p) = swap.final
      BY <1>1, <2>3 DEF OnMeter, Behind, Periods, DialTypes
    <3> QED BY <1>2, <2>3, <3>1 DEF Metered
  <2> QED BY <1>2, <2>2, <2>3 DEF Meters
<1> HIDE DEF z, m
<1>7. PICK turned \in Int : turned = MaxDial * Turns(p)
  <2>1. Turns(p) \in Int /\ MaxDial \in Int
    BY <1>1, TurnSum DEF TurnRule
  <2>2. MaxDial * Turns(p) \in Int
    BY <2>1
  <2> QED BY <2>2
<1>8. Behind(p) \in Int /\ z.end \in Int
  BY <1>1, <1>4 DEF Behind, DialTypes, Dial
<1>9. ChargedUpTo(p) = Behind(p) + turned + z.end
  BY <1>4, <1>5, <1>7 DEF Past
<1>10. ChargedUpTo(p) = Behind(p) + z.end + turned
  BY <1>7, <1>8, <1>9
<1> QED BY <1>6, <1>7, <1>10

(***************************************************************************)
(* Water is charged once and all of it is. Whatever SettlementService      *)
(* estimated, ReconciliationService absorbed or adjusted, and              *)
(* MeterReadingService checked and corrected on the way: as long as the    *)
(* facts are used in the order of the periods, the usage charged up to a   *)
(* period that ends on a dial reading is what the dials show.              *)
(***************************************************************************)
THEOREM WaterOnce == DialSpec => []WaterChargedOnce
<1>1. DialInit => DialInv
  BY DialTypesInit, DialFactsInit DEF DialInv
<1>2. DialInv /\ [DialNext]_dialVars => DialInv'
  BY DialStep
<1> QED BY <1>1, <1>2, DialCharged, PTL DEF DialSpec
==============================================================================
