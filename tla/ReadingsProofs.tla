--------------------------- MODULE ReadingsProofs ---------------------------
(***************************************************************************)
(* Theorems about what leads to a reading, and about its price.            *)
(*                                                                         *)
(* RemotePipeline: one event yields at most one reading, and the readings  *)
(* of an item form one chain that the item points at, for any messages,    *)
(* workers and items.  The first rests on the lock of the event row: a key *)
(* has one worker, and while it works the event is not CONVERTED.  The     *)
(* second on the lock of the item, under which every writer looks at its   *)
(* head before it writes.                                                  *)
(*                                                                         *)
(* ReadingPlans: books, members, plans and entries, for any number of      *)
(* requests under way.                                                     *)
(*                                                                         *)
(* TariffBook: versions of a tariff and the bills that quote them.         *)
(*                                                                         *)
(* MCReadings: the types of these parts and of the ladder (LadderProofs),  *)
(* side by side as its run explores them.                                  *)
(***************************************************************************)
EXTENDS MCReadings, LadderProofs, FiniteSetTheorems

EventStatuses == {"NONE", "CONFLICT"} \cup Replayable \cup Terminal
EventRows == [status : EventStatuses, body : {m.body : m \in Messages} \cup {0},
              at : Instants, via : BindingIds \cup {0}]
ReadingRows == [item : Items \cup {0}, inst : Installations,
                qc : {"NONE", "PENDING", "PASSED", "REJECTED"},
                source : Keys \cup {"manual", "nobody"}, of : 0 .. MaxReadings]
Spots == [status : Open \cup {"NONE", "READ"}, planned : Installations,
          done : 0 .. MaxReadings]
PipelineTypes ==
    /\ event \in [Keys -> EventRows]
    /\ spot \in [Items -> Spots]
    /\ reads \in [ReadingIds -> ReadingRows]
    /\ removed \in Instants \cup {Forever}
    /\ binding \in [BindingIds -> [inst : Installations \cup {0},
                                   from : Instants \cup {Forever, 0},
                                   to : Instants \cup {Forever, 0}]]
    /\ DOMAIN work = Workers

(* Readings have the first ids, and a correction is of an earlier reading  *)
(* of the same item.                                                       *)
ReadingsInOrder ==
    /\ \E n \in 0 .. MaxReadings : \A x \in ReadingIds : reads[x].qc # "NONE" <=> x <= n
    /\ \A x \in ReadingIds : reads[x].of < x
    /\ \A x \in Rows : /\ reads[x].item \in Items
                       /\ reads[x].of # 0 => reads[reads[x].of].item = reads[x].item

Working(w) == work[w].at = "judge"
WorkInv ==
    /\ \A w \in Workers : work[w] = Resting \/
          /\ Working(w) /\ work[w].key \in Keys /\ work[w].item \in Items
          /\ work[w].row \in EventRows /\ work[w].via \in BindingIds
          /\ work[w].inst \in Installations
          /\ event[work[w].key].status # "CONVERTED"
    /\ \A v, w \in Workers : Working(v) /\ Working(w) /\ work[v].key = work[w].key => v = w

FromEvent(k) == {x \in Rows : reads[x].source = k}
OnceEach == \A k \in Keys :
    IF event[k].status = "CONVERTED" THEN \E x \in ReadingIds : FromEvent(k) = {x}
    ELSE FromEvent(k) = {}

Chain(i) == {x \in Rows : reads[x].item = i}
Linked(i) ==
    /\ spot[i].status = "READ" <=> Chain(i) # {}
    /\ spot[i].done # 0 => Chain(i) # {}
    /\ Chain(i) # {} => spot[i].done \in Chain(i)
    /\ \A x \in Chain(i) : Superseded(x) <=> x # spot[i].done
    /\ \A x, y \in Chain(i) : reads[x].of = 0 /\ reads[y].of = 0 => x = y
AllLinked == \A i \in Items : Linked(i)

PipelineInv == PipelineTypes /\ ReadingsInOrder /\ WorkInv /\ OnceEach /\ AllLinked

LEMMA NextReading ==
    ASSUME PipelineTypes, ReadingsInOrder
    PROVE  /\ NextRow \in Nat \ {0}
           /\ \A x \in ReadingIds : reads[x].qc # "NONE" <=> x < NextRow
<1>1. PICK n \in 0 .. MaxReadings :
          \A x \in ReadingIds : reads[x].qc # "NONE" <=> x <= n
  BY DEF ReadingsInOrder
<1>2. Rows = 1 .. n
  BY <1>1, RemoteAssumption DEF Rows, ReadingIds
<1>3. Cardinality(1 .. n) = n
  <2>1. 1 \in Int /\ n \in Int /\ n \in Nat
    BY RemoteAssumption
  <2> QED
    BY <2>1, FS_Interval, SMT
<1>4. NextRow = n + 1
  BY <1>2, <1>3 DEF NextRow
<1> QED
  BY <1>1, <1>4, RemoteAssumption DEF ReadingIds

(* A new reading goes to the end of the chain of its item.                 *)
LEMMA RowAppended ==
    ASSUME PipelineTypes, ReadingsInOrder, AllLinked,
           NEW i \in Items, NEW row \in ReadingRows,
           row.qc # "NONE", row.item = i,
           row.of = IF spot[i].status = "READ" THEN spot[i].done ELSE 0,
           NextRow <= MaxReadings, NewRow(row, i)
    PROVE  /\ reads' \in [ReadingIds -> ReadingRows] /\ spot' \in [Items -> Spots]
           /\ ReadingsInOrder' /\ AllLinked'
           /\ \A k \in Keys : FromEvent(k)' = FromEvent(k) \cup
                                 (IF row.source = k THEN {NextRow} ELSE {})
<1>1. PICK n \in ReadingIds : n = NextRow
  BY NextReading, RemoteAssumption DEF ReadingIds
<1>2. n \in Nat \ {0} /\ n <= MaxReadings /\ MaxReadings \in Nat
      /\ \A x \in ReadingIds : reads[x].qc # "NONE" <=> x < n
  BY <1>1, NextReading, RemoteAssumption DEF ReadingIds
<1>3. /\ reads' = [reads EXCEPT ![n] = row]
      /\ spot' = [spot EXCEPT ![i].status = "READ", ![i].done = n]
  BY <1>1 DEF NewRow
<1>4. /\ reads' \in [ReadingIds -> ReadingRows] /\ reads'[n] = row
      /\ \A x \in ReadingIds \ {n} : reads'[x] = reads[x]
  BY <1>3 DEF PipelineTypes
<1>5. /\ spot' \in [Items -> Spots] /\ spot'[i].status = "READ" /\ spot'[i].done = n
      /\ \A j \in Items \ {i} : spot'[j] = spot[j]
  <2>1. spot[i] \in Spots /\ "READ" \in Open \cup {"NONE", "READ"} /\ n \in 0 .. MaxReadings
    BY <1>2 DEF PipelineTypes
  <2>2. [spot[i] EXCEPT !.status = "READ", !.done = n] \in Spots
    BY <2>1 DEF Spots
  <2>3. spot' = [spot EXCEPT ![i] = [spot[i] EXCEPT !.status = "READ", !.done = n]]
    BY <1>3 DEF PipelineTypes
  <2>4. spot'[i] = [spot[i] EXCEPT !.status = "READ", !.done = n]
    BY <2>3 DEF PipelineTypes
  <2>5. spot'[i].status = "READ" /\ spot'[i].done = n
    BY <2>1, <2>4 DEF Spots
  <2> QED
    BY <2>2, <2>3, <2>5 DEF PipelineTypes
<1>6. Rows' = Rows \cup {n} /\ n \notin Rows /\ Rows \subseteq ReadingIds
  <2>1. ASSUME NEW x \in ReadingIds
        PROVE  reads'[x].qc # "NONE" <=> reads[x].qc # "NONE" \/ x = n
    BY <1>2, <1>4
  <2>2. ~ (reads[n].qc # "NONE")
    BY <1>1, <1>2
  <2> QED
    BY <1>1, <2>1, <2>2 DEF Rows
<1>7. /\ Chain(i)' = Chain(i) \cup {n}
      /\ \A j \in Items \ {i} : Chain(j)' = Chain(j)
      /\ n \notin Chain(i)
  <2>1. \A x \in Rows : reads'[x] = reads[x]
    BY <1>4, <1>6
  <2> QED
    BY <1>4, <1>6, <2>1 DEF Chain
<1>8. /\ row.of = 0 <=> Chain(i) = {}
      /\ row.of # 0 => row.of \in Chain(i) /\ row.of = spot[i].done
      /\ row.of < n
  <2>1. spot[i].status = "READ" <=> Chain(i) # {}
    BY DEF AllLinked, Linked
  <2>2. Chain(i) # {} => spot[i].done \in Chain(i)
    BY DEF AllLinked, Linked
  <2>3. Chain(i) \subseteq ReadingIds /\ \A x \in Chain(i) : x # 0 /\ x < n
    BY <1>2 DEF Chain, Rows, ReadingIds
  <2> QED
    BY <1>2, <2>1, <2>2, <2>3
<1>9. \A x \in ReadingIds : Superseded(x)' <=> Superseded(x) \/ x = row.of
  BY <1>4, <1>6 DEF Superseded
<1>10. ReadingsInOrder'
  <2>1. \A x \in ReadingIds : reads'[x].qc # "NONE" <=> x <= n
    BY <1>2, <1>4 DEF ReadingIds
  <2>2. \A x \in ReadingIds : reads'[x].of < x
    BY <1>4, <1>8 DEF ReadingsInOrder
  <2>3. ASSUME NEW x \in Rows'
        PROVE  /\ reads'[x].item \in Items
               /\ reads'[x].of # 0 => reads'[reads'[x].of].item = reads'[x].item
    <3>1. CASE x = n
      <4>1. row.of # 0 => row.of # n /\ row.of \in ReadingIds /\ reads[row.of].item = i
        BY <1>6, <1>7, <1>8 DEF Chain
      <4> QED
        BY <3>1, <4>1, <1>4
    <3>2. CASE x # n
      <4>1. x \in Rows /\ reads'[x] = reads[x] /\ x < n
        BY <3>2, <1>2, <1>4, <1>6 DEF Rows
      <4>2. reads[x].of < x /\ reads[x].of \in 0 .. MaxReadings
        BY <4>1, <1>6 DEF ReadingsInOrder, PipelineTypes, ReadingRows
      <4>3. reads[x].of # 0 => reads[x].of \in ReadingIds \ {n}
        BY <4>1, <4>2, <1>2, <1>6 DEF ReadingIds
      <4> QED
        BY <4>1, <4>3, <1>4 DEF ReadingsInOrder
    <3> QED
      BY <3>1, <3>2
  <2>4. n \in 0 .. MaxReadings
    BY <1>2
  <2> QED
    BY <2>1, <2>2, <2>3, <2>4 DEF ReadingsInOrder
<1>11. Linked(i)'
  <2>1. ASSUME NEW x \in Chain(i)' PROVE Superseded(x)' <=> x # n
    <3>1. CASE x = n
      <4>1. ~ Superseded(n)
        <5>1. \A y \in Rows : reads[y].of < y /\ y < n /\ y \in Nat /\ reads[y].of \in Nat
          BY <1>2, <1>6 DEF ReadingsInOrder, Rows, PipelineTypes, ReadingRows, ReadingIds
        <5> QED
          BY <5>1, <1>2 DEF Superseded
      <4> QED
        BY <3>1, <4>1, <1>2, <1>8, <1>9
    <3>2. CASE x # n
      <4>1. x \in Chain(i) /\ x \in ReadingIds
        BY <3>2, <1>7 DEF Chain, Rows
      <4>2. Superseded(x) <=> x # spot[i].done
        BY <4>1 DEF AllLinked, Linked
      <4> QED
        BY <3>2, <4>1, <4>2, <1>8, <1>9
    <3> QED
      BY <3>1, <3>2
  <2>2. ASSUME NEW x \in Chain(i)', NEW y \in Chain(i)', reads'[x].of = 0, reads'[y].of = 0
        PROVE  x = y
    <3>1. CASE x = n \/ y = n
      BY <2>2, <3>1, <1>4, <1>7, <1>8
    <3>2. CASE x # n /\ y # n
      <4>1. x \in Chain(i) /\ y \in Chain(i) /\ reads[x].of = 0 /\ reads[y].of = 0
        BY <2>2, <3>2, <1>4, <1>7 DEF Chain, Rows
      <4> QED
        BY <4>1 DEF AllLinked, Linked
    <3> QED
      BY <3>1, <3>2
  <2> QED
    BY <2>1, <2>2, <1>5, <1>7 DEF Linked
<1>12. ASSUME NEW j \in Items, j # i PROVE Linked(j)'
  <2>1. Chain(j)' = Chain(j) /\ spot'[j] = spot[j]
    BY <1>5, <1>7, <1>12
  <2>2. ASSUME NEW x \in Chain(j)
        PROVE  x \in ReadingIds /\ reads'[x] = reads[x] /\ (Superseded(x)' <=> Superseded(x))
    <3>0. x \in Rows /\ x \notin Chain(i)
      BY <1>12 DEF Chain
    <3>1. x \in ReadingIds /\ x # n /\ x \notin Chain(i) /\ x # 0
      <4>1. x \in ReadingIds /\ x # n
        BY <1>6, <3>0
      <4> QED
        BY <1>2, <3>0, <4>1 DEF ReadingIds
    <3> QED
      BY <3>1, <1>4, <1>8, <1>9
  <2> QED
    BY <2>1, <2>2 DEF AllLinked, Linked
<1>13. \A k \in Keys : FromEvent(k)' = FromEvent(k) \cup
                          (IF row.source = k THEN {n} ELSE {})
  BY <1>4, <1>6 DEF FromEvent
<1> QED
  BY <1>1, <1>4, <1>5, <1>10, <1>11, <1>12, <1>13 DEF AllLinked

(* What no step but a new reading disturbs.                                *)
LEMMA ReadsUntouched ==
    ASSUME PipelineInv, UNCHANGED <<spot, reads>>
    PROVE  /\ spot' \in [Items -> Spots] /\ reads' \in [ReadingIds -> ReadingRows]
           /\ ReadingsInOrder' /\ AllLinked'
           /\ \A k \in Keys : FromEvent(k)' = FromEvent(k)
<1>1. Rows' = Rows
  BY DEF Rows
<1>2. ReadingsInOrder'
  BY <1>1 DEF PipelineInv, ReadingsInOrder
<1>3. \A x : Superseded(x)' <=> Superseded(x)
  BY <1>1 DEF Superseded
<1>4. \A i \in Items : Chain(i)' = Chain(i)
  BY <1>1 DEF Chain
<1>5. AllLinked'
  BY <1>3, <1>4 DEF PipelineInv, AllLinked, Linked
<1>6. \A k \in Keys : FromEvent(k)' = FromEvent(k)
  BY <1>1 DEF FromEvent
<1> QED
  BY <1>2, <1>5, <1>6 DEF PipelineInv, PipelineTypes

LEMMA SettledRow ==
    ASSUME PipelineTypes, NEW k \in Keys, NEW e \in EventRows, NEW status \in EventStatuses,
           NEW via \in BindingIds \cup {0}, Settle(k, e, status, via)
    PROVE  /\ event' \in [Keys -> EventRows] /\ event'[k].status = status
           /\ \A j \in Keys \ {k} : event'[j] = event[j]
<1> DEFINE new == [e EXCEPT !.status = status, !.via = IF via = 0 THEN @ ELSE via]
<1>1. new \in EventRows /\ new.status = status
  BY DEF EventRows
<1>2. event' = [event EXCEPT ![k] = new]
  BY DEF Settle
<1> HIDE DEF new
<1> QED
  BY <1>1, <1>2 DEF PipelineTypes

(* A step of the workers that converts no event.                           *)
LEMMA ProcessKeeps ==
    ASSUME PipelineInv, NEW w \in Workers, work[w] = Resting, NEW k \in Keys, ~ Busy(k),
           NEW e \in EventRows, event[k].status # "CONVERTED", Process(w, k, e),
           UnchangedDevices, UnchangedReads
    PROVE  PipelineInv'
<1>1. /\ spot' \in [Items -> Spots] /\ reads' \in [ReadingIds -> ReadingRows]
      /\ ReadingsInOrder' /\ AllLinked'
      /\ \A j \in Keys : FromEvent(j)' = FromEvent(j)
  BY ReadsUntouched DEF UnchangedReads
<1>2. PipelineTypes /\ WorkInv /\ OnceEach
  BY DEF PipelineInv
<1>3. ASSUME NEW status \in {"UNBOUND", "WAITING_PLAN", "FAILED"},
             NEW via \in BindingIds \cup {0}, Settle(k, e, status, via), UNCHANGED work
      PROVE  PipelineInv'
  <2>1. /\ event' \in [Keys -> EventRows] /\ event'[k].status = status
        /\ \A j \in Keys \ {k} : event'[j] = event[j]
    <3>1. status \in EventStatuses
      BY DEF EventStatuses, Replayable
    <3> QED
      BY <1>2, <1>3, <3>1, SettledRow
  <2>2. OnceEach'
    BY <1>1, <1>2, <2>1 DEF OnceEach
  <2>3. WorkInv'
    BY <1>2, <1>3, <2>1 DEF WorkInv, Working
  <2> QED
    BY <1>1, <1>2, <1>3, <2>1, <2>2, <2>3 DEF PipelineInv, PipelineTypes, UnchangedDevices
<1>4. ASSUME NEW b \in BindingIds, binding[b].inst \in Installations, NEW i \in Items,
             work' = [work EXCEPT ![w] = [at |-> "judge", key |-> k, row |-> e, via |-> b,
                                          inst |-> binding[b].inst, item |-> i,
                                          seen |-> spot[i]]],
             UNCHANGED event
      PROVE  PipelineInv'
  <2>1. /\ DOMAIN work' = Workers
        /\ work'[w] = [at |-> "judge", key |-> k, row |-> e, via |-> b,
                       inst |-> binding[b].inst, item |-> i, seen |-> spot[i]]
        /\ \A v \in Workers \ {w} : work'[v] = work[v]
    BY <1>2, <1>4 DEF PipelineTypes
  <2>2. \A v \in Workers : Working(v) => work[v].key # k
    BY DEF Busy, Working
  <2>3. ASSUME NEW v \in Workers
        PROVE  work'[v] = Resting \/
                 /\ Working(v)' /\ work'[v].key \in Keys /\ work'[v].item \in Items
                 /\ work'[v].row \in EventRows /\ work'[v].via \in BindingIds
                 /\ work'[v].inst \in Installations
                 /\ event[work'[v].key].status # "CONVERTED"
    <3>1. CASE v = w
      BY <2>1, <1>4, <3>1 DEF Working
    <3>2. CASE v # w
      <4>1. work'[v] = work[v] /\ (Working(v)' <=> Working(v))
        BY <2>1, <3>2 DEF Working
      <4> QED
        BY <4>1, <1>2 DEF WorkInv
    <3> QED
      BY <3>1, <3>2
  <2>4. ASSUME NEW u \in Workers, NEW v \in Workers, Working(u)', Working(v)',
               work'[u].key = work'[v].key
        PROVE  u = v
    <3>1. \A x \in Workers \ {w} : Working(x)' => Working(x) /\ work'[x].key # k
                                                 /\ work'[x].key = work[x].key
      BY <2>1, <2>2 DEF Working
    <3>2. work'[w].key = k
      BY <2>1
    <3> QED
      BY <2>4, <3>1, <3>2, <1>2 DEF WorkInv
  <2>5. WorkInv'
    BY <2>3, <2>4, <1>4 DEF WorkInv
  <2>6. OnceEach'
    BY <1>1, <1>2, <1>4 DEF OnceEach
  <2> QED
    BY <1>1, <1>2, <1>4, <2>1, <2>5, <2>6 DEF PipelineInv, PipelineTypes, UnchangedDevices
<1>5. CASE ~ device \/ Covering(e.at) = {}
  BY <1>3, <1>5 DEF Process
<1>6. CASE device /\ Covering(e.at) # {}
  <2>1. PICK b : b = CHOOSE c \in Covering(e.at) : TRUE
    OBVIOUS
  <2>2. b \in BindingIds /\ binding[b].inst \in Installations
    <3>1. b \in Covering(e.at)
      BY <2>1, <1>6
    <3> QED
      BY <3>1, <1>2 DEF Covering, Bound, PipelineTypes
  <2>3. CASE Candidates = {}
    BY <1>3, <1>6, <2>1, <2>2, <2>3 DEF Process
  <2>4. CASE Candidates # {} /\ Resolved(binding[b].inst) = {}
    BY <1>3, <1>6, <2>1, <2>2, <2>4 DEF Process
  <2>5. CASE Candidates # {} /\ Resolved(binding[b].inst) # {}
    <3>1. Resolved(binding[b].inst) \subseteq Items
      BY DEF Resolved, Exact, Candidates
    <3> QED
      BY <1>4, <1>6, <2>1, <2>2, <2>5, <3>1 DEF Process
  <2> QED
    BY <2>3, <2>4, <2>5
<1> QED
  BY <1>5, <1>6

LEMMA IngestKeeps ==
    ASSUME PipelineInv, NEW w \in Workers, NEW m \in Messages, Ingest(w, m)
    PROVE  PipelineInv'
<1>1. m.key \in Keys
  BY DEF Keys
<1>2. CASE event[m.key].status = "NONE"
  <2>1. [NoEvent EXCEPT !.body = m.body, !.at = m.at] \in EventRows
    BY RemoteAssumption DEF NoEvent, EventRows, EventStatuses, Instants
  <2> QED
    BY <1>1, <1>2, <2>1, ProcessKeeps DEF Ingest
<1>3. CASE event[m.key].status # "NONE"
  <2>1. UNCHANGED remoteVars
    BY <1>3 DEF Ingest, UnchangedDevices, UnchangedReads, remoteVars
  <2>2. /\ spot' \in [Items -> Spots] /\ reads' \in [ReadingIds -> ReadingRows]
        /\ ReadingsInOrder' /\ AllLinked'
        /\ \A j \in Keys : FromEvent(j)' = FromEvent(j)
    BY <2>1, ReadsUntouched DEF remoteVars
  <2> QED
    BY <2>1, <2>2 DEF PipelineInv, PipelineTypes, WorkInv, Working, OnceEach, remoteVars
<1> QED
  BY <1>2, <1>3

LEMMA ReplayKeeps ==
    ASSUME PipelineInv, NEW w \in Workers, NEW k \in Keys, Replay(w, k)
    PROVE  PipelineInv'
<1>1. event[k] \in EventRows /\ event[k].status # "CONVERTED"
  BY DEF Replay, Replayable, PipelineInv, PipelineTypes
<1> QED
  BY <1>1, ProcessKeeps DEF Replay

(* The work of w ends; the event it worked on may have become anything.    *)
LEMMA WorkEnds ==
    ASSUME PipelineTypes, WorkInv, NEW w \in Workers, work[w] # Resting,
           work' = [work EXCEPT ![w] = Resting],
           \A j \in Keys \ {work[w].key} : event'[j] = event[j]
    PROVE  WorkInv' /\ DOMAIN work' = Workers
<1>1. /\ DOMAIN work' = Workers /\ work'[w] = Resting
      /\ \A v \in Workers \ {w} : work'[v] = work[v]
  BY DEF PipelineTypes
<1>2. ~ Working(w)' /\ Working(w)
  BY <1>1 DEF WorkInv, Working, Resting
<1>3. ASSUME NEW v \in Workers
      PROVE  work'[v] = Resting \/
               /\ Working(v)' /\ work'[v].key \in Keys /\ work'[v].item \in Items
               /\ work'[v].row \in EventRows /\ work'[v].via \in BindingIds
               /\ work'[v].inst \in Installations
               /\ event'[work'[v].key].status # "CONVERTED"
  <2>1. CASE v = w
    BY <1>1, <2>1
  <2>2. CASE v # w /\ work[v] = Resting
    BY <1>1, <2>2
  <2>3. CASE v # w /\ work[v] # Resting
    <3>1. work'[v] = work[v] /\ Working(v)' /\ Working(v)
      BY <1>1, <2>3 DEF WorkInv, Working
    <3>2. work[v].key # work[w].key /\ work[v].key \in Keys
      BY <1>2, <2>3, <3>1 DEF WorkInv
    <3> QED
      BY <3>1, <3>2, <2>3 DEF WorkInv
  <2> QED
    BY <2>1, <2>2, <2>3
<1>4. ASSUME NEW u \in Workers, NEW v \in Workers, Working(u)', Working(v)',
             work'[u].key = work'[v].key
      PROVE  u = v
  <2>1. \A x \in Workers : Working(x)' => x # w /\ Working(x) /\ work'[x] = work[x]
    BY <1>1, <1>2 DEF Working
  <2> QED
    BY <1>4, <2>1 DEF WorkInv
<1> QED
  BY <1>1, <1>3, <1>4 DEF WorkInv

LEMMA GiveUpKeeps ==
    ASSUME PipelineInv, NEW w \in Workers, GiveUp(w)
    PROVE  PipelineInv'
<1>1. /\ spot' \in [Items -> Spots] /\ reads' \in [ReadingIds -> ReadingRows]
      /\ ReadingsInOrder' /\ AllLinked'
      /\ \A j \in Keys : FromEvent(j)' = FromEvent(j)
  BY ReadsUntouched DEF GiveUp, UnchangedReads
<1>2. WorkInv' /\ DOMAIN work' = Workers
  BY WorkEnds DEF GiveUp, PipelineInv
<1> QED
  BY <1>1, <1>2 DEF PipelineInv, PipelineTypes, OnceEach, GiveUp, UnchangedDevices

(* An event becomes CONVERTED in the step that makes its reading.          *)
LEMMA ConvertedNow ==
    ASSUME PipelineInv, NEW k \in Keys, event[k].status # "CONVERTED",
           event'[k].status = "CONVERTED", \A j \in Keys \ {k} : event'[j] = event[j],
           NextRow \in ReadingIds,
           \A j \in Keys : FromEvent(j)' = FromEvent(j) \cup
                              (IF k = j THEN {NextRow} ELSE {})
    PROVE  OnceEach'
<1>1. ASSUME NEW j \in Keys
      PROVE  IF event'[j].status = "CONVERTED" THEN \E x \in ReadingIds : FromEvent(j)' = {x}
             ELSE FromEvent(j)' = {}
  <2>1. CASE j = k
    <3>1. FromEvent(k) = {}
      BY DEF PipelineInv, OnceEach
    <3> QED
      BY <2>1, <3>1
  <2>2. CASE j # k
    BY <2>2 DEF PipelineInv, OnceEach
  <2> QED
    BY <2>1, <2>2
<1> QED
  BY <1>1 DEF OnceEach

LEMMA JudgeKeeps ==
    ASSUME PipelineInv, NEW w \in Workers, Judge(w)
    PROVE  PipelineInv'
<1>1. PipelineTypes /\ WorkInv /\ OnceEach /\ ReadingsInOrder /\ AllLinked
  BY DEF PipelineInv
<1>2. /\ work[w] # Resting /\ work[w].key \in Keys /\ work[w].item \in Items
      /\ work[w].row \in EventRows /\ work[w].via \in BindingIds
      /\ work[w].inst \in Installations /\ event[work[w].key].status # "CONVERTED"
  BY <1>1 DEF Judge, WorkInv
<1>3. PICK k \in Keys : k = work[w].key
  BY <1>2
<1>4. PICK i \in Items : i = work[w].item
  BY <1>2
<1>5. /\ work' = [work EXCEPT ![w] = Resting]
      /\ UnchangedDevices
  BY DEF Judge
<1>6. CASE Settle(k, work[w].row, "CONFLICT", work[w].via) /\ UnchangedReads
  <2>1. /\ event' \in [Keys -> EventRows] /\ event'[k].status = "CONFLICT"
        /\ \A j \in Keys \ {k} : event'[j] = event[j]
    BY <1>1, <1>2, <1>6, SettledRow DEF EventStatuses
  <2>2. /\ spot' \in [Items -> Spots] /\ reads' \in [ReadingIds -> ReadingRows]
        /\ ReadingsInOrder' /\ AllLinked'
        /\ \A j \in Keys : FromEvent(j)' = FromEvent(j)
    BY <1>6, ReadsUntouched DEF UnchangedReads
  <2>3. WorkInv' /\ DOMAIN work' = Workers
    BY <1>1, <1>2, <1>3, <1>5, <2>1, WorkEnds
  <2>4. OnceEach'
    BY <1>1, <1>2, <1>3, <2>1, <2>2 DEF OnceEach
  <2> QED
    BY <1>1, <1>5, <2>1, <2>2, <2>3, <2>4 DEF PipelineInv, PipelineTypes, UnchangedDevices
<1>7. ASSUME NEW row, row = [item |-> i, inst |-> work[w].inst, qc |-> "PENDING",
                             source |-> k, of |-> 0],
             NEW put, put = IF spot[i].status = "READ"
                            THEN [row EXCEPT !.inst = reads[spot[i].done].inst,
                                             !.of = spot[i].done]
                            ELSE row,
             NextRow <= MaxReadings, NewRow(put, i),
             Settle(k, work[w].row, "CONVERTED", work[w].via)
      PROVE  PipelineInv'
  <2>1. /\ event' \in [Keys -> EventRows] /\ event'[k].status = "CONVERTED"
        /\ \A j \in Keys \ {k} : event'[j] = event[j]
    BY <1>1, <1>2, <1>7, SettledRow DEF EventStatuses, Terminal
  <2>2. /\ put \in ReadingRows /\ put.qc # "NONE" /\ put.item = i /\ put.source = k
        /\ put.of = IF spot[i].status = "READ" THEN spot[i].done ELSE 0
    <3>1. row \in ReadingRows
      BY <1>2, <1>7, RemoteAssumption DEF ReadingRows
    <3>2. CASE spot[i].status = "READ"
      <4>1. spot[i].done \in ReadingIds /\ spot[i].done \in 0 .. MaxReadings
        BY <1>1, <3>2 DEF AllLinked, Linked, Chain, Rows, PipelineTypes, Spots
      <4>2. reads[spot[i].done].inst \in Installations
        BY <1>1, <4>1 DEF PipelineTypes, ReadingRows
      <4> QED
        BY <1>7, <3>1, <3>2, <4>1, <4>2 DEF ReadingRows
    <3>3. CASE spot[i].status # "READ"
      BY <1>7, <3>1, <3>3 DEF ReadingRows
    <3> QED
      BY <3>2, <3>3
  <2>3. /\ reads' \in [ReadingIds -> ReadingRows] /\ spot' \in [Items -> Spots]
        /\ ReadingsInOrder' /\ AllLinked'
        /\ \A j \in Keys : FromEvent(j)' = FromEvent(j) \cup
                              (IF k = j THEN {NextRow} ELSE {})
    <3>1. PICK r \in ReadingRows : r = put
      BY <2>2
    <3>2. /\ r.qc # "NONE" /\ r.item = i /\ NewRow(r, i)
          /\ r.of = IF spot[i].status = "READ" THEN spot[i].done ELSE 0
      BY <1>7, <2>2, <3>1
    <3>3. \A j \in Keys : r.source = j <=> k = j
      BY <2>2, <3>1
    <3>4. /\ reads' \in [ReadingIds -> ReadingRows] /\ spot' \in [Items -> Spots]
          /\ ReadingsInOrder' /\ AllLinked'
          /\ \A j \in Keys : FromEvent(j)' = FromEvent(j) \cup
                                (IF r.source = j THEN {NextRow} ELSE {})
      BY <1>1, <1>7, <3>2, RowAppended
    <3> QED
      BY <3>3, <3>4
  <2>4. NextRow \in ReadingIds
    BY <1>1, <1>7, NextReading, RemoteAssumption DEF ReadingIds
  <2>5. OnceEach'
    BY <1>2, <1>3, <2>1, <2>3, <2>4, ConvertedNow
  <2>6. WorkInv' /\ DOMAIN work' = Workers
    BY <1>1, <1>2, <1>3, <1>5, <2>1, WorkEnds
  <2> QED
    BY <1>1, <1>5, <2>1, <2>3, <2>5, <2>6 DEF PipelineInv, PipelineTypes, UnchangedDevices
<1> QED
  BY <1>3, <1>4, <1>6, <1>7 DEF Judge, SeenNow

LEMMA IdleSettled ==
    ASSUME WorkInv, NEW k \in Keys, ~ Busy(k), UNCHANGED work,
           \A j \in Keys \ {k} : event'[j] = event[j]
    PROVE  WorkInv'
<1>1. \A w \in Workers : Working(w) => work[w].key # k
  BY DEF Busy, Working
<1> QED
  BY <1>1 DEF WorkInv, Working

LEMMA KeepActualKeeps ==
    ASSUME PipelineInv, NEW k \in Keys, KeepActual(k)
    PROVE  PipelineInv'
<1>1. PipelineTypes /\ WorkInv /\ OnceEach
  BY DEF PipelineInv
<1>2. event[k] \in EventRows /\ event[k].status = "CONFLICT" /\ ~ Busy(k)
      /\ Settle(k, event[k], "IGNORED", 0) /\ UNCHANGED <<work, spot, reads>>
      /\ UnchangedDevices
  BY <1>1 DEF KeepActual, PipelineTypes, UnchangedReads
<1>3. /\ event' \in [Keys -> EventRows] /\ event'[k].status = "IGNORED"
      /\ \A j \in Keys \ {k} : event'[j] = event[j]
  BY <1>1, <1>2, SettledRow DEF EventStatuses, Terminal
<1>4. /\ spot' \in [Items -> Spots] /\ reads' \in [ReadingIds -> ReadingRows]
      /\ ReadingsInOrder' /\ AllLinked'
      /\ \A j \in Keys : FromEvent(j)' = FromEvent(j)
  BY <1>2, ReadsUntouched
<1>5. WorkInv'
  BY <1>1, <1>2, <1>3, IdleSettled
<1>6. OnceEach'
  BY <1>1, <1>2, <1>3, <1>4 DEF OnceEach
<1> QED
  BY <1>1, <1>2, <1>3, <1>4, <1>5, <1>6 DEF PipelineInv, PipelineTypes, UnchangedDevices

LEMMA UseRemoteKeeps ==
    ASSUME PipelineInv, NEW k \in Keys, UseRemote(k)
    PROVE  PipelineInv'
<1>1. PipelineTypes /\ WorkInv /\ OnceEach /\ ReadingsInOrder /\ AllLinked
  BY DEF PipelineInv
<1>2. event[k] \in EventRows /\ event[k].status = "CONFLICT" /\ ~ Busy(k)
      /\ Settle(k, event[k], "CONVERTED", 0) /\ UNCHANGED work /\ UnchangedDevices
      /\ NextRow <= MaxReadings
  BY <1>1 DEF UseRemote, PipelineTypes
<1>3. Resolved(binding[event[k].via].inst) \subseteq Items
  BY DEF Resolved, Exact, Candidates
<1>4. PICK i \in Items :
          /\ spot[i].done # 0
          /\ NewRow([item |-> i, inst |-> reads[spot[i].done].inst, qc |-> "PENDING",
                     source |-> k, of |-> spot[i].done], i)
  BY <1>3 DEF UseRemote
<1>5. /\ event' \in [Keys -> EventRows] /\ event'[k].status = "CONVERTED"
      /\ \A j \in Keys \ {k} : event'[j] = event[j]
  BY <1>1, <1>2, SettledRow DEF EventStatuses, Terminal
<1>6. /\ spot[i].status = "READ" /\ spot[i].done \in ReadingIds
      /\ spot[i].done \in 0 .. MaxReadings
  BY <1>1, <1>4 DEF AllLinked, Linked, Chain, Rows, PipelineTypes, Spots
<1>7. PICK r : r = [item |-> i, inst |-> reads[spot[i].done].inst, qc |-> "PENDING",
                    source |-> k, of |-> spot[i].done]
  OBVIOUS
<1>8. r \in ReadingRows /\ r.qc # "NONE" /\ r.item = i /\ r.source = k
      /\ r.of = IF spot[i].status = "READ" THEN spot[i].done ELSE 0
  <2>1. reads[spot[i].done].inst \in Installations
    BY <1>1, <1>6 DEF PipelineTypes, ReadingRows
  <2> QED
    BY <1>6, <1>7, <2>1 DEF ReadingRows
<1>9. /\ reads' \in [ReadingIds -> ReadingRows] /\ spot' \in [Items -> Spots]
      /\ ReadingsInOrder' /\ AllLinked'
      /\ \A j \in Keys : FromEvent(j)' = FromEvent(j) \cup
                            (IF r.source = j THEN {NextRow} ELSE {})
  BY <1>1, <1>2, <1>4, <1>7, <1>8, RowAppended
<1>10. OnceEach'
  <2>1. NextRow \in ReadingIds
    BY <1>1, <1>2, NextReading, RemoteAssumption DEF ReadingIds
  <2> QED
    BY <1>2, <1>5, <1>8, <1>9, <2>1, ConvertedNow
<1>11. WorkInv'
  BY <1>1, <1>2, <1>5, IdleSettled
<1> QED
  BY <1>1, <1>2, <1>5, <1>9, <1>10, <1>11 DEF PipelineInv, PipelineTypes, UnchangedDevices

(* Steps that leave the events and the requests alone.                     *)
LEMMA DeskStep ==
    ASSUME PipelineInv, UNCHANGED <<event, work>>, UnchangedDevices,
           spot' \in [Items -> Spots], reads' \in [ReadingIds -> ReadingRows],
           ReadingsInOrder', AllLinked', \A k \in Keys : FromEvent(k)' = FromEvent(k)
    PROVE  PipelineInv'
  BY DEF PipelineInv, PipelineTypes, WorkInv, Working, OnceEach, UnchangedDevices

LEMMA ItemStep ==
    ASSUME PipelineInv, NEW i \in Items, NEW s \in Spots, spot[i].status # "READ",
           s.status # "READ", s.done = 0, spot' = [spot EXCEPT ![i] = s],
           UNCHANGED <<event, reads, work>>, UnchangedDevices
    PROVE  PipelineInv'
<1>1. spot' \in [Items -> Spots] /\ spot'[i] = s
      /\ \A j \in Items \ {i} : spot'[j] = spot[j]
  BY DEF PipelineInv, PipelineTypes
<1>2. Rows' = Rows
  BY DEF Rows
<1>3. /\ \A x : Superseded(x)' <=> Superseded(x)
      /\ \A j \in Items : Chain(j)' = Chain(j)
      /\ \A k \in Keys : FromEvent(k)' = FromEvent(k)
  BY <1>2 DEF Superseded, Chain, FromEvent
<1>4. ReadingsInOrder'
  BY <1>2 DEF PipelineInv, ReadingsInOrder
<1>5. ASSUME NEW j \in Items PROVE Linked(j)'
  <2>1. CASE j = i
    <3>1. Chain(i) = {}
      BY DEF PipelineInv, AllLinked, Linked
    <3> QED
      BY <1>1, <1>3, <2>1, <3>1 DEF Linked
  <2>2. CASE j # i
    BY <1>1, <1>3, <2>2 DEF PipelineInv, AllLinked, Linked
  <2> QED
    BY <2>1, <2>2
<1> QED
  BY <1>1, <1>3, <1>4, <1>5, DeskStep DEF AllLinked, PipelineInv, PipelineTypes

LEMMA MakeItemKeeps ==
    ASSUME PipelineInv, NEW i \in Items, MakeItem(i)
    PROVE  PipelineInv'
<1>1. PICK s : s = [NoSpot EXCEPT !.status = "PENDING", !.planned = Active]
  OBVIOUS
<1>2. s \in Spots /\ s.status # "READ" /\ s.done = 0
  <2>1. Active \in Installations
    BY DEF Active, Installations
  <2>2. s = [status |-> "PENDING", planned |-> Active, done |-> 0]
    BY <1>1 DEF NoSpot
  <2> QED
    BY <2>1, <2>2, RemoteAssumption DEF Spots, Open
<1>3. /\ spot[i].status # "READ" /\ spot' = [spot EXCEPT ![i] = s]
      /\ UNCHANGED <<event, reads, work>> /\ UnchangedDevices
  BY <1>1 DEF MakeItem
<1> QED
  BY <1>2, <1>3, ItemStep

LEMMA EnterNoReadKeeps ==
    ASSUME PipelineInv, NEW i \in Items, EnterNoRead(i)
    PROVE  PipelineInv'
<1>1. spot[i] \in Spots /\ spot[i].status # "READ"
  BY DEF EnterNoRead, PipelineInv, PipelineTypes
<1>2. PICK s : s = [spot[i] EXCEPT !.status = "NO_READ"]
  OBVIOUS
<1>3. s \in Spots /\ s.status # "READ" /\ s.done = 0
  <2>1. spot[i].done = 0
    BY <1>1 DEF PipelineInv, AllLinked, Linked
  <2> QED
    BY <1>1, <1>2, <2>1 DEF Spots, Open
<1>4. spot' = [spot EXCEPT ![i] = s]
  BY <1>2 DEF EnterNoRead, PipelineInv, PipelineTypes
<1> QED
  BY <1>3, <1>4, ItemStep DEF EnterNoRead

LEMMA EnterReadingKeeps ==
    ASSUME PipelineInv, NEW i \in Items, EnterReading(i)
    PROVE  PipelineInv'
<1>1. PipelineTypes /\ ReadingsInOrder /\ AllLinked
  BY DEF PipelineInv
<1>2. PICK r : r = [item |-> i, inst |-> Active, qc |-> "PENDING", source |-> "manual",
                    of |-> 0]
  OBVIOUS
<1>3. r \in ReadingRows /\ r.qc # "NONE" /\ r.item = i /\ r.source = "manual"
  BY <1>2, RemoteAssumption DEF ReadingRows, Active, Installations
<1>4. spot[i].status # "READ" /\ NextRow <= MaxReadings /\ NewRow(r, i)
      /\ UNCHANGED <<event, work>> /\ UnchangedDevices
  BY <1>2 DEF EnterReading, Open
<1>5. r.of = IF spot[i].status = "READ" THEN spot[i].done ELSE 0
  BY <1>2, <1>4
<1>6. \A k \in Keys : k # "manual"
  BY RemoteAssumption DEF Keys
<1>7. /\ reads' \in [ReadingIds -> ReadingRows] /\ spot' \in [Items -> Spots]
      /\ ReadingsInOrder' /\ AllLinked'
      /\ \A k \in Keys : FromEvent(k)' = FromEvent(k) \cup
                            (IF r.source = k THEN {NextRow} ELSE {})
  BY <1>1, <1>3, <1>4, <1>5, RowAppended
<1>8. \A k \in Keys : FromEvent(k)' = FromEvent(k)
  BY <1>3, <1>6, <1>7
<1> QED
  BY <1>4, <1>7, <1>8, DeskStep

LEMMA CorrectReadingKeeps ==
    ASSUME PipelineInv, NEW x \in Rows, CorrectReading(x)
    PROVE  PipelineInv'
<1>1. PipelineTypes /\ ReadingsInOrder /\ AllLinked
  BY DEF PipelineInv
<1>2. x \in ReadingIds /\ reads[x] \in ReadingRows /\ reads[x].item \in Items
  BY <1>1 DEF Rows, PipelineTypes, ReadingsInOrder
<1>3. PICK i \in Items : i = reads[x].item
  BY <1>2
<1>4. x \in Chain(i)
  BY <1>3 DEF Chain
<1>5. spot[i].status = "READ" /\ spot[i].done = x
  BY <1>1, <1>4 DEF CorrectReading, NotSuperseded, AllLinked, Linked
<1>6. PICK r : r = [reads[x] EXCEPT !.qc = "PENDING", !.source = "manual", !.of = x]
  OBVIOUS
<1>7. /\ r \in ReadingRows /\ r.qc # "NONE" /\ r.item = i /\ r.source = "manual"
      /\ r.of = IF spot[i].status = "READ" THEN spot[i].done ELSE 0
  <2>1. x \in 0 .. MaxReadings
    BY <1>2, RemoteAssumption DEF ReadingIds
  <2> QED
    BY <1>2, <1>3, <1>5, <1>6, <2>1 DEF ReadingRows
<1>8. NextRow <= MaxReadings /\ NewRow(r, i) /\ UNCHANGED <<event, work>> /\ UnchangedDevices
  BY <1>3, <1>6 DEF CorrectReading
<1>9. \A k \in Keys : k # "manual"
  BY RemoteAssumption DEF Keys
<1>10. /\ reads' \in [ReadingIds -> ReadingRows] /\ spot' \in [Items -> Spots]
       /\ ReadingsInOrder' /\ AllLinked'
       /\ \A k \in Keys : FromEvent(k)' = FromEvent(k) \cup
                             (IF r.source = k THEN {NextRow} ELSE {})
  BY <1>1, <1>7, <1>8, RowAppended
<1>11. \A k \in Keys : FromEvent(k)' = FromEvent(k)
  BY <1>7, <1>9, <1>10
<1> QED
  BY <1>8, <1>10, <1>11, DeskStep

LEMMA VerdictKeeps ==
    ASSUME PipelineInv, NEW x \in Rows, NEW qc \in {"PASSED", "REJECTED"}, Verdict(x, qc)
    PROVE  PipelineInv'
<1>1. PipelineTypes /\ ReadingsInOrder /\ AllLinked
  BY DEF PipelineInv
<1>2. x \in ReadingIds /\ reads[x] \in ReadingRows /\ reads[x].qc # "NONE"
  BY <1>1 DEF Rows, PipelineTypes
<1>3. reads' = [reads EXCEPT ![x] = [reads[x] EXCEPT !.qc = qc]]
  BY <1>1, <1>2 DEF Verdict, PipelineTypes
<1>4. PICK r : r = [reads[x] EXCEPT !.qc = qc]
  OBVIOUS
<1>5. /\ r \in ReadingRows /\ r.qc # "NONE" /\ r.item = reads[x].item
      /\ r.of = reads[x].of /\ r.source = reads[x].source
  BY <1>2, <1>4 DEF ReadingRows
<1>6. /\ reads' \in [ReadingIds -> ReadingRows] /\ reads'[x] = r
      /\ \A y \in ReadingIds \ {x} : reads'[y] = reads[y]
  BY <1>1, <1>2, <1>3, <1>4, <1>5 DEF PipelineTypes
<1>7. \A y \in ReadingIds : /\ reads'[y].item = reads[y].item /\ reads'[y].of = reads[y].of
                            /\ reads'[y].source = reads[y].source
                            /\ reads'[y].qc # "NONE" <=> reads[y].qc # "NONE"
  BY <1>2, <1>5, <1>6
<1>8. Rows' = Rows /\ Rows \subseteq ReadingIds
  BY <1>7 DEF Rows
<1>9. /\ \A y : Superseded(y)' <=> Superseded(y)
      /\ \A i \in Items : Chain(i)' = Chain(i)
      /\ \A k \in Keys : FromEvent(k)' = FromEvent(k)
  BY <1>7, <1>8 DEF Superseded, Chain, FromEvent
<1>10. ReadingsInOrder'
  <2>1. PICK n \in 0 .. MaxReadings :
            \A y \in ReadingIds : reads[y].qc # "NONE" <=> y <= n
    BY <1>1 DEF ReadingsInOrder
  <2>2. \A y \in ReadingIds : reads'[y].qc # "NONE" <=> y <= n
    BY <1>7, <2>1
  <2>3. \A y \in ReadingIds : reads'[y].of < y
    BY <1>1, <1>7 DEF ReadingsInOrder
  <2>4. ASSUME NEW y \in Rows
        PROVE  /\ reads'[y].item \in Items
               /\ reads'[y].of # 0 => reads'[reads'[y].of].item = reads'[y].item
    <3>1. y \in ReadingIds /\ reads[y].of < y /\ reads[y].of \in 0 .. MaxReadings
      BY <1>1, <1>8 DEF ReadingsInOrder, PipelineTypes, ReadingRows
    <3>2. reads[y].of # 0 => reads[y].of \in ReadingIds
      BY <3>1 DEF ReadingIds
    <3> QED
      BY <1>1, <1>7, <3>1, <3>2 DEF ReadingsInOrder
  <2> QED
    BY <1>8, <2>1, <2>2, <2>3, <2>4 DEF ReadingsInOrder
<1>11. AllLinked'
  <2>1. ASSUME NEW i \in Items PROVE Linked(i)'
    <3>1. Chain(i) \subseteq ReadingIds
      BY <1>8 DEF Chain
    <3>2. UNCHANGED spot
      BY DEF Verdict
    <3> QED
      BY <1>1, <1>7, <1>9, <3>1, <3>2 DEF AllLinked, Linked
  <2> QED
    BY <2>1 DEF AllLinked
<1>12. UNCHANGED <<event, spot, work>> /\ UnchangedDevices
  BY DEF Verdict
<1> QED
  BY <1>1, <1>6, <1>9, <1>10, <1>11, <1>12, DeskStep DEF PipelineTypes

(* Devices, bindings and the exchange touch neither events nor readings.   *)
LEMMA DevicesKeep ==
    ASSUME PipelineInv,
           \/ \E i \in Installations, f \in Instants, t \in Instants \cup {Forever} : Bind(i, f, t)
           \/ \E b \in BindingIds, t \in Instants \cup {Forever} : Rebind(b, t)
           \/ \E t \in Instants : Exchange(t)
           \/ SwitchDevice
    PROVE  PipelineInv'
<1> DEFINE Binds == [inst : Installations \cup {0}, from : Instants \cup {Forever, 0},
                     to : Instants \cup {Forever, 0}]
<1>1. binding \in [BindingIds -> Binds] /\ removed \in Instants \cup {Forever}
  BY DEF PipelineInv, PipelineTypes
<1>2. UNCHANGED <<event, spot, reads, work>>
  BY DEF Bind, Rebind, Exchange, SwitchDevice, UnchangedReads
<1>3. /\ binding' \in [BindingIds -> Binds] /\ removed' \in Instants \cup {Forever}
  <2>1. ASSUME NEW i \in Installations, NEW f \in Instants,
               NEW t \in Instants \cup {Forever}, Bind(i, f, t)
        PROVE  binding' \in [BindingIds -> Binds] /\ removed' = removed
    <3>1. [inst |-> i, from |-> f, to |-> t] \in Binds
      OBVIOUS
    <3> HIDE DEF Binds
    <3> QED
      BY <1>1, <2>1, <3>1 DEF Bind
  <2>2. ASSUME NEW b \in BindingIds, NEW t \in Instants \cup {Forever}, Rebind(b, t)
        PROVE  binding' \in [BindingIds -> Binds] /\ removed' = removed
    <3>1. [binding[b] EXCEPT !.to = t] \in Binds
      BY <1>1
    <3>2. binding' = [binding EXCEPT ![b] = [binding[b] EXCEPT !.to = t]]
      BY <1>1, <2>2 DEF Rebind
    <3> HIDE DEF Binds
    <3> QED
      BY <1>1, <2>2, <3>1, <3>2 DEF Rebind
  <2>3. ASSUME NEW t \in Instants, Exchange(t)
        PROVE  binding' \in [BindingIds -> Binds] /\ removed' = t
    <3>1. \A b \in BindingIds : [binding[b] EXCEPT !.to = t] \in Binds
      BY <1>1
    <3> HIDE DEF Binds
    <3> QED
      BY <1>1, <2>3, <3>1 DEF Exchange
  <2>4. ASSUME SwitchDevice PROVE UNCHANGED <<binding, removed>>
    BY <2>4 DEF SwitchDevice
  <2> QED
    BY <1>1, <2>1, <2>2, <2>3, <2>4
<1>4. /\ spot' \in [Items -> Spots] /\ reads' \in [ReadingIds -> ReadingRows]
      /\ ReadingsInOrder' /\ AllLinked'
      /\ \A k \in Keys : FromEvent(k)' = FromEvent(k)
  BY <1>2, ReadsUntouched
<1> QED
  BY <1>2, <1>3, <1>4 DEF PipelineInv, PipelineTypes, WorkInv, Working, OnceEach, Instants, Forever

LEMMA PipelineStart == RemoteInit => PipelineInv
<1> SUFFICES ASSUME RemoteInit PROVE PipelineInv
  OBVIOUS
<1>1. Rows = {}
  BY DEF RemoteInit, Rows, NoRow
<1>2. PipelineTypes
  <2>1. NoEvent \in EventRows
    BY RemoteAssumption DEF NoEvent, EventRows, EventStatuses, Instants
  <2>2. NoSpot \in Spots
    BY RemoteAssumption DEF NoSpot, Spots, Installations
  <2>3. NoRow \in ReadingRows
    BY RemoteAssumption DEF NoRow, ReadingRows, Installations
  <2>4. NoBinding \in [inst : Installations \cup {0}, from : Instants \cup {Forever, 0},
                       to : Instants \cup {Forever, 0}]
    BY DEF NoBinding
  <2> QED
    BY <2>1, <2>2, <2>3, <2>4, RemoteAssumption DEF RemoteInit, PipelineTypes, Instants
<1>3. ReadingsInOrder
  <2>1. \A x \in ReadingIds : ~ (reads[x].qc # "NONE") /\ reads[x].of = 0 /\ ~ (x <= 0)
    BY RemoteAssumption DEF RemoteInit, NoRow, ReadingIds
  <2>2. \A x \in ReadingIds : 0 < x
    BY RemoteAssumption DEF ReadingIds
  <2>3. 0 \in 0 .. MaxReadings
    BY RemoteAssumption
  <2> QED
    BY <1>1, <2>1, <2>2, <2>3 DEF ReadingsInOrder
<1>4. WorkInv
  BY DEF RemoteInit, WorkInv, Working, Resting
<1>5. OnceEach
  BY <1>1 DEF RemoteInit, NoEvent, OnceEach, FromEvent
<1>6. AllLinked
  BY <1>1 DEF RemoteInit, NoSpot, AllLinked, Linked, Chain
<1> QED
  BY <1>2, <1>3, <1>4, <1>5, <1>6 DEF PipelineInv

LEMMA PipelineStep == PipelineInv /\ [RemoteNext]_remoteVars => PipelineInv'
<1> SUFFICES ASSUME PipelineInv, [RemoteNext]_remoteVars PROVE PipelineInv'
  OBVIOUS
<1>1. ASSUME NEW w \in Workers, NEW m \in Messages, Ingest(w, m) PROVE PipelineInv'
  BY <1>1, IngestKeeps
<1>2. ASSUME NEW w \in Workers, NEW k \in Keys, Replay(w, k) PROVE PipelineInv'
  BY <1>2, ReplayKeeps
<1>3. ASSUME NEW w \in Workers, Judge(w) \/ GiveUp(w) PROVE PipelineInv'
  BY <1>3, JudgeKeeps, GiveUpKeeps
<1>4. ASSUME NEW k \in Keys, KeepActual(k) \/ UseRemote(k) PROVE PipelineInv'
  BY <1>4, KeepActualKeeps, UseRemoteKeeps
<1>5. ASSUME NEW i \in Items, MakeItem(i) \/ EnterReading(i) \/ EnterNoRead(i)
      PROVE  PipelineInv'
  BY <1>5, MakeItemKeeps, EnterReadingKeeps, EnterNoReadKeeps
<1>6. ASSUME NEW x \in Rows, NEW qc \in {"PASSED", "REJECTED"}, Verdict(x, qc)
      PROVE  PipelineInv'
  BY <1>6, VerdictKeeps
<1>7. ASSUME NEW x \in Rows, CorrectReading(x) PROVE PipelineInv'
  BY <1>7, CorrectReadingKeeps
<1>8. ASSUME \/ \E i \in Installations, f \in Instants, t \in Instants \cup {Forever} :
                  Bind(i, f, t)
             \/ \E b \in BindingIds, t \in Instants \cup {Forever} : Rebind(b, t)
             \/ \E t \in Instants : Exchange(t)
             \/ SwitchDevice
      PROVE  PipelineInv'
  BY <1>8, DevicesKeep
<1>9. CASE UNCHANGED remoteVars
  <2>1. /\ spot' \in [Items -> Spots] /\ reads' \in [ReadingIds -> ReadingRows]
        /\ ReadingsInOrder' /\ AllLinked'
        /\ \A k \in Keys : FromEvent(k)' = FromEvent(k)
    BY <1>9, ReadsUntouched DEF remoteVars
  <2> QED
    BY <1>9, <2>1, DeskStep DEF remoteVars, UnchangedDevices
<1> QED
  BY <1>1, <1>2, <1>3, <1>4, <1>5, <1>6, <1>7, <1>8, <1>9 DEF RemoteNext

LEMMA PipelineAlways == RemoteSpec => []PipelineInv
  BY PipelineStart, PipelineStep, PTL DEF RemoteSpec

(* Whatever the vendor sends, in any order and any number of times, and    *)
(* however its rows are replayed and its conflicts resolved by any number  *)
(* of requests: an event has one reading when CONVERTED, and none before.  *)
THEOREM EventReadOnce == RemoteSpec => []ConvertedOnce
<1>1. PipelineInv => ConvertedOnce
  <2> SUFFICES ASSUME PipelineInv, NEW k \in Keys
               PROVE  Cardinality({x \in Rows : reads[x].source = k})
                        = IF event[k].status = "CONVERTED" THEN 1 ELSE 0
    BY DEF ConvertedOnce
  <2>1. FromEvent(k) = {x \in Rows : reads[x].source = k}
    BY DEF FromEvent
  <2>2. CASE event[k].status = "CONVERTED"
    <3>1. PICK x \in ReadingIds : FromEvent(k) = {x}
      BY <2>2 DEF PipelineInv, OnceEach
    <3>2. Cardinality({x}) = 1
      BY FS_Singleton
    <3> QED
      BY <2>1, <2>2, <3>1, <3>2
  <2>3. CASE event[k].status # "CONVERTED"
    <3>1. FromEvent(k) = {}
      BY <2>3 DEF PipelineInv, OnceEach
    <3> QED
      BY <2>1, <2>3, <3>1, FS_EmptySet
  <2> QED
    BY <2>2, <2>3
<1> QED
  BY <1>1, PipelineAlways, PTL

LEMMA AtMostOne ==
    ASSUME NEW S, NEW a, \A x \in S : x = a
    PROVE  Cardinality(S) <= 1
<1>1. S = {} \/ S = {a}
  OBVIOUS
<1>2. Cardinality({}) = 0 /\ Cardinality({a}) = 1
  BY FS_EmptySet, FS_Singleton
<1> QED
  BY <1>1, <1>2

(* Manual entries, corrections, remote readings and resolved conflicts     *)
(* extend one chain per item, and the item points at its end.              *)
THEOREM OneChainPerItem == RemoteSpec => []ItemPointsAtHead
<1>1. PipelineInv => ItemPointsAtHead
  <2> SUFFICES ASSUME PipelineInv, NEW i \in Items
               PROVE  /\ Cardinality({x \in Chain(i) : ~ Superseded(x)}) <= 1
                      /\ Cardinality({x \in Chain(i) : reads[x].of = 0}) <= 1
                      /\ Chain(i) # {} => spot[i].done \in Chain(i)
                                          /\ ~ Superseded(spot[i].done)
    BY DEF ItemPointsAtHead, Chain
  <2>1. Linked(i)
    BY DEF PipelineInv, AllLinked
  <2>2. Cardinality({x \in Chain(i) : ~ Superseded(x)}) <= 1
    <3>1. \A x \in {y \in Chain(i) : ~ Superseded(y)} : x = spot[i].done
      BY <2>1 DEF Linked
    <3> QED
      BY <3>1, AtMostOne
  <2>3. Cardinality({x \in Chain(i) : reads[x].of = 0}) <= 1
    <3> DEFINE First == {x \in Chain(i) : reads[x].of = 0}
    <3>1. \A x, y \in First : x = y
      BY <2>1 DEF Linked
    <3>2. PICK a : First # {} => a \in First
      OBVIOUS
    <3>3. \A x \in First : x = a
      BY <3>1, <3>2
    <3> HIDE DEF First
    <3>4. Cardinality(First) <= 1
      BY <3>3, AtMostOne
    <3> QED
      BY <3>4 DEF First
  <2> QED
    BY <2>1, <2>2, <2>3 DEF Linked
<1> QED
  BY <1>1, PipelineAlways, PTL

(* The bindings of the device: what the containment check and the          *)
(* exclusion constraint keep.  An exchange closes the open ones at the     *)
(* removal, and before it all are of installation 1.                       *)
InLife(b) == /\ LifeOf(binding[b].inst).from <= binding[b].from
             /\ binding[b].to <= LifeOf(binding[b].inst).to
BoundApart == \A b, c \in Bound : b # c => \/ binding[b].to <= binding[c].from
                                           \/ binding[c].to <= binding[b].from
FirstUntilRemoved == removed = Forever => \A b \in Bound : binding[b].inst = 1
BindingsInv == /\ \A b \in Bound : InLife(b)
               /\ BoundApart /\ FirstUntilRemoved

Moments == Instants \cup {Forever}
BindingRows == [inst : Installations \cup {0}, from : Moments, to : Moments]

LEMMA BindingsTyped ==
    ASSUME PipelineTypes
    PROVE  /\ Moments \subseteq Nat /\ removed \in Moments
           /\ binding \in [BindingIds -> BindingRows]
<1>1. Moments \subseteq Nat /\ Instants \cup {Forever, 0} = Moments
  BY RemoteAssumption DEF Moments, Instants, Forever
<1> QED
  BY <1>1 DEF PipelineTypes, BindingRows, Moments

LEMMA BindKeeps ==
    ASSUME PipelineTypes, BindingsInv,
           NEW i \in Installations, NEW f \in Instants, NEW t \in Moments, Bind(i, f, t)
    PROVE  BindingsInv'
<1> DEFINE n == Cardinality(Bound) + 1
           new == [inst |-> i, from |-> f, to |-> t]
<1>1. /\ binding' = [binding EXCEPT ![n] = new] /\ removed' = removed
      /\ i = 2 => removed # Forever
      /\ LifeOf(i).from <= f /\ t <= LifeOf(i).to
      /\ \A b \in Bound : t <= binding[b].from \/ binding[b].to <= f
  BY DEF Bind, Disjoint
<1>2. binding \in [BindingIds -> BindingRows]
  BY BindingsTyped
<1> HIDE DEF n
<1>3. /\ \A b \in BindingIds \ {n} : binding'[b] = binding[b]
      /\ n \in BindingIds => binding'[n] = new
  BY <1>1, <1>2
<1>4. \A b \in Bound' : b = n \/ (b # n /\ b \in Bound)
  BY <1>3 DEF Bound
<1>5. Bound' \subseteq BindingIds
  BY DEF Bound
<1>7. \A b \in Bound' : InLife(b)'
  <2> TAKE b \in Bound'
  <2>1. CASE b = n
    BY <1>1, <1>3, <1>5, <2>1 DEF InLife, LifeOf
  <2>2. CASE b # n
    <3>1. b \in Bound /\ binding'[b] = binding[b] /\ InLife(b)
      BY <1>3, <1>4, <1>5, <2>2 DEF BindingsInv
    <3> QED
      BY <1>1, <3>1 DEF InLife, LifeOf
  <2> QED BY <2>1, <2>2
<1>8. BoundApart'
  <2> SUFFICES ASSUME NEW b \in Bound', NEW c \in Bound', b # c
               PROVE  \/ binding'[b].to <= binding'[c].from
                      \/ binding'[c].to <= binding'[b].from
    BY DEF BoundApart
  <2>1. CASE b = n
    BY <1>1, <1>3, <1>4, <1>5, <2>1
  <2>2. CASE c = n
    BY <1>1, <1>3, <1>4, <1>5, <2>2
  <2>3. CASE b # n /\ c # n
    <3>1. b \in Bound /\ c \in Bound /\ binding'[b] = binding[b] /\ binding'[c] = binding[c]
      BY <1>3, <1>4, <1>5, <2>3
    <3> QED
      BY <3>1 DEF BindingsInv, BoundApart
  <2> QED BY <2>1, <2>2, <2>3
<1>9. FirstUntilRemoved'
  <2> SUFFICES ASSUME removed' = Forever, NEW b \in Bound' PROVE binding'[b].inst = 1
    BY DEF FirstUntilRemoved, Forever
  <2>1. i = 1
    BY <1>1 DEF Installations
  <2> QED
    BY <1>1, <1>3, <1>4, <1>5, <2>1 DEF BindingsInv, FirstUntilRemoved
<1> QED
  BY <1>7, <1>8, <1>9 DEF BindingsInv

LEMMA RebindKeeps ==
    ASSUME PipelineTypes, BindingsInv, NEW b \in BindingIds, NEW t \in Moments, Rebind(b, t)
    PROVE  BindingsInv'
<1>1. /\ binding' = [binding EXCEPT ![b] = [binding[b] EXCEPT !.to = t]] /\ removed' = removed
      /\ b \in Bound /\ t <= LifeOf(binding[b].inst).to
      /\ \A c \in Bound \ {b} : t <= binding[c].from \/ binding[c].to <= binding[b].from
  BY BindingsTyped DEF Rebind, Disjoint
<1>2. binding \in [BindingIds -> BindingRows] /\ binding[b] \in BindingRows
  BY BindingsTyped
<1>3. /\ \A c \in BindingIds \ {b} : binding'[c] = binding[c]
      /\ binding'[b].to = t /\ binding'[b].from = binding[b].from
      /\ binding'[b].inst = binding[b].inst
  BY <1>1, <1>2 DEF BindingRows
<1>4. Bound' = Bound /\ Bound \subseteq BindingIds
  BY <1>3 DEF Bound
<1>5. \A c \in Bound' : InLife(c)'
  <2> TAKE c \in Bound'
  <2>1. InLife(c)
    BY <1>4 DEF BindingsInv
  <2>2. CASE c = b
    BY <1>1, <1>3, <2>1, <2>2 DEF InLife, LifeOf
  <2>3. CASE c # b
    BY <1>1, <1>3, <1>4, <2>1, <2>3 DEF InLife, LifeOf
  <2> QED BY <2>2, <2>3
<1>6. BoundApart'
  <2> SUFFICES ASSUME NEW c \in Bound', NEW d \in Bound', c # d
               PROVE  \/ binding'[c].to <= binding'[d].from
                      \/ binding'[d].to <= binding'[c].from
    BY DEF BoundApart
  <2>1. CASE c = b
    BY <1>1, <1>3, <1>4, <2>1
  <2>2. CASE d = b
    BY <1>1, <1>3, <1>4, <2>2
  <2>3. CASE c # b /\ d # b
    BY <1>3, <1>4, <2>3 DEF BindingsInv, BoundApart
  <2> QED BY <2>1, <2>2, <2>3
<1>7. FirstUntilRemoved'
  <2>1. \A c \in Bound : binding'[c].inst = binding[c].inst
    BY <1>3, <1>4
  <2> QED
    BY <1>1, <1>4, <2>1 DEF BindingsInv, FirstUntilRemoved, Forever
<1> QED
  BY <1>5, <1>6, <1>7 DEF BindingsInv

LEMMA ExchangeKeeps ==
    ASSUME PipelineTypes, BindingsInv, NEW t \in Instants, Exchange(t)
    PROVE  BindingsInv'
<1>1. /\ removed = Forever /\ removed' = t /\ t \in Nat /\ t # Forever
      /\ binding' = [b \in BindingIds |->
                       IF b \in Closable(t) THEN [binding[b] EXCEPT !.to = t] ELSE binding[b]]
  BY RemoteAssumption DEF Exchange, Instants, Forever
<1>2. \A b \in BindingIds : binding[b] \in BindingRows
  BY BindingsTyped
<1>3. \A b \in BindingIds : binding[b].from \in Nat /\ binding[b].to \in Nat
  BY <1>2, BindingsTyped DEF BindingRows
<1>4. \A b \in BindingIds : /\ binding'[b].inst = binding[b].inst
                            /\ binding'[b].from = binding[b].from
                            /\ binding'[b].to = IF b \in Closable(t) THEN t ELSE binding[b].to
  BY <1>1, <1>2 DEF BindingRows
<1>5. Bound' = Bound /\ Bound \subseteq BindingIds
  BY <1>4 DEF Bound
<1>6. \A b \in Bound : /\ binding'[b].to \in Nat /\ binding'[b].to <= binding[b].to
                       /\ binding'[b].to <= t /\ binding[b].inst = 1
  BY <1>1, <1>3, <1>4, <1>5 DEF Closable, BindingsInv, FirstUntilRemoved
<1>7. \A b \in Bound' : InLife(b)'
  <2> TAKE b \in Bound'
  <2>1. /\ binding'[b].inst = 1 /\ binding'[b].to <= t
        /\ binding'[b].from \in Nat
    BY <1>3, <1>4, <1>5, <1>6
  <2>2. LifeOf(1)' = [from |-> 0, to |-> t]
    BY <1>1 DEF LifeOf
  <2> QED BY <2>1, <2>2 DEF InLife, LifeOf
<1>8. BoundApart'
  <2> SUFFICES ASSUME NEW c \in Bound, NEW d \in Bound, c # d
               PROVE  \/ binding'[c].to <= binding'[d].from
                      \/ binding'[d].to <= binding'[c].from
    BY <1>5 DEF BoundApart
  <2>1. binding[c].to <= binding[d].from \/ binding[d].to <= binding[c].from
    BY DEF BindingsInv, BoundApart
  <2> QED BY <1>3, <1>4, <1>5, <1>6, <2>1
<1>9. FirstUntilRemoved'
  BY <1>1 DEF FirstUntilRemoved, Forever
<1> QED
  BY <1>7, <1>8, <1>9 DEF BindingsInv

LEMMA BindingsStart == RemoteInit => BindingsInv
<1> SUFFICES ASSUME RemoteInit PROVE BindingsInv
  OBVIOUS
<1>1. Bound = {}
  BY DEF RemoteInit, Bound, NoBinding
<1> QED
  BY <1>1 DEF BindingsInv, BoundApart, FirstUntilRemoved

LEMMA BindingsStep == PipelineInv /\ BindingsInv /\ [RemoteNext]_remoteVars => BindingsInv'
<1> SUFFICES ASSUME PipelineInv, BindingsInv, [RemoteNext]_remoteVars PROVE BindingsInv'
  OBVIOUS
<1>1. PipelineTypes
  BY DEF PipelineInv
<1>2. ASSUME NEW i \in Installations, NEW f \in Instants, NEW t \in Instants \cup {Forever},
             Bind(i, f, t)
      PROVE  BindingsInv'
  BY <1>1, <1>2, BindKeeps DEF Moments
<1>3. ASSUME NEW b \in BindingIds, NEW t \in Instants \cup {Forever}, Rebind(b, t)
      PROVE  BindingsInv'
  BY <1>1, <1>3, RebindKeeps DEF Moments
<1>4. ASSUME NEW t \in Instants, Exchange(t) PROVE BindingsInv'
  BY <1>1, <1>4, ExchangeKeeps
<1>5. ASSUME UNCHANGED <<binding, removed>> PROVE BindingsInv'
  BY <1>5 DEF BindingsInv, InLife, BoundApart, FirstUntilRemoved, Bound, LifeOf, Forever
<1>6. \/ UNCHANGED <<binding, removed>>
      \/ \E i \in Installations, f \in Instants, t \in Instants \cup {Forever} : Bind(i, f, t)
      \/ \E b \in BindingIds, t \in Instants \cup {Forever} : Rebind(b, t)
      \/ \E t \in Instants : Exchange(t)
  <2>1. ASSUME NEW w \in Workers, (\E m \in Messages : Ingest(w, m))
                 \/ (\E k \in Keys : Replay(w, k)) \/ Judge(w) \/ GiveUp(w)
        PROVE  UNCHANGED <<binding, removed>>
    BY <2>1 DEF Ingest, Replay, Judge, GiveUp, UnchangedDevices
  <2>2. ASSUME NEW k \in Keys, KeepActual(k) \/ UseRemote(k)
        PROVE  UNCHANGED <<binding, removed>>
    BY <2>2 DEF KeepActual, UseRemote, UnchangedDevices
  <2>3. ASSUME NEW i \in Items, MakeItem(i) \/ EnterReading(i) \/ EnterNoRead(i)
        PROVE  UNCHANGED <<binding, removed>>
    BY <2>3 DEF MakeItem, EnterReading, EnterNoRead, UnchangedDevices
  <2>4. ASSUME NEW x \in Rows, CorrectReading(x) \/ \E qc \in {"PASSED", "REJECTED"} : Verdict(x, qc)
        PROVE  UNCHANGED <<binding, removed>>
    BY <2>4 DEF CorrectReading, Verdict, UnchangedDevices
  <2>5. SwitchDevice => UNCHANGED <<binding, removed>>
    BY DEF SwitchDevice
  <2>6. UNCHANGED remoteVars => UNCHANGED <<binding, removed>>
    BY DEF remoteVars
  <2> QED
    BY <2>1, <2>2, <2>3, <2>4, <2>5, <2>6 DEF RemoteNext
<1> QED
  BY <1>2, <1>3, <1>4, <1>5, <1>6

LEMMA RemoteTyped == PipelineInv /\ BindingsInv => RemoteTypeOK
<1> SUFFICES ASSUME PipelineInv, BindingsInv PROVE RemoteTypeOK
  OBVIOUS
<1>1. \A k \in Keys : event[k].status \in {"NONE", "CONFLICT"} \cup Replayable \cup Terminal
  BY DEF PipelineInv, PipelineTypes, EventRows, EventStatuses
<1>2. \A i \in Items : spot[i].status \in Open \cup {"NONE", "READ"}
  BY DEF PipelineInv, PipelineTypes, Spots
<1>3. \A x \in ReadingIds : reads[x].of < x
  BY DEF PipelineInv, ReadingsInOrder
<1>4. \A b \in Bound : /\ LifeOf(binding[b].inst).from <= binding[b].from
                       /\ binding[b].to <= LifeOf(binding[b].inst).to
  BY DEF BindingsInv, InLife
<1> QED
  BY <1>1, <1>2, <1>3, <1>4 DEF RemoteTypeOK, BindingsInv, BoundApart

-----------------------------------------------------------------------------
(* Reading plans.  A request keeps what it read (JobGood): as far as it    *)
(* relies on it, its locks keep it true until it writes, because two       *)
(* requests never hold the same lock (Clash).  The plans of a book have    *)
(* the first numbers (IdsInOrder), so that a new plan is none that exists. *)
BookRows == Books \cup {SysBook}
PlanRows == [status : PlanStatuses, kind : {"REGULAR", "SUPPLEMENT"},
             by : {"nobody", "generate", "supplement", "redistribute"}]

JoinJobs == [at : {"joining", "joined"}, books : SUBSET Books, to : Books,
             home : Homes, from : Books \cup {NoBook}]
GenerateJobs == [at : {"generate"}, books : SUBSET Books,
                 drafts : SUBSET [book : Books, homes : (SUBSET Homes) \ {{}}]]
SupplementJobs == [at : {"supplement"}, book : BookRows, home : Homes]
MoveJobs == [at : {"move"}, plan : PlanIds, homes : (SUBSET Homes) \ {{}},
             book : Books, onto : PlanIds \cup {Absent}]
EntryJobs == [at : {"entry", "flipped"}, plan : PlanIds, homes : SUBSET Homes,
              result : {"READ", "NO_READ"}]
CountedJobs == [at : {"counted"}, plan : PlanIds, homes : SUBSET Homes,
                result : {"READ", "NO_READ"}, last : BOOLEAN]
Jobs == {Free} \cup JoinJobs \cup GenerateJobs \cup SupplementJobs
          \cup MoveJobs \cup EntryJobs \cup CountedJobs

PlanTypes ==
    /\ member \in [Books -> SUBSET Homes]
    /\ plan \in [PlanIds -> PlanRows]
    /\ item \in [PlanIds -> [Homes -> ItemStatuses]]
    /\ rows \in [PlanIds -> [Homes -> Nat]]
    /\ job \in [Readers -> Jobs]

(* What request job j relies on.                                           *)
Generated(p) == plan[p].by = "generate" /\ plan[p].status \notin {"NONE", "CLOSED"}
JoinGood(j) == j.at = "joined" =>
    \A b \in Books \ {j.from} : j.home \notin member[b]
GenerateGood(j) == j.at = "generate" =>
    /\ \A b \in j.books : /\ b \notin deleted
                          /\ \E d \in j.drafts : d.book = b
    /\ \A p \in PlanIds : p[1] \in j.books => ~ Generated(p)
PlanGood(j) ==
    /\ j.at \in {"entry", "flipped", "counted"} => plan[j.plan].status # "NONE"
    /\ j.at = "move" =>
          /\ j.plan[1] # j.book
          /\ j.onto = Absent \/ (j.onto[1] = j.book /\ plan[j.onto].status # "NONE")
CountGood(j) == j.at = "counted" =>
    j.last \/ j.plan \in drained
    \/ \E a \in Homes \ j.homes : item[j.plan][a] = "PENDING"
JobsGood == \A r \in Readers : /\ JoinGood(job[r]) /\ GenerateGood(job[r])
                               /\ PlanGood(job[r]) /\ CountGood(job[r])

BookStages == {"joining", "joined", "generate"}
Clash(j, k) ==
    \/ j.at \in BookStages /\ k.at \in BookStages /\ j.books \cap k.books # {}
    \/ j.at = "joined" /\ k.at = "joined" /\ j.home = k.home
    \/ j.at = "counted" /\ k.at = "counted" /\ j.plan = k.plan
LocksApart == \A r, q \in Readers : Clash(job[r], job[q]) => r = q

OneHome == \A a \in Homes, b, c \in Books : a \in member[b] /\ a \in member[c] => b = c
IdsInOrder ==
    \A b \in BookRows : \E n \in 0 .. PlansPerBook : \A i \in 1 .. PlansPerBook :
        plan[<<b, i>>].status # "NONE" <=> i <= n
BlankUntilMade ==
    \A p \in PlanIds, a \in Homes :
        plan[p].status = "NONE" => rows[p][a] = 0 /\ item[p][a] = "NONE"
GeneratedOnce ==
    \A p, q \in PlanIds :
        Generated(p) /\ Generated(q) /\ p[1] = q[1] =>
            p = q /\ p[1] \notin deleted
PlanInv == /\ PlanTypes /\ JobsGood /\ LocksApart /\ OneHome
           /\ IdsInOrder /\ BlankUntilMade /\ GeneratedOnce
           /\ ReadingKeepsItsItem /\ CompletedPlanIsFinished

LEMMA FirstIds ==
  ASSUME NEW b, NEW n \in Nat
  PROVE  /\ IsFiniteSet({<<b, i>> : i \in 1 .. n})
         /\ Cardinality({<<b, i>> : i \in 1 .. n}) = n
<1> DEFINE T == {<<b, i>> : i \in 1 .. n}
           f == [i \in 1 .. n |-> <<b, i>>]
<1>1. f \in [1 .. n -> T] /\ \A i, j \in 1 .. n : f[i] = f[j] => i = j
  OBVIOUS
<1>2. \A t \in T : \E i \in 1 .. n : f[i] = t
  OBVIOUS
<1>3. ExistsBijection(1 .. n, T)
  <2> HIDE DEF f, T
  <2> QED BY <1>1, <1>2 DEF ExistsBijection, Bijection, Injection, Surjection, IsInjective
<1>4. IsFiniteSet(1 .. n) /\ Cardinality(1 .. n) = n
  BY FS_Interval
<1> QED BY <1>3, <1>4, FS_Bijection

LEMMA PlansCounted ==
  ASSUME PlanTypes, IdsInOrder, NEW b \in BookRows
  PROVE  /\ Cardinality(Existing(b)) \in 0 .. PlansPerBook
         /\ \A i \in 1 .. PlansPerBook :
              plan[<<b, i>>].status # "NONE" <=> i <= Cardinality(Existing(b))
<1>1. PICK n \in 0 .. PlansPerBook : \A i \in 1 .. PlansPerBook :
             plan[<<b, i>>].status # "NONE" <=> i <= n
  BY DEF IdsInOrder
<1>2. Existing(b) = {<<b, i>> : i \in 1 .. n}
  <2>1. ASSUME NEW p \in Existing(b) PROVE \E i \in 1 .. n : p = <<b, i>>
    <3>1. PICK i \in 1 .. PlansPerBook : p = <<b, i>>
      BY <2>1 DEF Existing, PlanIds
    <3> QED BY <1>1, <2>1, <3>1, PlansAssumption DEF Existing
  <2>2. ASSUME NEW i \in 1 .. n PROVE <<b, i>> \in Existing(b)
    <3>1. i \in 1 .. PlansPerBook
      BY PlansAssumption
    <3> QED BY <1>1, <3>1 DEF Existing, PlanIds, BookRows
  <2> QED BY <2>1, <2>2
<1>3. n \in Nat
  BY PlansAssumption
<1> QED BY <1>1, <1>2, <1>3, FirstIds

LEMMA NextIsNew ==
  ASSUME PlanTypes, IdsInOrder, NEW b \in BookRows, HasRoom(b)
  PROVE  /\ NextId(b) \in PlanIds /\ NextId(b)[1] = b
         /\ plan[NextId(b)].status = "NONE"
<1>1. Cardinality(Existing(b)) + 1 \in 1 .. PlansPerBook
  BY PlansCounted, PlansAssumption DEF HasRoom
<1> QED
  BY <1>1, PlansCounted, PlansAssumption DEF NextId, PlanIds, BookRows

(* The numbers stay in order when the plans made are each the next one.    *)
LEMMA OrderKept ==
  ASSUME PlanTypes, IdsInOrder, NEW B \in SUBSET BookRows,
         \A b \in B : HasRoom(b), plan' \in [PlanIds -> PlanRows],
         \A p \in PlanIds : plan'[p].status = "NONE" <=>
            plan[p].status = "NONE" /\ p \notin {NextId(b) : b \in B}
  PROVE  IdsInOrder'
<1> SUFFICES ASSUME NEW b \in BookRows
             PROVE  \E n \in 0 .. PlansPerBook : \A i \in 1 .. PlansPerBook :
                       plan'[<<b, i>>].status # "NONE" <=> i <= n
  BY DEF IdsInOrder, BookRows
<1> DEFINE n == Cardinality(Existing(b))
<1>1. /\ n \in 0 .. PlansPerBook
      /\ \A i \in 1 .. PlansPerBook : plan[<<b, i>>].status # "NONE" <=> i <= n
  BY PlansCounted
<1>2. \A i \in 1 .. PlansPerBook : <<b, i>> \in PlanIds
  BY DEF PlanIds, BookRows
<1>3. \A i \in 1 .. PlansPerBook :
         <<b, i>> \in {NextId(c) : c \in B} <=> b \in B /\ i = n + 1
  BY DEF NextId
<1> HIDE DEF n
<1>4. CASE b \in B
  <2>1. n + 1 \in 0 .. PlansPerBook
    BY <1>1, <1>4, PlansAssumption DEF HasRoom, n
  <2>2. \A i \in 1 .. PlansPerBook : plan'[<<b, i>>].status # "NONE" <=> i <= n + 1
    BY <1>1, <1>2, <1>3, <1>4, PlansAssumption
  <2> QED BY <2>1, <2>2
<1>5. CASE b \notin B
  <2>1. \A i \in 1 .. PlansPerBook : plan'[<<b, i>>].status # "NONE" <=> i <= n
    BY <1>1, <1>2, <1>3, <1>5
  <2> QED BY <1>1, <2>1
<1> QED BY <1>4, <1>5


LEMMA PlanInitHolds == PlanInit => PlanInv
<1> SUFFICES ASSUME PlanInit PROVE PlanInv
  OBVIOUS
<1>1. PICK c \in Books \cup {NoBook} :
           member = [b \in Books |-> IF b = c THEN Homes ELSE {}]
  BY DEF PlanInit
<1>2. /\ plan = [p \in PlanIds |-> NoPlan] /\ item = [p \in PlanIds |-> NoItems]
      /\ rows = [p \in PlanIds |-> [a \in Homes |-> 0]]
      /\ job = [r \in Readers |-> Free]
  BY DEF PlanInit
<1>3. \A p \in PlanIds : plan[p] = NoPlan /\ item[p] = NoItems
  BY <1>2
<1>4. \A r \in Readers : job[r] = Free
  BY <1>2
<1>5. PlanTypes
  <2>1. NoPlan \in PlanRows /\ NoItems \in [Homes -> ItemStatuses] /\ Free \in Jobs
    BY DEF NoPlan, PlanRows, PlanStatuses, NoItems, ItemStatuses, Jobs
  <2> QED BY <1>1, <1>2, <2>1 DEF PlanTypes
<1>6. JobsGood /\ LocksApart
  BY <1>4 DEF JobsGood, JoinGood, GenerateGood, PlanGood, CountGood, LocksApart,
              Clash, BookStages, Free
<1>7. OneHome
  BY <1>1 DEF OneHome
<1>8. IdsInOrder
  <2>1. \A b \in BookRows, i \in 1 .. PlansPerBook : plan[<<b, i>>].status = "NONE"
    BY <1>2 DEF NoPlan, PlanIds, BookRows
  <2>2. 0 \in 0 .. PlansPerBook /\ \A i \in 1 .. PlansPerBook : ~ i <= 0
    BY PlansAssumption
  <2> QED BY <2>1, <2>2 DEF IdsInOrder
<1>9. \A p \in PlanIds : /\ plan[p].status = "NONE"
                         /\ \A a \in Homes : rows[p][a] = 0 /\ item[p][a] = "NONE"
  BY <1>2 DEF NoPlan, NoItems
<1>10. BlankUntilMade /\ GeneratedOnce /\ ReadingKeepsItsItem /\ CompletedPlanIsFinished
  BY <1>9 DEF BlankUntilMade, GeneratedOnce, Generated, ReadingKeepsItsItem,
              CompletedPlanIsFinished, Live
<1> QED BY <1>5, <1>6, <1>7, <1>8, <1>10 DEF PlanInv

(* A request goes on, or ends, and nothing else changes.                   *)
LEMMA StageKeeps ==
  ASSUME PlanInv, NEW r \in Readers, NEW x \in Jobs, Advance(r, x),
         UnchangedPlans, UnchangedBooks,
         JoinGood(x), GenerateGood(x), PlanGood(x), CountGood(x),
         \A q \in Readers \ {r} : ~ Clash(x, job[q]) /\ ~ Clash(job[q], x)
  PROVE  PlanInv'
<1>1. /\ job' \in [Readers -> Jobs] /\ job'[r] = x
      /\ \A q \in Readers \ {r} : job'[q] = job[q]
  BY DEF Advance, PlanInv, PlanTypes
<1>2. UNCHANGED <<member, deleted, plan, item, rows, drained>>
  BY DEF UnchangedPlans, UnchangedBooks
<1>3. PlanTypes' /\ OneHome' /\ IdsInOrder' /\ BlankUntilMade' /\ GeneratedOnce'
      /\ ReadingKeepsItsItem' /\ CompletedPlanIsFinished'
  BY <1>1, <1>2
  DEF PlanInv, PlanTypes, OneHome, IdsInOrder, BlankUntilMade, GeneratedOnce,
      Generated, ReadingKeepsItsItem, CompletedPlanIsFinished, With
<1>4. ASSUME NEW q \in Readers
      PROVE  /\ JoinGood(job[q])' /\ GenerateGood(job[q])'
             /\ PlanGood(job[q])' /\ CountGood(job[q])'
  <2>1. JoinGood(job'[q]) /\ GenerateGood(job'[q]) /\ PlanGood(job'[q])
        /\ CountGood(job'[q])
    BY <1>1 DEF PlanInv, JobsGood
  <2> QED
    BY <1>2, <2>1 DEF JoinGood, GenerateGood, PlanGood, CountGood, Generated
<1>5. LocksApart'
  <2>1. \A q, s \in Readers : Clash(job'[q], job'[s]) => q = s
    BY <1>1 DEF PlanInv, LocksApart
  <2> QED BY <2>1 DEF LocksApart, Clash
<1> QED BY <1>3, <1>4, <1>5 DEF PlanInv, JobsGood

LEMMA FreeIsGood ==
  /\ Free \in Jobs /\ JoinGood(Free) /\ GenerateGood(Free) /\ PlanGood(Free)
  /\ CountGood(Free) /\ \A j : ~ Clash(Free, j) /\ ~ Clash(j, Free)
BY DEF Jobs, JoinGood, GenerateGood, PlanGood, CountGood, Clash, BookStages, Free

(* Of a job at stage "at", what it is.                                     *)
LEMMA JobKinds ==
  ASSUME NEW j \in Jobs
  PROVE  /\ j.at \in {"joining", "joined"} => j \in JoinJobs
         /\ j.at = "generate" => j \in GenerateJobs
         /\ j.at = "supplement" => j \in SupplementJobs
         /\ j.at = "move" => j \in MoveJobs
         /\ j.at \in {"entry", "flipped"} => j \in EntryJobs
         /\ j.at = "counted" => j \in CountedJobs
BY DEF Jobs, Free, JoinJobs, GenerateJobs, SupplementJobs, MoveJobs, EntryJobs,
       CountedJobs

LEMMA ReadingStages ==
  ASSUME PlanInv, NEW r \in Readers,
         \/ \E b \in Books, a \in Homes : StartJoin(r, b, a)
         \/ CheckJoin(r)
         \/ \E b \in Books : Generate(r, b)
         \/ \E a \in Homes : StartSupplement(r, a)
         \/ \E b, c \in Books : StartRedistribute(r, b, c)
         \/ \E p \in PlanIds, h \in (SUBSET Homes) \ {{}} : StartEntry(r, p, h)
         \/ Flip(r) \/ CountPending(r) \/ Abort(r)
  PROVE  PlanInv'
<1>0. /\ \A q \in Readers : job[q] \in Jobs
      /\ \A q \in Readers : /\ JoinGood(job[q]) /\ GenerateGood(job[q])
                            /\ PlanGood(job[q]) /\ CountGood(job[q])
      /\ \A p, q \in Readers : Clash(job[p], job[q]) => p = q
  BY DEF PlanInv, PlanTypes, JobsGood, LocksApart
<1>1. ASSUME NEW b \in Books, NEW a \in Homes, StartJoin(r, b, a) PROVE PlanInv'
  <2>1. PICK from \in {NoBook} \cup {c \in Books \ {b} : a \in member[c]} :
             Advance(r, [at |-> "joining", books |-> {b}, to |-> b, home |-> a,
                         from |-> from])
    BY <1>1 DEF StartJoin
  <2> DEFINE x == [at |-> "joining", books |-> {b}, to |-> b, home |-> a,
                   from |-> from]
  <2>2. x \in Jobs
    BY DEF Jobs, JoinJobs
  <2>3. JoinGood(x) /\ GenerateGood(x) /\ PlanGood(x) /\ CountGood(x)
    BY DEF JoinGood, GenerateGood, PlanGood, CountGood
  <2>4. \A q \in Readers \ {r} : ~ Clash(x, job[q]) /\ ~ Clash(job[q], x)
    BY <1>1 DEF StartJoin, BookFree, HoldsBook, Clash, BookStages
  <2>5. Advance(r, x) /\ UnchangedPlans /\ UnchangedBooks
    BY <1>1, <2>1 DEF StartJoin
  <2> HIDE DEF x
  <2> QED BY <2>2, <2>3, <2>4, <2>5, StageKeeps
<1>2. CASE CheckJoin(r)
  <2> DEFINE j == job[r]
             x == [j EXCEPT !.at = "joined"]
  <2>1. /\ j.at = "joining" /\ j \in JoinJobs
        /\ Advance(r, x) /\ UnchangedPlans /\ UnchangedBooks
    BY <1>0, <1>2, JobKinds DEF CheckJoin
  <2>2. /\ x.at = "joined" /\ x.books = j.books /\ x.home = j.home /\ x.from = j.from
        /\ x \in JoinJobs
    BY <2>1 DEF JoinJobs
  <2>3. \A b \in Books \ {j.from} : j.home \notin member[b]
    BY <1>2 DEF CheckJoin
  <2>4. \A q \in Readers \ {r} : job[q].at = "joined" => job[q].home # j.home
    BY <1>2 DEF CheckJoin, HomeFree, HoldsHome
  <2>5. \A q \in Readers \ {r} : ~ Clash(j, job[q]) /\ ~ Clash(job[q], j)
    BY <1>0
  <2> HIDE DEF x, j
  <2>6. JoinGood(x) /\ GenerateGood(x) /\ PlanGood(x) /\ CountGood(x)
    BY <2>2, <2>3 DEF JoinGood, GenerateGood, PlanGood, CountGood
  <2>7. \A q \in Readers \ {r} : ~ Clash(x, job[q]) /\ ~ Clash(job[q], x)
    BY <2>1, <2>2, <2>4, <2>5 DEF Clash, BookStages
  <2> QED BY <2>1, <2>2, <2>6, <2>7, StageKeeps DEF Jobs
<1>3. ASSUME NEW b \in Books, Generate(r, b) PROVE PlanInv'
  <2> DEFINE j == job[r]
             draft == [book |-> b, homes |-> member[b]]
             x == IF j = Free
                  THEN [at |-> "generate", books |-> {b}, drafts |-> {draft}]
                  ELSE [j EXCEPT !.books = @ \cup {b}, !.drafts = @ \cup {draft}]
             old == IF j = Free THEN {} ELSE j.books
             pile == IF j = Free THEN {} ELSE j.drafts
  <2>1. /\ j = Free \/ j.at = "generate"
        /\ Advance(r, x) /\ UnchangedPlans /\ UnchangedBooks
        /\ b \notin deleted /\ NotClosed(b) = {} /\ member[b] # {}
        /\ \A q \in Readers \ {r} : ~ HoldsBook(q, b)
    BY <1>3 DEF Generate, CanGenerate, BookFree
  <2>2. old \in SUBSET Books
        /\ pile \in SUBSET [book : Books, homes : (SUBSET Homes) \ {{}}]
    BY <1>0, <2>1, JobKinds DEF GenerateJobs
  <2>3. x = [at |-> "generate", books |-> old \cup {b}, drafts |-> pile \cup {draft}]
    <3>1. CASE j = Free
      BY <3>1
    <3>2. CASE j # Free
      BY <1>0, <2>1, <3>2, JobKinds DEF GenerateJobs
    <3> QED BY <3>1, <3>2
  <2>4. draft \in [book : Books, homes : (SUBSET Homes) \ {{}}]
    BY <2>1 DEF PlanInv, PlanTypes
  <2>5. x \in Jobs
    <3> HIDE DEF draft, old, pile, x
    <3> QED BY <2>2, <2>3, <2>4 DEF Jobs, GenerateJobs
  <2>6. GenerateGood(x)
    <3>1. \A p \in PlanIds : p[1] = b => ~ Generated(p)
      BY <2>1 DEF NotClosed, Existing, Generated
    <3>2. j # Free => GenerateGood(j) /\ j.at = "generate"
      BY <1>0, <2>1
    <3>3. \A c \in old : /\ c \notin deleted /\ \E d \in pile : d.book = c
                         /\ \A p \in PlanIds : p[1] = c => ~ Generated(p)
      BY <3>2 DEF GenerateGood
    <3>4. draft.book = b
      OBVIOUS
    <3> HIDE DEF draft, old, pile, x
    <3> QED BY <2>1, <2>3, <3>1, <3>3, <3>4 DEF GenerateGood
  <2>7. JoinGood(x) /\ PlanGood(x) /\ CountGood(x)
    BY <2>3 DEF JoinGood, PlanGood, CountGood
  <2>8. ASSUME NEW q \in Readers \ {r}
        PROVE  ~ Clash(x, job[q]) /\ ~ Clash(job[q], x)
    <3>1. job[q].at \in BookStages => b \notin job[q].books
      BY <2>1 DEF HoldsBook, BookStages
    <3>2. job[q].at \in BookStages => old \cap job[q].books = {}
      BY <1>0, <2>1 DEF Clash, BookStages
    <3> HIDE DEF x, old
    <3> QED BY <2>3, <3>1, <3>2 DEF Clash, BookStages
  <2> HIDE DEF x
  <2> QED BY <2>1, <2>5, <2>6, <2>7, <2>8, StageKeeps
<1>4. ASSUME NEW a \in Homes, StartSupplement(r, a) PROVE PlanInv'
  <2>1. PICK b \in IF OwnBooks(a) = {} THEN {SysBook} ELSE OwnBooks(a) :
             Advance(r, [at |-> "supplement", book |-> b, home |-> a])
    BY <1>4 DEF StartSupplement
  <2> DEFINE x == [at |-> "supplement", book |-> b, home |-> a]
  <2>2. x \in Jobs
    BY <2>1 DEF Jobs, SupplementJobs, BookRows, OwnBooks
  <2>3. JoinGood(x) /\ GenerateGood(x) /\ PlanGood(x) /\ CountGood(x)
        /\ \A j : ~ Clash(x, j) /\ ~ Clash(j, x)
    BY DEF JoinGood, GenerateGood, PlanGood, CountGood, Clash, BookStages
  <2>4. Advance(r, x) /\ UnchangedPlans /\ UnchangedBooks
    BY <1>4, <2>1 DEF StartSupplement
  <2> HIDE DEF x
  <2> QED BY <2>2, <2>3, <2>4, StageKeeps
<1>5. ASSUME NEW src \in Books, NEW tgt \in Books, StartRedistribute(r, src, tgt)
      PROVE  PlanInv'
  <2>1. PICK p \in LiveOf(src),
             q \in IF LiveOf(tgt) = {} THEN {Absent} ELSE LiveOf(tgt) :
             /\ With(p, "PENDING") # {}
             /\ Advance(r, [at |-> "move", plan |-> p, homes |-> With(p, "PENDING"),
                            book |-> tgt, onto |-> q])
    BY <1>5 DEF StartRedistribute
  <2> DEFINE x == [at |-> "move", plan |-> p, homes |-> With(p, "PENDING"),
                   book |-> tgt, onto |-> q]
  <2>2. p \in PlanIds /\ With(p, "PENDING") \in (SUBSET Homes) \ {{}}
        /\ (q = Absent \/ (q \in PlanIds /\ q[1] = tgt /\ plan[q].status # "NONE"))
        /\ p[1] = src /\ src # tgt
    BY <1>5, <2>1 DEF StartRedistribute, LiveOf, Existing, With
  <2>3. x \in Jobs
    BY <2>2 DEF Jobs, MoveJobs
  <2>4. JoinGood(x) /\ GenerateGood(x) /\ PlanGood(x) /\ CountGood(x)
        /\ \A j : ~ Clash(x, j) /\ ~ Clash(j, x)
    BY <2>2 DEF JoinGood, GenerateGood, PlanGood, CountGood, Clash, BookStages
  <2>5. Advance(r, x) /\ UnchangedPlans /\ UnchangedBooks
    BY <1>5, <2>1 DEF StartRedistribute
  <2> HIDE DEF x
  <2> QED BY <2>3, <2>4, <2>5, StageKeeps
<1>6. ASSUME NEW p \in PlanIds, NEW h \in (SUBSET Homes) \ {{}}, StartEntry(r, p, h)
      PROVE  PlanInv'
  <2>1. PICK result \in {"READ", "NO_READ"} :
             Advance(r, [at |-> "entry", plan |-> p, homes |-> h, result |-> result])
    BY <1>6 DEF StartEntry
  <2> DEFINE x == [at |-> "entry", plan |-> p, homes |-> h, result |-> result]
  <2>2. x \in Jobs
    BY DEF Jobs, EntryJobs
  <2>3. JoinGood(x) /\ GenerateGood(x) /\ PlanGood(x) /\ CountGood(x)
        /\ \A j : ~ Clash(x, j) /\ ~ Clash(j, x)
    BY <1>6 DEF StartEntry, Live, JoinGood, GenerateGood, PlanGood, CountGood, Clash,
                BookStages
  <2>4. Advance(r, x) /\ UnchangedPlans /\ UnchangedBooks
    BY <1>6, <2>1 DEF StartEntry
  <2> HIDE DEF x
  <2> QED BY <2>2, <2>3, <2>4, StageKeeps
<1>7. CASE Flip(r)
  <2> DEFINE j == job[r]
             x == [j EXCEPT !.at = "flipped"]
  <2>1. /\ j.at = "entry" /\ j \in EntryJobs /\ PlanGood(j)
        /\ Advance(r, x) /\ UnchangedPlans /\ UnchangedBooks
    BY <1>0, <1>7, JobKinds DEF Flip
  <2>2. x \in EntryJobs /\ x.at = "flipped" /\ x.plan = j.plan
    BY <2>1 DEF EntryJobs
  <2> HIDE DEF x, j
  <2>3. JoinGood(x) /\ GenerateGood(x) /\ PlanGood(x) /\ CountGood(x)
        /\ \A k : ~ Clash(x, k) /\ ~ Clash(k, x)
    BY <2>1, <2>2 DEF JoinGood, GenerateGood, PlanGood, CountGood, Clash, BookStages
  <2> QED BY <2>1, <2>2, <2>3, StageKeeps DEF Jobs
<1>8. CASE CountPending(r)
  <2> DEFINE j == job[r]
             x == [at |-> "counted", plan |-> j.plan, homes |-> j.homes,
                   result |-> j.result, last |-> LastOf(r)]
  <2>1. /\ j.at = "flipped" /\ j \in EntryJobs /\ PlanGood(j)
        /\ Advance(r, x) /\ UnchangedPlans /\ UnchangedBooks
        /\ \A q \in Readers \ {r} : ~ HoldsPlan(q, j.plan)
    BY <1>0, <1>8, JobKinds DEF CountPending, PlanFree
  <2>2. x \in Jobs
    BY <2>1 DEF Jobs, CountedJobs, EntryJobs, LastOf
  <2>3. JoinGood(x) /\ GenerateGood(x) /\ PlanGood(x)
    BY <2>1 DEF JoinGood, GenerateGood, PlanGood
  <2>4. CountGood(x)
    BY DEF CountGood, LastOf, With
  <2>5. \A q \in Readers \ {r} : ~ Clash(x, job[q]) /\ ~ Clash(job[q], x)
    BY <2>1 DEF HoldsPlan, Clash, BookStages
  <2> HIDE DEF x
  <2> QED BY <2>1, <2>2, <2>3, <2>4, <2>5, StageKeeps
<1>9. CASE Abort(r)
  BY <1>9, FreeIsGood, StageKeeps DEF Abort, Finish
<1> QED BY <1>1, <1>2, <1>3, <1>4, <1>5, <1>6, <1>7, <1>8, <1>9


(* The requests in R go on as they were, the others are over.              *)
GoOn(R) == /\ job' \in [Readers -> Jobs]
           /\ \A q \in R : job'[q] = job[q]
           /\ \A q \in Readers \ R : job'[q] = Free

LEMMA SomeGoOn ==
  ASSUME PlanInv
  PROVE  /\ \A r \in Readers : Finish(r) => GoOn(Readers \ {r})
         /\ UNCHANGED job => GoOn(Readers)
<1>1. job \in [Readers -> Jobs] /\ Free \in Jobs
  BY FreeIsGood DEF PlanInv, PlanTypes
<1>2. ASSUME NEW r \in Readers, Finish(r) PROVE GoOn(Readers \ {r})
  BY <1>1, <1>2 DEF Finish, Advance, GoOn
<1>3. UNCHANGED job => GoOn(Readers)
  BY <1>1 DEF GoOn
<1> QED BY <1>2, <1>3

LEMMA LocksStayApart ==
  ASSUME PlanInv, NEW R \in SUBSET Readers, GoOn(R)
  PROVE  LocksApart'
<1>1. \A q, s \in Readers : Clash(job'[q], job'[s]) => q = s
  BY FreeIsGood DEF GoOn, PlanInv, LocksApart
<1> QED BY <1>1 DEF LocksApart, Clash

(* Whatever the plans become, as long as none goes away, no generation     *)
(* appears in a locked book, and no plan that is being counted loses what  *)
(* is PENDING but by a redistribution.                                     *)
LEMMA JobsStayGood ==
  ASSUME PlanInv, NEW R \in SUBSET Readers, GoOn(R), UNCHANGED <<member, deleted>>,
         \A p \in PlanIds : plan[p].status # "NONE" => plan'[p].status # "NONE",
         \A p \in PlanIds : Generated(p)' => Generated(p)
            \/ \A q \in R : job[q].at = "generate" => p[1] \notin job[q].books,
         drained \subseteq drained',
         \A q \in R : job[q].at = "counted" =>
            \/ job[q].plan \in drained'
            \/ \A a \in Homes \ job[q].homes :
                  item[job[q].plan][a] = "PENDING" => item'[job[q].plan][a] = "PENDING"
  PROVE  JobsGood'
<1> SUFFICES ASSUME NEW q \in Readers
             PROVE  /\ JoinGood(job[q])' /\ GenerateGood(job[q])'
                    /\ PlanGood(job[q])' /\ CountGood(job[q])'
  BY DEF JobsGood
<1>1. CASE q \notin R
  BY <1>1 DEF GoOn, Free, JoinGood, GenerateGood, PlanGood, CountGood
<1>2. CASE q \in R
  <2>1. /\ job'[q] = job[q] /\ job[q] \in Jobs
        /\ JoinGood(job[q]) /\ GenerateGood(job[q])
        /\ PlanGood(job[q]) /\ CountGood(job[q])
    BY <1>2 DEF GoOn, PlanInv, PlanTypes, JobsGood
  <2>2. JoinGood(job[q])'
    BY <2>1 DEF JoinGood
  <2>3. GenerateGood(job[q])'
    BY <1>2, <2>1 DEF GenerateGood
  <2>4. PlanGood(job[q])'
    BY <2>1, JobKinds DEF PlanGood, EntryJobs, CountedJobs, MoveJobs
  <2>5. CountGood(job[q])'
    BY <1>2, <2>1 DEF CountGood
  <2> QED BY <2>2, <2>3, <2>4, <2>5
<1> QED BY <1>1, <1>2

(* Changes of the membership: the plans stay.                              *)
LEMMA MembersKeep ==
  ASSUME PlanInv, NEW R \in SUBSET Readers, GoOn(R), UnchangedPlans,
         member' \in [Books -> SUBSET Homes], OneHome',
         deleted \subseteq deleted',
         \A q \in R : /\ JoinGood(job[q])'
                      /\ job[q].at = "generate" =>
                            \A b \in job[q].books : b \in deleted' => b \in deleted,
         \A p \in PlanIds : Generated(p) /\ p[1] \in deleted' => p[1] \in deleted
  PROVE  PlanInv'
<1>1. UNCHANGED <<plan, item, rows, drained>>
  BY DEF UnchangedPlans
<1>2. PlanTypes' /\ IdsInOrder' /\ BlankUntilMade'
      /\ ReadingKeepsItsItem' /\ CompletedPlanIsFinished'
  <2>1. PlanTypes'
    BY <1>1 DEF GoOn, PlanInv, PlanTypes
  <2>2. IdsInOrder' /\ BlankUntilMade'
    BY <1>1 DEF PlanInv, IdsInOrder, BlankUntilMade
  <2>3. ReadingKeepsItsItem' /\ CompletedPlanIsFinished'
    BY <1>1 DEF PlanInv, ReadingKeepsItsItem, CompletedPlanIsFinished, With
  <2> QED BY <2>1, <2>2, <2>3
<1>3. GeneratedOnce'
  <2>1. \A p \in PlanIds : Generated(p)' <=> Generated(p)
    BY <1>1 DEF Generated
  <2> QED BY <2>1 DEF PlanInv, GeneratedOnce
<1>4. JobsGood'
  <2> SUFFICES ASSUME NEW q \in Readers
               PROVE  /\ JoinGood(job[q])' /\ GenerateGood(job[q])'
                      /\ PlanGood(job[q])' /\ CountGood(job[q])'
    BY DEF JobsGood
  <2>1. CASE q \notin R
    BY <2>1 DEF GoOn, Free, JoinGood, GenerateGood, PlanGood, CountGood
  <2>2. CASE q \in R
    <3>1. /\ job'[q] = job[q] /\ GenerateGood(job[q])
          /\ PlanGood(job[q]) /\ CountGood(job[q])
      BY <2>2 DEF GoOn, PlanInv, JobsGood
    <3>2. GenerateGood(job[q])' /\ PlanGood(job[q])' /\ CountGood(job[q])'
      BY <1>1, <2>2, <3>1 DEF GenerateGood, Generated, PlanGood, CountGood
    <3> QED BY <2>2, <3>2
  <2> QED BY <2>1, <2>2
<1> QED BY <1>2, <1>3, <1>4, LocksStayApart DEF PlanInv

LEMMA CommitJoinKeeps ==
  ASSUME PlanInv, NEW r \in Readers, CommitJoin(r)
  PROVE  PlanInv'
<1> DEFINE j == job[r]
           h == j.home
<1>1. /\ j.at = "joined" /\ j \in JoinJobs /\ JoinGood(j)
      /\ UnchangedPlans /\ UNCHANGED deleted /\ GoOn(Readers \ {r})
      /\ member' = [b \in Books |->
                      IF b = j.to THEN member[b] \cup {h}
                      ELSE IF b = j.from THEN member[b] \ {h} ELSE member[b]]
  BY JobKinds, SomeGoOn DEF CommitJoin, PlanInv, PlanTypes, JobsGood
<1>2. member \in [Books -> SUBSET Homes] /\ h \in Homes /\ j.to \in Books
  BY <1>1 DEF PlanInv, PlanTypes, JoinJobs
<1>3. \A b \in Books \ {j.from} : h \notin member[b]
  BY <1>1 DEF JoinGood
<1>4. \A b \in Books : /\ h \in member'[b] => b = j.to
                       /\ \A a \in Homes \ {h} : a \in member'[b] <=> a \in member[b]
  <2> HIDE DEF h, j
  <2> QED BY <1>1, <1>2, <1>3 DEF h, j
<1>5. member' \in [Books -> SUBSET Homes]
  BY <1>1, <1>2
<1>6. OneHome'
  <2> HIDE DEF h, j
  <2> QED BY <1>4 DEF OneHome, PlanInv
<1>7. ASSUME NEW q \in Readers \ {r} PROVE JoinGood(job[q])'
  <2>1. job'[q] = job[q] /\ JoinGood(job[q]) /\ job[q] \in Jobs
    BY <1>1 DEF GoOn, PlanInv, JobsGood, PlanTypes
  <2>2. job[q].at = "joined" => job[q].home \in Homes \ {h}
    BY <1>1, <2>1, JobKinds DEF PlanInv, LocksApart, Clash, JoinJobs
  <2> HIDE DEF h, j
  <2> QED BY <1>4, <2>1, <2>2 DEF JoinGood
<1> QED BY <1>1, <1>5, <1>6, <1>7, MembersKeep

LEMMA MembershipStep ==
  ASSUME PlanInv, \/ \E r \in Readers : CommitJoin(r)
                  \/ \E b \in Books, a \in Homes : RemoveMember(b, a)
                  \/ \E b \in Books : DeleteBook(b)
  PROVE  PlanInv'
<1>0. member \in [Books -> SUBSET Homes] /\ \A q \in Readers : JoinGood(job[q])
  BY DEF PlanInv, PlanTypes, JobsGood
<1>1. ASSUME NEW b \in Books, NEW a \in Homes, RemoveMember(b, a) PROVE PlanInv'
  <2>1. /\ member' = [member EXCEPT ![b] = @ \ {a}] /\ GoOn(Readers)
        /\ UnchangedPlans /\ UNCHANGED <<deleted, job>>
    BY <1>1, SomeGoOn DEF RemoveMember
  <2>2. member' \in [Books -> SUBSET Homes] /\ \A c \in Books : member'[c] \subseteq member[c]
    BY <1>0, <2>1
  <2>3. OneHome' /\ \A q \in Readers : JoinGood(job[q])'
    BY <1>0, <2>1, <2>2 DEF OneHome, PlanInv, JoinGood
  <2> QED BY <2>1, <2>2, <2>3, MembersKeep
<1>2. ASSUME NEW b \in Books, DeleteBook(b) PROVE PlanInv'
  <2>1. /\ member' = [member EXCEPT ![b] = {}] /\ deleted' = deleted \cup {b}
        /\ UnchangedPlans /\ UNCHANGED job /\ GoOn(Readers)
        /\ Existing(b) = {} /\ \A r \in Readers : ~ HoldsBook(r, b)
    BY <1>2, SomeGoOn DEF DeleteBook
  <2>2. member' \in [Books -> SUBSET Homes] /\ \A c \in Books : member'[c] \subseteq member[c]
    BY <1>0, <2>1
  <2>3. OneHome' /\ \A q \in Readers : JoinGood(job[q])'
    BY <1>0, <2>1, <2>2 DEF OneHome, PlanInv, JoinGood
  <2>4. \A q \in Readers : job[q].at = "generate" => b \notin job[q].books
    BY <2>1 DEF HoldsBook
  <2>5. \A p \in PlanIds : Generated(p) => p[1] # b
    BY <2>1 DEF Existing, Generated
  <2> QED BY <2>1, <2>2, <2>3, <2>4, <2>5, MembersKeep
<1> QED BY <1>1, <1>2, CommitJoinKeeps


LEMMA CommitGenerateKeeps ==
  ASSUME PlanInv, NEW r \in Readers, CommitGenerate(r)
  PROVE  PlanInv'
<1> DEFINE j == job[r]
           New == {NextId(b) : b \in j.books}
           made == [p \in New |-> (CHOOSE d \in j.drafts : d.book = p[1]).homes]
           fresh == [status |-> "OPEN", kind |-> "REGULAR", by |-> "generate"]
<1>1. /\ j.at = "generate" /\ j \in GenerateJobs /\ GenerateGood(j)
      /\ \A b \in j.books : HasRoom(b)
      /\ plan' = [p \in PlanIds |-> IF p \in New THEN fresh ELSE plan[p]]
      /\ item' = [p \in PlanIds |->
                    IF p \in New
                    THEN [a \in Homes |-> IF a \in made[p] THEN "PENDING" ELSE "NONE"]
                    ELSE item[p]]
      /\ UNCHANGED <<rows, drained, member, deleted>> /\ GoOn(Readers \ {r})
  BY JobKinds, SomeGoOn
  DEF CommitGenerate, UnchangedBooks, PlanInv, PlanTypes, JobsGood
<1>2. j.books \in SUBSET BookRows
  BY <1>1 DEF GenerateJobs, BookRows
<1>3. \A b \in j.books : /\ NextId(b) \in PlanIds /\ NextId(b)[1] = b
                         /\ plan[NextId(b)].status = "NONE"
  BY <1>1, <1>2, NextIsNew DEF PlanInv
<1>4. \A p \in New : /\ p \in PlanIds /\ p[1] \in j.books /\ p = NextId(p[1])
                     /\ plan[p].status = "NONE"
  BY <1>3
<1>5. ASSUME NEW p \in New PROVE made[p] \in (SUBSET Homes) \ {{}}
  <2> DEFINE d == CHOOSE d \in j.drafts : d.book = p[1]
  <2>1. \E d1 \in j.drafts : d1.book = p[1]
    BY <1>1, <1>4, <1>5 DEF GenerateGood
  <2>2. d \in j.drafts
    BY <2>1
  <2>3. made[p] = d.homes
    BY <1>5
  <2> HIDE DEF d, made, New, j
  <2> QED BY <1>1, <2>2, <2>3 DEF GenerateJobs
<1> HIDE DEF made, New, fresh
<1>6. fresh \in PlanRows /\ fresh.status = "OPEN" /\ fresh.by = "generate"
  BY DEF fresh, PlanRows, PlanStatuses, Live
<1>7. \A p \in PlanIds :
         /\ p \in New => plan'[p] = fresh
         /\ p \notin New => plan'[p] = plan[p] /\ item'[p] = item[p]
  BY <1>1
<1>8. \A p \in New, a \in Homes :
         item'[p][a] = IF a \in made[p] THEN "PENDING" ELSE "NONE"
  BY <1>1, <1>4
<1>9. PlanTypes'
  <2>1. plan' \in [PlanIds -> PlanRows]
    BY <1>1, <1>6 DEF PlanInv, PlanTypes
  <2>2. item' \in [PlanIds -> [Homes -> ItemStatuses]]
    BY <1>1 DEF PlanInv, PlanTypes, ItemStatuses
  <2> QED BY <1>1, <2>1, <2>2 DEF PlanInv, PlanTypes, GoOn
<1>10. IdsInOrder'
  <2>1. \A p \in PlanIds : plan'[p].status = "NONE" <=>
                             plan[p].status = "NONE" /\ p \notin New
    BY <1>6, <1>7
  <2> QED BY <1>1, <1>2, <1>9, <2>1, OrderKept DEF PlanInv, PlanTypes, New
<1>11. BlankUntilMade' /\ ReadingKeepsItsItem'
  <2>1. \A p \in New, a \in Homes : rows[p][a] = 0
    BY <1>4 DEF PlanInv, BlankUntilMade
  <2>2. BlankUntilMade'
    BY <1>1, <1>6, <1>7 DEF PlanInv, BlankUntilMade
  <2>3. ReadingKeepsItsItem'
    BY <1>1, <1>7, <1>8, <2>1 DEF PlanInv, ReadingKeepsItsItem
  <2> QED BY <2>2, <2>3
<1>12. CompletedPlanIsFinished'
  <2> SUFFICES ASSUME NEW p \in PlanIds \ drained', plan'[p].status \in Live
               PROVE  \E a \in Homes : item'[p][a] = "PENDING"
    BY DEF CompletedPlanIsFinished, With
  <2>1. CASE p \in New
    BY <1>5, <1>8, <2>1
  <2>2. CASE p \notin New
    BY <1>1, <1>7, <2>2 DEF PlanInv, CompletedPlanIsFinished, With
  <2> QED BY <2>1, <2>2
<1>13. \A p \in PlanIds : Generated(p)' <=> p \in New \/ Generated(p)
  BY <1>4, <1>6, <1>7 DEF Generated
<1>14. GeneratedOnce'
  <2>1. \A p \in PlanIds : p[1] \in j.books => ~ Generated(p) /\ p[1] \notin deleted
    BY <1>1 DEF GenerateGood
  <2> QED BY <1>1, <1>4, <1>13, <2>1 DEF PlanInv, GeneratedOnce
<1>15. JobsGood'
  <2>1. \A q \in Readers \ {r} : job[q].at = "generate" => j.books \cap job[q].books = {}
    BY <1>1 DEF PlanInv, LocksApart, Clash, BookStages
  <2>2. \A p \in PlanIds : Generated(p)' => Generated(p)
            \/ \A q \in Readers \ {r} :
                  job[q].at = "generate" => p[1] \notin job[q].books
    BY <1>4, <1>13, <2>1
  <2>3. \A p \in PlanIds : plan[p].status # "NONE" =>
                             plan'[p].status # "NONE" /\ item'[p] = item[p]
    BY <1>4, <1>7
  <2>4. \A q \in Readers \ {r} : job[q].at = "counted" =>
            \A a \in Homes \ job[q].homes :
               item[job[q].plan][a] = "PENDING" => item'[job[q].plan][a] = "PENDING"
    <3> SUFFICES ASSUME NEW q \in Readers \ {r}, job[q].at = "counted"
                 PROVE  item'[job[q].plan] = item[job[q].plan]
      OBVIOUS
    <3>1. job[q].plan \in PlanIds /\ plan[job[q].plan].status # "NONE"
      BY JobKinds DEF PlanInv, PlanTypes, JobsGood, PlanGood, CountedJobs
    <3> QED BY <2>3, <3>1
  <2> QED BY <1>1, <2>2, <2>3, <2>4, JobsStayGood
<1> QED
  BY <1>1, <1>9, <1>10, <1>11, <1>12, <1>14, <1>15, LocksStayApart
  DEF PlanInv, OneHome

LEMMA CommitSupplementKeeps ==
  ASSUME PlanInv, NEW r \in Readers, CommitSupplement(r)
  PROVE  PlanInv'
<1> DEFINE j == job[r]
           n == NextId(j.book)
           fresh == [status |-> "OPEN", kind |-> "SUPPLEMENT", by |-> "supplement"]
<1>1. /\ j.at = "supplement" /\ j \in SupplementJobs /\ HasRoom(j.book)
      /\ plan' = [plan EXCEPT ![n] = fresh]
      /\ item' = [item EXCEPT ![n][j.home] = "PENDING"]
      /\ UNCHANGED <<rows, drained, member, deleted>> /\ GoOn(Readers \ {r})
  BY JobKinds, SomeGoOn DEF CommitSupplement, UnchangedBooks, PlanInv, PlanTypes
<1>2. j.book \in BookRows /\ j.home \in Homes
  BY <1>1 DEF SupplementJobs
<1>3. n \in PlanIds /\ plan[n].status = "NONE"
  BY <1>1, <1>2, NextIsNew DEF PlanInv
<1>4. /\ plan \in [PlanIds -> PlanRows] /\ item \in [PlanIds -> [Homes -> ItemStatuses]]
      /\ \A a \in Homes : rows[n][a] = 0 /\ item[n][a] = "NONE"
  BY <1>3 DEF PlanInv, PlanTypes, BlankUntilMade
<1>5. fresh \in PlanRows /\ fresh.status = "OPEN" /\ fresh.by = "supplement"
  BY DEF PlanRows, PlanStatuses, Live
<1> HIDE DEF fresh, n
<1>6. /\ plan'[n] = fresh /\ item'[n][j.home] = "PENDING"
      /\ \A a \in Homes \ {j.home} : item'[n][a] = "NONE"
      /\ \A p \in PlanIds \ {n} : plan'[p] = plan[p] /\ item'[p] = item[p]
  BY <1>1, <1>2, <1>3, <1>4
<1>7. PlanTypes'
  <2>1. "PENDING" \in ItemStatuses
    BY DEF ItemStatuses
  <2>2. item' \in [PlanIds -> [Homes -> ItemStatuses]]
    BY <1>1, <1>2, <1>3, <1>4, <2>1
  <2> QED BY <1>1, <1>3, <1>4, <1>5, <2>2 DEF PlanInv, PlanTypes, GoOn
<1>8. IdsInOrder'
  <2>1. \A p \in PlanIds : plan'[p].status = "NONE" <=>
           plan[p].status = "NONE" /\ p \notin {NextId(b) : b \in {j.book}}
    BY <1>3, <1>5, <1>6 DEF n
  <2> QED BY <1>1, <1>2, <1>7, <2>1, OrderKept DEF PlanInv, PlanTypes
<1>9. BlankUntilMade' /\ ReadingKeepsItsItem' /\ CompletedPlanIsFinished'
  <2>1. BlankUntilMade'
    BY <1>1, <1>5, <1>6 DEF PlanInv, BlankUntilMade
  <2>2. ReadingKeepsItsItem'
    BY <1>1, <1>2, <1>4, <1>6 DEF PlanInv, ReadingKeepsItsItem
  <2>3. CompletedPlanIsFinished'
    BY <1>1, <1>2, <1>6 DEF PlanInv, CompletedPlanIsFinished, With
  <2> QED BY <2>1, <2>2, <2>3
<1>10. \A p \in PlanIds : Generated(p)' <=> Generated(p)
  BY <1>3, <1>5, <1>6 DEF Generated
<1>11. GeneratedOnce'
  BY <1>1, <1>10 DEF PlanInv, GeneratedOnce
<1>12. JobsGood'
  <2>1. \A q \in Readers \ {r} : job[q].at = "counted" =>
            \A a \in Homes \ job[q].homes :
               item[job[q].plan][a] = "PENDING" => item'[job[q].plan][a] = "PENDING"
    <3> SUFFICES ASSUME NEW q \in Readers \ {r}, job[q].at = "counted"
                 PROVE  item'[job[q].plan] = item[job[q].plan]
      OBVIOUS
    <3>1. job[q].plan \in PlanIds /\ plan[job[q].plan].status # "NONE"
      BY JobKinds DEF PlanInv, PlanTypes, JobsGood, PlanGood, CountedJobs
    <3> QED BY <1>3, <1>6, <3>1
  <2>2. \A p \in PlanIds : plan[p].status # "NONE" => plan'[p].status # "NONE"
    BY <1>5, <1>6
  <2> QED BY <1>1, <1>10, <2>1, <2>2, JobsStayGood
<1> QED
  BY <1>1, <1>7, <1>8, <1>9, <1>11, <1>12, LocksStayApart DEF PlanInv, OneHome


(* What a redistribution does to the items: those of p that it read are    *)
(* gone, and q has new PENDING ones where it had none.                     *)
LEMMA CommitRedistributeKeeps ==
  ASSUME PlanInv, NEW r \in Readers, CommitRedistribute(r)
  PROVE  PlanInv'
<1> DEFINE j == job[r]
           p == j.plan
           q == IF j.onto = Absent THEN NextId(j.book) ELSE j.onto
           fresh == [status |-> "OPEN", kind |-> "REGULAR", by |-> "redistribute"]
           left == [a \in Homes |-> IF a \in j.homes THEN "NONE" ELSE item[p][a]]
           got == [a \in Homes |-> IF a \in j.homes /\ item[q][a] = "NONE"
                                   THEN "PENDING" ELSE item[q][a]]
<1>1. /\ j.at = "move" /\ j \in MoveJobs /\ PlanGood(j)
      /\ \A a \in j.homes : item[p][a] = "PENDING"
      /\ j.onto = Absent => HasRoom(j.book)
      /\ plan' = IF j.onto = Absent THEN [plan EXCEPT ![q] = fresh] ELSE plan
      /\ drained' = drained \cup {p}
      /\ UNCHANGED <<rows, member, deleted>> /\ GoOn(Readers \ {r})
  BY JobKinds, SomeGoOn
  DEF CommitRedistribute, Movable, UnchangedBooks, PlanInv, PlanTypes, JobsGood
<1>2. /\ p \in PlanIds /\ j.homes \in (SUBSET Homes) \ {{}}
      /\ j.book \in BookRows /\ j.onto \in PlanIds \cup {Absent}
  BY <1>1 DEF MoveJobs, BookRows
<1>3. /\ plan \in [PlanIds -> PlanRows] /\ item \in [PlanIds -> [Homes -> ItemStatuses]]
  BY DEF PlanInv, PlanTypes
<1>4. /\ q \in PlanIds /\ p # q
      /\ j.onto = Absent => plan[q].status = "NONE" /\ q = NextId(j.book)
      /\ j.onto # Absent => plan[q].status # "NONE"
  BY <1>1, <1>2, NextIsNew DEF PlanInv, PlanGood
<1>5. /\ item'[p] = left /\ item'[q] = got
      /\ \A x \in PlanIds \ {p, q} : item'[x] = item[x]
      /\ item' \in [PlanIds -> [Homes -> ItemStatuses]]
  <2>1. left \in [Homes -> ItemStatuses] /\ got \in [Homes -> ItemStatuses]
    BY <1>2, <1>3, <1>4 DEF ItemStatuses
  <2>2. item' = [item EXCEPT ![p] = left, ![q] = got]
    BY <1>4 DEF CommitRedistribute
  <2> HIDE DEF left, got, p, q
  <2> QED BY <1>2, <1>3, <1>4, <2>1, <2>2
<1>6. ASSUME NEW x \in PlanIds \ {p}, NEW a \in Homes
      PROVE  \/ item'[x][a] = item[x][a] /\ (x = q /\ a \in j.homes => item[x][a] # "NONE")
             \/ /\ x = q /\ a \in j.homes /\ item[x][a] = "NONE"
                /\ item'[x][a] = "PENDING"
  <2> HIDE DEF p, q, j
  <2> QED BY <1>5, <1>6
<1>7. ASSUME NEW a \in Homes
      PROVE  \/ item'[p][a] = item[p][a]
             \/ item[p][a] = "PENDING" /\ item'[p][a] = "NONE"
  BY <1>1, <1>5
<1>8. fresh \in PlanRows /\ fresh.status = "OPEN" /\ fresh.by = "redistribute"
  BY DEF PlanRows, PlanStatuses, Live
<1>9. /\ \A x \in PlanIds \ {q} : plan'[x] = plan[x]
      /\ j.onto = Absent => plan'[q] = fresh
      /\ j.onto # Absent => plan'[q] = plan[q]
      /\ plan' \in [PlanIds -> PlanRows]
  <2> HIDE DEF fresh, q, j
  <2> QED BY <1>1, <1>3, <1>4, <1>8
<1>10. plan[p].status # "NONE"
  BY <1>1, <1>2 DEF PlanInv, BlankUntilMade
<1> HIDE DEF got, left, fresh, q, p, j
<1>11. PlanTypes'
  BY <1>1, <1>5, <1>9 DEF PlanInv, PlanTypes, GoOn
<1>12. IdsInOrder'
  <2>1. CASE j.onto = Absent
    <3>1. \A x \in PlanIds : plan'[x].status = "NONE" <=>
             plan[x].status = "NONE" /\ x \notin {NextId(b) : b \in {j.book}}
      BY <1>4, <1>8, <1>9, <2>1
    <3> QED BY ZenonT(60), <1>1, <1>2, <1>9, <2>1, <3>1, OrderKept DEF PlanInv
  <2>2. CASE j.onto # Absent
    BY <1>1, <2>2 DEF PlanInv, IdsInOrder
  <2> QED BY <2>1, <2>2
<1>13. BlankUntilMade'
  <2> SUFFICES ASSUME NEW x \in PlanIds, NEW a \in Homes, plan'[x].status = "NONE"
               PROVE  rows[x][a] = 0 /\ item'[x][a] = "NONE"
    BY <1>1 DEF BlankUntilMade
  <2>1. x # q /\ x # p /\ plan[x].status = "NONE"
    BY <1>4, <1>8, <1>9, <1>10
  <2> QED BY <1>6, <2>1 DEF PlanInv, BlankUntilMade
<1>14. ReadingKeepsItsItem'
  <2> SUFFICES ASSUME NEW x \in PlanIds, NEW a \in Homes
               PROVE  rows[x][a] > 0 <=> item'[x][a] \in {"READ", "NO_READ"}
    BY <1>1 DEF ReadingKeepsItsItem
  <2>1. rows[x][a] > 0 <=> item[x][a] \in {"READ", "NO_READ"}
    BY DEF PlanInv, ReadingKeepsItsItem
  <2>2. CASE x = p
    BY <1>7, <2>1, <2>2
  <2>3. CASE x # p
    BY <1>6, <2>1, <2>3
  <2> QED BY <2>2, <2>3
<1>15. CompletedPlanIsFinished'
  <2> SUFFICES ASSUME NEW x \in PlanIds \ drained', plan'[x].status \in Live
               PROVE  \E a \in Homes : item'[x][a] = "PENDING"
    BY DEF CompletedPlanIsFinished, With
  <2>1. x # p /\ x \notin drained
    BY <1>1
  <2>2. CASE x = q /\ j.onto = Absent
    <3>1. PICK a \in Homes : a \in j.homes
      BY <1>2
    <3>2. item[x][a] = "NONE"
      BY <1>4, <2>2 DEF PlanInv, BlankUntilMade
    <3> QED BY <1>6, <2>1, <2>2, <3>1, <3>2
  <2>3. CASE ~ (x = q /\ j.onto = Absent)
    <3>1. plan[x].status \in Live
      BY <1>9, <2>3
    <3>2. PICK a \in Homes : item[x][a] = "PENDING"
      BY <2>1, <3>1 DEF PlanInv, CompletedPlanIsFinished, With
    <3> QED BY <1>6, <2>1, <3>2
  <2> QED BY <2>2, <2>3
<1>16. \A x \in PlanIds : Generated(x)' <=> Generated(x)
  BY <1>4, <1>8, <1>9 DEF Generated
<1>17. GeneratedOnce'
  BY <1>1, <1>16 DEF PlanInv, GeneratedOnce
<1>18. JobsGood'
  <2>1. \A s \in Readers \ {r} : job[s].at = "counted" =>
            \/ job[s].plan \in drained'
            \/ \A a \in Homes \ job[s].homes :
                  item[job[s].plan][a] = "PENDING" => item'[job[s].plan][a] = "PENDING"
    <3> SUFFICES ASSUME NEW s \in Readers \ {r}, job[s].at = "counted",
                        job[s].plan # p, NEW a \in Homes,
                        item[job[s].plan][a] = "PENDING"
                 PROVE  item'[job[s].plan][a] = "PENDING"
      BY <1>1
    <3>1. job[s].plan \in PlanIds
      BY JobKinds DEF PlanInv, PlanTypes, CountedJobs
    <3> QED BY <1>6, <3>1
  <2>2. \A x \in PlanIds : plan[x].status # "NONE" => plan'[x].status # "NONE"
    BY <1>8, <1>9
  <2> QED BY <1>1, <1>16, <2>1, <2>2, JobsStayGood
<1> QED
  BY <1>1, <1>11, <1>12, <1>13, <1>14, <1>15, <1>17, <1>18, LocksStayApart
  DEF PlanInv, OneHome

LEMMA CommitEntryKeeps ==
  ASSUME PlanInv, NEW r \in Readers, CommitEntry(r)
  PROVE  PlanInv'
<1> DEFINE j == job[r]
           p == j.plan
           after == StatusAfter(plan[p].status, j.last)
<1>1. /\ j.at = "counted" /\ j \in CountedJobs /\ PlanGood(j) /\ CountGood(j)
      /\ plan' = [plan EXCEPT ![p].status = after]
      /\ item' = [item EXCEPT ![p] = [a \in Homes |->
                    IF a \in j.homes THEN j.result ELSE item[p][a]]]
      /\ rows' = [rows EXCEPT ![p] = [a \in Homes |->
                    IF a \in j.homes THEN rows[p][a] + 1 ELSE rows[p][a]]]
      /\ UNCHANGED <<drained, member, deleted>> /\ GoOn(Readers \ {r})
  BY JobKinds, SomeGoOn
  DEF CommitEntry, UnchangedBooks, PlanInv, PlanTypes, JobsGood, StatusAfter
<1>2. /\ p \in PlanIds /\ j.homes \in SUBSET Homes /\ j.last \in BOOLEAN
      /\ j.result \in {"READ", "NO_READ"} /\ plan[p].status # "NONE"
  BY <1>1 DEF CountedJobs, PlanGood
<1>3. /\ plan \in [PlanIds -> PlanRows] /\ item \in [PlanIds -> [Homes -> ItemStatuses]]
      /\ rows \in [PlanIds -> [Homes -> Nat]] /\ plan[p] \in PlanRows
  BY <1>2 DEF PlanInv, PlanTypes
<1>4. /\ after \in PlanStatuses /\ after # "NONE"
      /\ after \in Live => plan[p].status \in Live /\ ~ j.last
      /\ after = "CLOSED" <=> plan[p].status = "CLOSED"
  BY <1>2, <1>3 DEF StatusAfter, PlanStatuses, Live, PlanRows
<1> HIDE DEF after
<1>5. /\ plan'[p].status = after /\ plan'[p].by = plan[p].by
      /\ plan' \in [PlanIds -> PlanRows]
      /\ \A x \in PlanIds \ {p} : plan'[x] = plan[x]
  <2>1. [plan[p] EXCEPT !.status = after] \in PlanRows
    BY <1>3, <1>4 DEF PlanRows
  <2> QED BY <1>1, <1>2, <1>3, <1>4, <2>1 DEF PlanRows
<1>6. /\ \A x \in PlanIds \ {p} : item'[x] = item[x] /\ rows'[x] = rows[x]
      /\ \A a \in j.homes : item'[p][a] = j.result /\ rows'[p][a] = rows[p][a] + 1
      /\ \A a \in Homes \ j.homes : item'[p][a] = item[p][a] /\ rows'[p][a] = rows[p][a]
      /\ item' \in [PlanIds -> [Homes -> ItemStatuses]]
      /\ rows' \in [PlanIds -> [Homes -> Nat]]
  BY SMTT(60), <1>1, <1>2, <1>3 DEF ItemStatuses
<1> HIDE DEF p, j
<1>7. PlanTypes'
  BY <1>1, <1>5, <1>6 DEF PlanInv, PlanTypes, GoOn
<1>8. \A x \in PlanIds : plan'[x].status = "NONE" <=> plan[x].status = "NONE"
  BY <1>2, <1>4, <1>5
<1>9. IdsInOrder'
  <2>1. \A x \in PlanIds : plan'[x].status = "NONE" <=>
           plan[x].status = "NONE" /\ x \notin {NextId(b) : b \in {}}
    BY <1>8
  <2> QED BY <1>5, <2>1, OrderKept DEF PlanInv
<1>10. BlankUntilMade'
  BY <1>2, <1>6, <1>8 DEF PlanInv, BlankUntilMade
<1>11. ReadingKeepsItsItem'
  <2> SUFFICES ASSUME NEW x \in PlanIds, NEW a \in Homes
               PROVE  rows'[x][a] > 0 <=> item'[x][a] \in {"READ", "NO_READ"}
    BY DEF ReadingKeepsItsItem
  <2>1. rows[x][a] > 0 <=> item[x][a] \in {"READ", "NO_READ"}
    BY DEF PlanInv, ReadingKeepsItsItem
  <2>2. CASE x = p /\ a \in j.homes
    BY <1>2, <1>3, <1>6, <2>2
  <2>3. CASE ~ (x = p /\ a \in j.homes)
    BY <1>6, <2>1, <2>3
  <2> QED BY <2>2, <2>3
<1>12. CompletedPlanIsFinished'
  <2> SUFFICES ASSUME NEW x \in PlanIds \ drained', plan'[x].status \in Live
               PROVE  \E a \in Homes : item'[x][a] = "PENDING"
    BY DEF CompletedPlanIsFinished, With
  <2>1. CASE x = p
    <3>1. PICK a \in Homes \ j.homes : item[p][a] = "PENDING"
      BY <1>1, <1>4, <1>5, <2>1 DEF CountGood, p
    <3> QED BY <1>6, <2>1, <3>1
  <2>2. CASE x # p
    BY <1>1, <1>5, <1>6, <2>2 DEF PlanInv, CompletedPlanIsFinished, With
  <2> QED BY <2>1, <2>2
<1>13. \A x \in PlanIds : Generated(x)' <=> Generated(x)
  BY <1>2, <1>4, <1>5 DEF Generated
<1>14. GeneratedOnce'
  BY <1>1, <1>13 DEF PlanInv, GeneratedOnce
<1>15. JobsGood'
  <2>1. \A s \in Readers \ {r} : job[s].at = "counted" =>
            \A a \in Homes \ job[s].homes :
               item[job[s].plan][a] = "PENDING" => item'[job[s].plan][a] = "PENDING"
    <3> SUFFICES ASSUME NEW s \in Readers \ {r}, job[s].at = "counted"
                 PROVE  item'[job[s].plan] = item[job[s].plan]
      OBVIOUS
    <3>1. job[s].plan \in PlanIds
      BY JobKinds DEF PlanInv, PlanTypes, CountedJobs
    <3>2. job[s].plan # p
      BY <1>1 DEF PlanInv, LocksApart, Clash, p, j
    <3> QED BY <1>6, <3>1, <3>2
  <2> QED BY <1>1, <1>8, <1>13, <2>1, JobsStayGood
<1> QED
  BY <1>1, <1>7, <1>9, <1>10, <1>11, <1>12, <1>14, <1>15, LocksStayApart
  DEF PlanInv, OneHome

(* A plan is started or cancelled: only its status changes, among those a  *)
(* plan that exists can have, and to Live only from Live.                  *)
LEMMA StatusKeeps ==
  ASSUME PlanInv, NEW p \in PlanIds, NEW s \in {"IN_PROGRESS", "CLOSED"},
         plan[p].status \in Live, plan' = [plan EXCEPT ![p].status = s],
         UNCHANGED <<item, rows, drained, job, member, deleted>>
  PROVE  PlanInv'
<1>1. plan \in [PlanIds -> PlanRows] /\ plan[p] \in PlanRows /\ GoOn(Readers)
  BY SomeGoOn DEF PlanInv, PlanTypes
<1>2. /\ plan'[p].status = s /\ plan'[p].by = plan[p].by
      /\ plan' \in [PlanIds -> PlanRows]
      /\ \A x \in PlanIds \ {p} : plan'[x] = plan[x]
  <2>1. [plan[p] EXCEPT !.status = s] \in PlanRows
    BY <1>1 DEF PlanRows, PlanStatuses, Live
  <2> QED BY <1>1, <2>1 DEF PlanRows
<1>3. \A x \in PlanIds : /\ plan'[x].status = "NONE" <=> plan[x].status = "NONE"
                         /\ plan'[x].status \in Live => plan[x].status \in Live
                         /\ Generated(x)' => Generated(x)
  BY <1>2 DEF Generated, Live
<1>4. IdsInOrder'
  <2>1. \A x \in PlanIds : plan'[x].status = "NONE" <=>
           plan[x].status = "NONE" /\ x \notin {NextId(b) : b \in {}}
    BY <1>3
  <2> QED BY <1>2, <2>1, OrderKept DEF PlanInv
<1>5. PlanTypes' /\ OneHome' /\ BlankUntilMade' /\ GeneratedOnce'
      /\ ReadingKeepsItsItem' /\ CompletedPlanIsFinished'
  BY <1>2, <1>3
  DEF PlanInv, PlanTypes, OneHome, BlankUntilMade, GeneratedOnce,
      ReadingKeepsItsItem, CompletedPlanIsFinished, With
<1>6. JobsGood'
  BY <1>1, <1>3, JobsStayGood
<1> QED BY <1>1, <1>4, <1>5, <1>6, LocksStayApart DEF PlanInv

LEMMA SupersedeKeeps ==
  ASSUME PlanInv, NEW p \in PlanIds, NEW a \in Homes, Supersede(p, a)
  PROVE  PlanInv'
<1>1. /\ rows' = [rows EXCEPT ![p][a] = @ + 1] /\ item[p][a] = "READ"
      /\ UNCHANGED <<plan, item, drained, job, member, deleted>> /\ GoOn(Readers)
      /\ rows \in [PlanIds -> [Homes -> Nat]]
  BY SomeGoOn DEF Supersede, UnchangedBooks, PlanInv, PlanTypes
<1>2. /\ rows' \in [PlanIds -> [Homes -> Nat]] /\ rows'[p][a] = rows[p][a] + 1
      /\ \A x \in PlanIds, h \in Homes : <<x, h>> # <<p, a>> => rows'[x][h] = rows[x][h]
  BY <1>1
<1>3. plan[p].status # "NONE"
  BY <1>1 DEF PlanInv, BlankUntilMade
<1>4. PlanTypes' /\ OneHome' /\ IdsInOrder' /\ GeneratedOnce' /\ CompletedPlanIsFinished'
  BY <1>1, <1>2
  DEF PlanInv, PlanTypes, OneHome, IdsInOrder, GeneratedOnce, Generated,
      CompletedPlanIsFinished, With
<1>5. BlankUntilMade'
  BY <1>1, <1>2, <1>3 DEF PlanInv, BlankUntilMade
<1>6. ReadingKeepsItsItem'
  <2> SUFFICES ASSUME NEW x \in PlanIds, NEW h \in Homes
               PROVE  rows'[x][h] > 0 <=> item[x][h] \in {"READ", "NO_READ"}
    BY <1>1 DEF ReadingKeepsItsItem
  <2>1. rows[x][h] > 0 <=> item[x][h] \in {"READ", "NO_READ"}
    BY DEF PlanInv, ReadingKeepsItsItem
  <2>2. rows[x][h] \in Nat
    BY <1>1
  <2> QED BY <1>1, <1>2, <2>1, <2>2
<1>7. JobsGood'
  <2>1. \A x \in PlanIds : Generated(x)' => Generated(x)
    BY <1>1 DEF Generated
  <2> QED BY <1>1, <2>1, JobsStayGood
<1> QED BY <1>1, <1>4, <1>5, <1>6, <1>7, LocksStayApart DEF PlanInv

LEMMA PlanStep == PlanInv /\ [PlanNext]_planVars => PlanInv'
<1> SUFFICES ASSUME PlanInv, [PlanNext]_planVars PROVE PlanInv'
  OBVIOUS
<1>1. CASE \E r \in Readers :
             \/ \E b \in Books, a \in Homes : StartJoin(r, b, a)
             \/ CheckJoin(r)
             \/ \E b \in Books : Generate(r, b)
             \/ \E a \in Homes : StartSupplement(r, a)
             \/ \E b, c \in Books : StartRedistribute(r, b, c)
             \/ \E p \in PlanIds, h \in (SUBSET Homes) \ {{}} : StartEntry(r, p, h)
             \/ Flip(r) \/ CountPending(r) \/ Abort(r)
  BY <1>1, ReadingStages
<1>2. CASE \/ \E r \in Readers : CommitJoin(r)
           \/ \E b \in Books, a \in Homes : RemoveMember(b, a)
           \/ \E b \in Books : DeleteBook(b)
  BY <1>2, MembershipStep
<1>3. CASE \E r \in Readers : \/ CommitGenerate(r) \/ CommitSupplement(r)
                              \/ CommitRedistribute(r) \/ CommitEntry(r)
  BY <1>3, CommitGenerateKeeps, CommitSupplementKeeps, CommitRedistributeKeeps,
     CommitEntryKeeps
<1>4. ASSUME NEW p \in PlanIds, StartPlan(p) \/ CancelPlan(p) PROVE PlanInv'
  <2>1. CASE StartPlan(p)
    BY <2>1, StatusKeeps DEF StartPlan, UnchangedBooks, Live
  <2>2. CASE CancelPlan(p)
    BY <2>2, StatusKeeps DEF CancelPlan, UnchangedBooks
  <2> QED BY <1>4, <2>1, <2>2
<1>5. CASE \E p \in PlanIds, a \in Homes : Supersede(p, a)
  BY <1>5, SupersedeKeeps
<1>6. CASE UNCHANGED planVars
  BY <1>6
  DEF planVars, PlanInv, PlanTypes, JobsGood, JoinGood, GenerateGood, PlanGood,
      CountGood, LocksApart, OneHome, IdsInOrder, BlankUntilMade, GeneratedOnce,
      Generated, ReadingKeepsItsItem, CompletedPlanIsFinished, With, Clash
<1> QED BY <1>1, <1>2, <1>3, <1>4, <1>5, <1>6 DEF PlanNext

LEMMA PlansHold == PlanSpec => []PlanInv
BY PlanInitHolds, PlanStep, PTL DEF PlanSpec

(* "One account has at most ONE current membership", whatever additions,   *)
(* transfers and removals meet: the account's row is locked before the     *)
(* other memberships are looked at.                                        *)
THEOREM OneBookPerAccount == PlanSpec => []AccountInOneBook
<1>1. ASSUME PlanInv PROVE AccountInOneBook
  <2> SUFFICES ASSUME NEW a \in Homes PROVE Cardinality(OwnBooks(a)) <= 1
    BY DEF AccountInOneBook
  <2>1. \A b, c \in OwnBooks(a) : b = c
    BY <1>1 DEF PlanInv, OneHome, OwnBooks
  <2> QED BY <2>1, AtMostOne
<1> QED BY <1>1, PlansHold, PTL

(* Generations by hand and at night leave a book at most one plan that is  *)
(* not CLOSED, and none to a book that was deleted meanwhile.              *)
THEOREM OnePlanPerGeneration == PlanSpec => []OneGeneratedPlan
<1>1. ASSUME PlanInv PROVE OneGeneratedPlan
  <2> SUFFICES ASSUME NEW b \in Books
               PROVE  /\ Cardinality(GeneratedOf(b)) <= 1
                      /\ GeneratedOf(b) # {} => b \notin deleted
    BY DEF OneGeneratedPlan
  <2>1. \A p \in GeneratedOf(b) : p \in PlanIds /\ Generated(p) /\ p[1] = b
    BY DEF GeneratedOf, NotClosed, Existing, Generated
  <2>2. \A p, q \in GeneratedOf(b) : p = q /\ b \notin deleted
    BY <1>1, <2>1 DEF PlanInv, GeneratedOnce
  <2> QED BY <2>2, AtMostOne
<1> QED BY <1>1, PlansHold, PTL

(* The entry that completes a plan finishes it, although two entries may   *)
(* each complete one of its last two items at a time.                      *)
THEOREM CompletedPlansFinish == PlanSpec => []CompletedPlanIsFinished
<1>1. PlanInv => CompletedPlanIsFinished
  BY DEF PlanInv
<1> QED BY <1>1, PlansHold, PTL

(* An item has readings exactly when it says so: no redistribution takes   *)
(* away one that was read after it looked.                                 *)
THEOREM ReadItemsStay == PlanSpec => []ReadingKeepsItsItem
<1>1. PlanInv => ReadingKeepsItsItem
  BY DEF PlanInv
<1> QED BY <1>1, PlansHold, PTL

(* The bounds of a behaviour of ReadingPlans: an entry that holds items    *)
(* has room for a row of each, and no two hold the same item.              *)
Holding(j) == j.at \in {"flipped", "counted"}
RoomHeld == \A r \in Readers : Holding(job[r]) =>
                \A a \in job[r].homes : rows[job[r].plan][a] < budget.rows
ItemsApart == \A r, q \in Readers :
    /\ Holding(job[r]) /\ Holding(job[q]) /\ job[r].plan = job[q].plan
    /\ job[r].homes \cap job[q].homes # {}
    => r = q
Counters == /\ budget \in Budgets /\ moves \in 0 .. budget.moves
            /\ deleted \subseteq Books /\ drained \subseteq PlanIds
RowsInv == /\ Counters /\ RoomHeld /\ ItemsApart
           /\ \A p \in PlanIds, a \in Homes : rows[p][a] <= budget.rows

LEMMA BudgetTyped ==
    ASSUME RowsInv
    PROVE  budget.rows \in Nat /\ budget.moves \in Nat
  BY PlansAssumption DEF RowsInv, Counters

LEMMA HeldAfter ==
    ASSUME PlanInv, RowsInv, UNCHANGED <<rows, budget>>, Counters',
           \A r \in Readers : Holding(job'[r]) =>
              /\ Holding(job[r]) /\ job'[r].plan = job[r].plan
              /\ job'[r].homes = job[r].homes
    PROVE  RowsInv'
<1>1. RoomHeld'
  BY DEF RowsInv, RoomHeld, Holding
<1>2. ItemsApart'
  <2> SUFFICES ASSUME NEW r \in Readers, NEW q \in Readers,
                      Holding(job'[r]), Holding(job'[q]), job'[r].plan = job'[q].plan,
                      job'[r].homes \cap job'[q].homes # {}
               PROVE  r = q
    BY DEF ItemsApart, Holding
  <2> QED
    BY DEF RowsInv, ItemsApart
<1> QED
  BY <1>1, <1>2 DEF RowsInv

LEMMA JobAfter ==
    ASSUME PlanInv, NEW r \in Readers, NEW x, Advance(r, x)
    PROVE  job'[r] = x /\ \A q \in Readers \ {r} : job'[q] = job[q]
  BY DEF Advance, PlanInv, PlanTypes

LEMMA StageRows ==
    ASSUME PlanInv, RowsInv, NEW r \in Readers, NEW x, Advance(r, x),
           UNCHANGED <<rows, budget>>, Counters',
           ~ Holding(x)
    PROVE  RowsInv'
<1>1. /\ \A q \in Readers : Holding(job'[q]) => job'[q] = job[q]
  BY JobAfter
<1> QED
  BY <1>1, HeldAfter

LEMMA FlipRows ==
    ASSUME PlanInv, RowsInv, NEW r \in Readers, Flip(r)
    PROVE  RowsInv'
<1>1. /\ job[r].at = "entry" /\ job[r] \in EntryJobs
      /\ UNCHANGED <<rows, budget, moves, deleted, drained>>
      /\ \A a \in job[r].homes : /\ ItemFree(r, job[r].plan, a)
                                 /\ rows[job[r].plan][a] < budget.rows
      /\ Advance(r, [job[r] EXCEPT !.at = "flipped"])
  BY JobKinds DEF Flip, StillEnterable, UnchangedPlans, UnchangedBooks, PlanInv, PlanTypes
<1>2. /\ job'[r].at = "flipped" /\ job'[r].plan = job[r].plan
      /\ job'[r].homes = job[r].homes
      /\ \A q \in Readers \ {r} : job'[q] = job[q]
  BY <1>1, JobAfter DEF EntryJobs
<1>3. Counters'
  BY <1>1 DEF RowsInv, Counters
<1>4. RoomHeld'
  <2> SUFFICES ASSUME NEW q \in Readers, Holding(job'[q]), NEW a \in job'[q].homes
               PROVE  rows[job'[q].plan][a] < budget.rows
    BY <1>1 DEF RoomHeld, Holding
  <2>1. CASE q = r
    BY <1>1, <1>2, <2>1
  <2>2. CASE q # r
    BY <1>2, <2>2 DEF RowsInv, RoomHeld
  <2> QED BY <2>1, <2>2
<1>5. \A q \in Readers \ {r} :
         ~ (Holding(job[q]) /\ job[q].plan = job[r].plan /\ job[q].homes \cap job[r].homes # {})
  BY <1>1 DEF ItemFree, HoldsItem, Holding
<1>6. ItemsApart'
  <2> SUFFICES ASSUME NEW p \in Readers, NEW q \in Readers,
                      Holding(job'[p]), Holding(job'[q]), job'[p].plan = job'[q].plan,
                      job'[p].homes \cap job'[q].homes # {}
               PROVE  p = q
    BY DEF ItemsApart, Holding
  <2>1. CASE p = r
    <3>1. job'[q].homes \cap job'[p].homes # {}
      OBVIOUS
    <3> QED BY <1>2, <1>5, <2>1, <3>1
  <2>2. CASE q = r
    BY <1>2, <1>5, <2>2
  <2>3. CASE p # r /\ q # r
    BY <1>2, <2>3 DEF RowsInv, ItemsApart
  <2> QED BY <2>1, <2>2, <2>3
<1> QED
  BY <1>1, <1>3, <1>4, <1>6 DEF RowsInv

LEMMA CountRows ==
    ASSUME PlanInv, RowsInv, NEW r \in Readers, CountPending(r)
    PROVE  RowsInv'
<1>1. /\ Holding(job[r]) /\ UNCHANGED <<rows, budget, moves, deleted, drained>>
      /\ job'[r].plan = job[r].plan /\ job'[r].homes = job[r].homes
      /\ \A q \in Readers \ {r} : job'[q] = job[q]
  BY JobAfter DEF CountPending, Holding, UnchangedPlans, UnchangedBooks
<1>2. Counters'
  BY <1>1 DEF RowsInv, Counters
<1>3. \A q \in Readers : Holding(job'[q]) =>
         Holding(job[q]) /\ job'[q].plan = job[q].plan /\ job'[q].homes = job[q].homes
  BY <1>1
<1> QED
  BY <1>1, <1>2, <1>3, HeldAfter

(* The rows of an entry: whoever else holds items holds others.            *)
LEMMA CommitEntryRows ==
    ASSUME PlanInv, RowsInv, NEW r \in Readers, CommitEntry(r)
    PROVE  RowsInv'
<1> DEFINE p == job[r].plan
           H == job[r].homes
<1>1. /\ job[r].at = "counted" /\ job[r] \in CountedJobs
      /\ rows' = [rows EXCEPT ![p] = [a \in Homes |->
                    IF a \in H THEN rows[p][a] + 1 ELSE rows[p][a]]]
      /\ UNCHANGED <<budget, moves, deleted, drained>> /\ Finish(r)
  BY JobKinds DEF CommitEntry, UnchangedBooks, PlanInv, PlanTypes
<1>2. /\ p \in PlanIds /\ H \subseteq Homes
      /\ rows \in [PlanIds -> [Homes -> Nat]]
  BY <1>1 DEF CountedJobs, PlanInv, PlanTypes
<1>3. /\ job'[r] = Free /\ \A q \in Readers \ {r} : job'[q] = job[q]
  BY <1>1, JobAfter DEF Finish
<1>4. Counters'
  BY <1>1 DEF RowsInv, Counters
<1>5. \A x \in PlanIds, a \in Homes :
         rows'[x][a] = IF x = p /\ a \in H THEN rows[x][a] + 1 ELSE rows[x][a]
  BY <1>1, <1>2
<1>6. \A a \in H : rows[p][a] < budget.rows
  BY <1>1 DEF RowsInv, RoomHeld, Holding
<1>7. \A q \in Readers \ {r} :
         Holding(job[q]) /\ job[q].plan = p => job[q].homes \cap H = {}
  BY <1>1 DEF RowsInv, ItemsApart, Holding
<1>8. \A q \in Readers : Holding(job[q]) => job[q].plan \in PlanIds /\ job[q].homes \subseteq Homes
  BY JobKinds DEF Holding, EntryJobs, CountedJobs, PlanInv, PlanTypes
<1> HIDE DEF p, H
<1>9. \A x \in PlanIds, a \in Homes : rows'[x][a] <= budget.rows
  BY <1>1, <1>2, <1>5, <1>6, BudgetTyped DEF RowsInv
<1>10. RoomHeld'
  <2> SUFFICES ASSUME NEW q \in Readers, Holding(job'[q]), NEW a \in job'[q].homes
               PROVE  rows'[job'[q].plan][a] < budget.rows
    BY <1>1 DEF RoomHeld, Holding
  <2>1. q # r /\ job'[q] = job[q]
    BY <1>3 DEF Holding, Free
  <2>2. job[q].plan \in PlanIds /\ a \in Homes /\ rows[job[q].plan][a] < budget.rows
    BY <1>8, <2>1 DEF RowsInv, RoomHeld
  <2>3. ~ (job[q].plan = p /\ a \in H)
    BY <1>7, <2>1
  <2> QED BY <1>5, <2>1, <2>2, <2>3
<1>11. ItemsApart'
  <2> SUFFICES ASSUME NEW s \in Readers, NEW q \in Readers,
                      Holding(job'[s]), Holding(job'[q]), job'[s].plan = job'[q].plan,
                      job'[s].homes \cap job'[q].homes # {}
               PROVE  s = q
    BY DEF ItemsApart, Holding
  <2>1. job'[s] = job[s] /\ job'[q] = job[q]
    BY <1>3 DEF Holding, Free
  <2> QED
    BY <2>1 DEF RowsInv, ItemsApart
<1> QED
  BY <1>1, <1>4, <1>9, <1>10, <1>11 DEF RowsInv

LEMMA SupersedeRows ==
    ASSUME PlanInv, RowsInv, NEW p \in PlanIds, NEW a \in Homes, Supersede(p, a)
    PROVE  RowsInv'
<1>1. /\ rows' = [rows EXCEPT ![p][a] = @ + 1] /\ rows[p][a] < budget.rows
      /\ UNCHANGED <<budget, moves, deleted, drained, job>>
      /\ rows \in [PlanIds -> [Homes -> Nat]]
      /\ \A r \in Readers : ~ HoldsItem(r, p, a)
  BY DEF Supersede, UnchangedBooks, PlanInv, PlanTypes
<1>2. \A x \in PlanIds, h \in Homes :
         rows'[x][h] = IF x = p /\ h = a THEN rows[x][h] + 1 ELSE rows[x][h]
  BY <1>1
<1>3. Counters' /\ ItemsApart'
  BY <1>1 DEF RowsInv, Counters, ItemsApart, Holding
<1>4. \A x \in PlanIds, h \in Homes : rows'[x][h] <= budget.rows
  BY <1>1, <1>2, BudgetTyped DEF RowsInv
<1>5. RoomHeld'
  <2> SUFFICES ASSUME NEW q \in Readers, Holding(job[q]), NEW h \in job[q].homes
               PROVE  rows'[job[q].plan][h] < budget.rows
    BY <1>1 DEF RoomHeld, Holding
  <2>1. job[q].plan \in PlanIds /\ job[q].homes \subseteq Homes
    BY JobKinds DEF Holding, EntryJobs, CountedJobs, PlanInv, PlanTypes
  <2>2. ~ (job[q].plan = p /\ h = a)
    BY <1>1 DEF HoldsItem, Holding
  <2>3. rows[job[q].plan][h] < budget.rows
    BY DEF RowsInv, RoomHeld
  <2> QED BY <1>2, <2>1, <2>2, <2>3
<1> QED
  BY <1>1, <1>3, <1>4, <1>5 DEF RowsInv

LEMMA RowsStart == PlanInit => RowsInv
<1> SUFFICES ASSUME PlanInit PROVE RowsInv
  OBVIOUS
<1>1. /\ rows = [p \in PlanIds |-> [a \in Homes |-> 0]]
      /\ job = [r \in Readers |-> Free]
      /\ moves = 0 /\ budget \in Budgets /\ deleted = {} /\ drained = {}
  BY DEF PlanInit
<1>2. budget.rows \in Nat /\ budget.moves \in Nat
  BY <1>1, PlansAssumption
<1>3. \A p \in PlanIds, a \in Homes : rows[p][a] = 0
  BY <1>1
<1>4. \A r \in Readers : ~ Holding(job[r])
  BY <1>1 DEF Holding, Free
<1> QED
  BY <1>1, <1>2, <1>3, <1>4 DEF RowsInv, Counters, RoomHeld, ItemsApart

(* A request starts or ends without items held.                            *)
LEMMA StagesRows ==
    ASSUME PlanInv, RowsInv, NEW r \in Readers,
           \/ \E b \in Books, a \in Homes : StartJoin(r, b, a)
           \/ CheckJoin(r) \/ CommitJoin(r)
           \/ \E b \in Books : Generate(r, b)
           \/ CommitGenerate(r)
           \/ \E a \in Homes : StartSupplement(r, a)
           \/ CommitSupplement(r)
           \/ \E b, c \in Books : StartRedistribute(r, b, c)
           \/ CommitRedistribute(r)
           \/ \E p \in PlanIds, h \in (SUBSET Homes) \ {{}} : StartEntry(r, p, h)
           \/ Abort(r)
    PROVE  RowsInv'
<1>0. job[r] \in Jobs /\ ~ Holding(Free) /\ Counters /\ budget.moves \in Nat
  BY BudgetTyped DEF PlanInv, PlanTypes, Holding, Free, RowsInv
<1>1. ASSUME UNCHANGED <<rows, budget, moves, deleted, drained>>, NEW x, Advance(r, x), ~ Holding(x)
      PROVE  RowsInv'
  BY <1>0, <1>1, StageRows DEF Counters
<1>2. ASSUME NEW b \in Books, NEW a \in Homes, StartJoin(r, b, a) PROVE RowsInv'
  <2>1. PICK from : Advance(r, [at |-> "joining", books |-> {b}, to |-> b, home |-> a,
                                from |-> from])
    BY <1>2 DEF StartJoin
  <2> QED
    BY <1>1, <1>2, <2>1 DEF StartJoin, UnchangedPlans, UnchangedBooks, Holding
<1>3. CASE CheckJoin(r)
  <2>1. [job[r] EXCEPT !.at = "joined"].at = "joined"
    BY <1>0, <1>3, JobKinds DEF CheckJoin, JoinJobs
  <2> QED
    BY <1>1, <1>3, <2>1 DEF CheckJoin, UnchangedPlans, UnchangedBooks, Holding
<1>4. CASE CommitJoin(r)
  <2>1. /\ UNCHANGED <<rows, budget, deleted, drained>> /\ Advance(r, Free)
        /\ moves' = moves + 1 /\ moves < budget.moves
    BY <1>4 DEF CommitJoin, Moves, Finish, UnchangedPlans
  <2>2. Counters'
    BY <1>0, <2>1 DEF Counters
  <2> QED
    BY <1>0, <2>1, <2>2, StageRows
<1>5. ASSUME NEW b \in Books, Generate(r, b) PROVE RowsInv'
  <2> DEFINE draft == [book |-> b, homes |-> member[b]]
  <2>1. CASE job[r] = Free
    <3>1. Advance(r, [at |-> "generate", books |-> {b}, drafts |-> {draft}])
      BY <1>5, <2>1 DEF Generate
    <3> QED
      BY <1>1, <1>5, <3>1 DEF Generate, UnchangedPlans, UnchangedBooks, Holding
  <2>2. CASE job[r] # Free
    <3> DEFINE x == [job[r] EXCEPT !.books = @ \cup {b}, !.drafts = @ \cup {draft}]
    <3>1. Advance(r, x) /\ job[r].at = "generate"
      BY <1>5, <2>2 DEF Generate
    <3>2. x.at = "generate"
      BY <1>0, <3>1, JobKinds DEF GenerateJobs
    <3> HIDE DEF x
    <3> QED
      BY <1>1, <1>5, <3>1, <3>2 DEF Generate, UnchangedPlans, UnchangedBooks, Holding
  <2> QED BY <2>1, <2>2
<1>6. CASE CommitGenerate(r)
  BY <1>0, <1>1, <1>6 DEF CommitGenerate, Finish, UnchangedBooks
<1>7. ASSUME NEW a \in Homes, StartSupplement(r, a) PROVE RowsInv'
  BY <1>1, <1>7 DEF StartSupplement, UnchangedPlans, UnchangedBooks, Holding
<1>8. CASE CommitSupplement(r)
  BY <1>0, <1>1, <1>8 DEF CommitSupplement, Finish, UnchangedBooks
<1>9. ASSUME NEW b \in Books, NEW c \in Books, StartRedistribute(r, b, c) PROVE RowsInv'
  <2>1. PICK p, q : Advance(r, [at |-> "move", plan |-> p, homes |-> With(p, "PENDING"),
                                book |-> c, onto |-> q])
    BY <1>9 DEF StartRedistribute
  <2> QED
    BY <1>1, <1>9, <2>1 DEF StartRedistribute, UnchangedPlans, UnchangedBooks, Holding
<1>10. CASE CommitRedistribute(r)
  <2>1. /\ UNCHANGED <<rows, budget, moves, deleted>> /\ Advance(r, Free)
        /\ drained' = drained \cup {job[r].plan} /\ job[r].at = "move"
    BY <1>10 DEF CommitRedistribute, Finish, UnchangedBooks
  <2>2. job[r].plan \in PlanIds
    BY <1>0, <2>1, JobKinds DEF MoveJobs
  <2>3. Counters'
    BY <1>0, <2>1, <2>2 DEF Counters
  <2> QED
    BY <1>0, <2>1, <2>3, StageRows
<1>11. ASSUME NEW p \in PlanIds, NEW h \in (SUBSET Homes) \ {{}}, StartEntry(r, p, h)
       PROVE  RowsInv'
  <2>1. PICK result : Advance(r, [at |-> "entry", plan |-> p, homes |-> h, result |-> result])
    BY <1>11 DEF StartEntry
  <2> QED
    BY <1>1, <1>11, <2>1 DEF StartEntry, UnchangedPlans, UnchangedBooks, Holding
<1>12. CASE Abort(r)
  BY <1>0, <1>1, <1>12 DEF Abort, Finish, UnchangedPlans, UnchangedBooks
<1> QED
  BY <1>2, <1>3, <1>4, <1>5, <1>6, <1>7, <1>8, <1>9, <1>10, <1>11, <1>12

LEMMA RowsStep == PlanInv /\ RowsInv /\ [PlanNext]_planVars => RowsInv'
<1> SUFFICES ASSUME PlanInv, RowsInv, [PlanNext]_planVars PROVE RowsInv'
  OBVIOUS
<1>1. CASE \E r \in Readers :
             \/ \E b \in Books, a \in Homes : StartJoin(r, b, a)
             \/ CheckJoin(r) \/ CommitJoin(r)
             \/ \E b \in Books : Generate(r, b)
             \/ CommitGenerate(r)
             \/ \E a \in Homes : StartSupplement(r, a)
             \/ CommitSupplement(r)
             \/ \E b, c \in Books : StartRedistribute(r, b, c)
             \/ CommitRedistribute(r)
             \/ \E p \in PlanIds, h \in (SUBSET Homes) \ {{}} : StartEntry(r, p, h)
             \/ Abort(r)
  BY <1>1, StagesRows
<1>2. CASE \E r \in Readers : Flip(r) \/ CountPending(r) \/ CommitEntry(r)
  BY <1>2, FlipRows, CountRows, CommitEntryRows
<1>3. ASSUME NEW b \in Books, (\E a \in Homes : RemoveMember(b, a)) \/ DeleteBook(b)
      PROVE  RowsInv'
  <2>1. /\ UNCHANGED <<rows, budget, drained, job>>
        /\ deleted' \subseteq Books
        /\ moves' = moves \/ (moves < budget.moves /\ moves' = moves + 1)
    BY <1>3 DEF RemoveMember, DeleteBook, Moves, UnchangedPlans, RowsInv, Counters
  <2>2. Counters'
    BY <2>1, BudgetTyped DEF RowsInv, Counters
  <2> QED
    BY <2>1, <2>2, HeldAfter
<1>4. CASE \E p \in PlanIds, a \in Homes : Supersede(p, a)
  BY <1>4, SupersedeRows
<1>5. CASE \/ \E p \in PlanIds : StartPlan(p) \/ CancelPlan(p)
           \/ UNCHANGED planVars
  <2>1. UNCHANGED <<rows, budget, moves, deleted, drained, job>>
    BY <1>5 DEF StartPlan, CancelPlan, UnchangedBooks, planVars
  <2>2. Counters'
    BY <2>1 DEF RowsInv, Counters
  <2> QED
    BY <2>1, <2>2, HeldAfter
<1> QED
  BY <1>1, <1>2, <1>3, <1>4, <1>5 DEF PlanNext

LEMMA PlanTyped == PlanInv /\ RowsInv => PlanTypeOK
<1> SUFFICES ASSUME PlanInv, RowsInv PROVE PlanTypeOK
  OBVIOUS
<1>1. rows \in [PlanIds -> [Homes -> 0 .. budget.rows]]
  <2>1. rows \in [PlanIds -> [Homes -> Nat]]
    BY DEF PlanInv, PlanTypes
  <2>2. \A p \in PlanIds : rows[p] \in [Homes -> 0 .. budget.rows]
    <3> TAKE p \in PlanIds
    <3>1. rows[p] \in [Homes -> Nat] /\ \A a \in Homes : rows[p][a] \in 0 .. budget.rows
      BY <2>1, BudgetTyped DEF RowsInv
    <3> QED BY <3>1
  <2> QED BY <2>1, <2>2
<1> QED
  BY <1>1 DEF PlanTypeOK, PlanInv, PlanTypes, PlanRows, RowsInv, Counters

-----------------------------------------------------------------------------
(* The price book.  A plan that a bill quotes has left DRAFT for good, and *)
(* a PATCH of such a plan carries the facts it has (EditGood, QuoteGood).  *)
(* With one PATCH under way at a time its window only shrinks, so what an  *)
(* activation has checked stays true until it flips (ActiveApart).         *)
Published == {"ACTIVE", "RETIRED"}
TariffRows == {r \in [status : {"NONE", "DRAFT"} \cup Published, from : Days,
                      to : Days \cup {OpenEnd}, facts : Facts \cup {NoTiers}] :
                  r.from <= r.to}
PatchJobs == [step : {"read", "waiting"}, plan : Versions, was : {"DRAFT", "ACTIVE"},
              from : Days, to : Days \cup {OpenEnd}, facts : Facts \cup {NoTiers}]
ActivateJobs == [step : {"locked", "checked"}, plan : Versions]
Quoting == [status : {"QUOTED", "DRAFT", "POSTING", "POSTED"}, plan : Versions,
            month : 1 .. TariffMonths, from : Days, facts : Facts \cup {NoTiers}]
BookTypes ==
    /\ tariff \in [Versions -> TariffRows]
    /\ edit \in [Editors -> {NoEdit} \cup PatchJobs \cup ActivateJobs]
    /\ quoted \in [Quotes -> {NoQuote} \cup Quoting]

Patching(j) == j.step \in {"read", "waiting"}
EditGood(j) ==
    /\ j.step # "idle" => tariff[j.plan].status # "NONE"
    /\ Patching(j) =>
          /\ j.from <= j.to
          /\ j.was = "ACTIVE" => /\ tariff[j.plan].status \in Published
                                 /\ j.from = tariff[j.plan].from
                                 /\ j.facts = tariff[j.plan].facts
QuoteGood(q) == q.status # "NONE" =>
    /\ tariff[q.plan].status \in Published
    /\ tariff[q.plan].facts = q.facts /\ tariff[q.plan].from = q.from
BookInv == /\ BookTypes
           /\ \A e \in Editors : EditGood(edit[e])
           /\ \A b \in Quotes : QuoteGood(quoted[b])

(* What one step may do to the plans: rows that exist stay, and one that   *)
(* was published keeps its start, its facts, and stays published.          *)
PlansPersist ==
    /\ tariff' \in [Versions -> TariffRows]
    /\ \A v \in Versions :
          /\ tariff[v].status # "NONE" => tariff'[v].status # "NONE"
          /\ tariff[v].status \in Published =>
                /\ tariff'[v].status \in Published
                /\ tariff'[v].from = tariff[v].from
                /\ tariff'[v].facts = tariff[v].facts

LEMMA DayNumbers ==
  /\ TariffMonths \in Nat /\ OpenEnd \in Nat /\ Days \subseteq Nat
  /\ \A d \in Days : d < OpenEnd
BY TariffAssumption DEF OpenEnd, Days

LEMMA EditKinds ==
  ASSUME NEW j \in {NoEdit} \cup PatchJobs \cup ActivateJobs
  PROVE  /\ Patching(j) => j \in PatchJobs
         /\ j.step \in {"locked", "checked"} => j \in ActivateJobs
BY DEF NoEdit, PatchJobs, ActivateJobs, Patching

LEMMA QuoteKinds ==
  ASSUME NEW q \in {NoQuote} \cup Quoting, q.status # "NONE"
  PROVE  q \in Quoting
BY DEF NoQuote, Quoting

LEMMA InsertPersists ==
  ASSUME BookInv, NEW v \in Versions, NEW from \in Days,
         NEW to \in Days \cup {OpenEnd}, NEW facts \in Facts \cup {NoTiers},
         InsertPlan(v, from, to, facts)
  PROVE  PlansPersist /\ UNCHANGED <<edit, quoted>>
         /\ \A u \in Versions : tariff'[u] = tariff[u]
              \/ (u = v /\ tariff[v].status = "NONE" /\ tariff'[v].status = "DRAFT")
<1> DEFINE new == [status |-> "DRAFT", from |-> from, to |-> to, facts |-> facts]
<1>1. /\ tariff[v].status = "NONE" /\ to > from
      /\ tariff' = [tariff EXCEPT ![v] = new] /\ UNCHANGED <<edit, quoted>>
      /\ tariff \in [Versions -> TariffRows]
  BY DEF InsertPlan, WindowOK, BookInv, BookTypes
<1>2. new \in TariffRows /\ new.status = "DRAFT"
  BY <1>1, DayNumbers DEF TariffRows, Days
<1> HIDE DEF new
<1> QED BY <1>1, <1>2 DEF PlansPersist, Published

LEMMA FlipPersists ==
  ASSUME BookInv, NEW v \in Versions, NEW s \in Published,
         tariff[v].status # "NONE",
         tariff' = [tariff EXCEPT ![v].status = s]
  PROVE  /\ PlansPersist
         /\ tariff'[v].status = s /\ tariff'[v].from = tariff[v].from
         /\ tariff'[v].to = tariff[v].to
         /\ \A u \in Versions \ {v} : tariff'[u] = tariff[u]
<1>1. tariff \in [Versions -> TariffRows] /\ tariff[v] \in TariffRows
  BY DEF BookInv, BookTypes
<1>2. [tariff[v] EXCEPT !.status = s] \in TariffRows
  BY <1>1 DEF TariffRows, Published
<1>3. /\ tariff'[v] = [tariff[v] EXCEPT !.status = s]
      /\ \A u \in Versions \ {v} : tariff'[u] = tariff[u]
  BY <1>1
<1>4. /\ tariff'[v].status = s /\ tariff'[v].from = tariff[v].from
      /\ tariff'[v].to = tariff[v].to /\ tariff'[v].facts = tariff[v].facts
  BY <1>1, <1>3 DEF TariffRows
<1> QED BY <1>1, <1>2, <1>3, <1>4 DEF PlansPersist, Published

(* The UPDATE of a PATCH: nothing, or the row it names takes its values.   *)
LEMMA UpdatePersists ==
  ASSUME BookInv, NEW e \in Editors, ApplyUpdate(e)
  PROVE  /\ PlansPersist /\ UNCHANGED quoted
         /\ Patching(edit[e]) /\ edit[e] \in PatchJobs /\ RowFree(edit[e].plan)
         /\ edit' = [edit EXCEPT ![e] = NoEdit]
         /\ UNCHANGED tariff
            \/ (/\ \A u \in Versions \ {edit[e].plan} : tariff'[u] = tariff[u]
                /\ tariff'[edit[e].plan].status = edit[e].was
                /\ tariff[edit[e].plan].status = edit[e].was
                /\ tariff'[edit[e].plan].from = edit[e].from
                /\ tariff'[edit[e].plan].to = edit[e].to)
<1> DEFINE j == edit[e]
           v == j.plan
           new == [status |-> tariff[v].status, from |-> j.from, to |-> j.to,
                   facts |-> j.facts]
<1>1. /\ j.step = "waiting" /\ RowFree(v)
      /\ tariff' = IF StillHolds(j) /\ Unique(j)
                   THEN [tariff EXCEPT ![v] = new]
                   ELSE tariff
      /\ edit' = [edit EXCEPT ![e] = NoEdit] /\ UNCHANGED quoted
  BY DEF ApplyUpdate
<1>2. /\ j \in PatchJobs /\ Patching(j) /\ EditGood(j)
      /\ tariff \in [Versions -> TariffRows]
  BY <1>1, EditKinds DEF BookInv, BookTypes, Patching
<1>3. v \in Versions /\ tariff[v] \in TariffRows
  BY <1>2 DEF PatchJobs
<1>4. CASE ~ (StillHolds(j) /\ Unique(j))
  BY <1>1, <1>2, <1>4 DEF PlansPersist
<1>5. CASE StillHolds(j) /\ Unique(j)
  <2>1. tariff[v].status = j.was
    BY <1>5 DEF StillHolds
  <2>2. /\ tariff'[v] = new
        /\ \A u \in Versions \ {v} : tariff'[u] = tariff[u]
        /\ tariff' \in [Versions -> TariffRows]
    <3>1. new \in TariffRows
      BY <1>2, <1>3, <2>1 DEF TariffRows, PatchJobs, EditGood
    <3>2. tariff' = [tariff EXCEPT ![v] = new]
      BY <1>1, <1>5
    <3> HIDE DEF new
    <3> QED BY <1>2, <1>3, <3>1, <3>2
  <2>3. new.status = j.was /\ new.from = j.from /\ new.to = j.to /\ new.facts = j.facts
    BY <2>1
  <2>4. j.was = "ACTIVE" \/ j.was = "DRAFT"
    BY <1>2 DEF PatchJobs
  <2> HIDE DEF new, v, j
  <2>5. PlansPersist
    BY <1>2, <2>1, <2>2, <2>3, <2>4 DEF PlansPersist, EditGood, Published, v
  <2> QED BY <1>1, <1>2, <2>1, <2>2, <2>3, <2>5 DEF v, j
<1> QED BY <1>4, <1>5

(* A step that leaves the plans persistent leaves every edit and every     *)
(* bill as good as it was.                                                 *)
LEMMA GoodPersists ==
  ASSUME BookInv, PlansPersist
  PROVE  /\ \A j \in {NoEdit} \cup PatchJobs \cup ActivateJobs : EditGood(j) =>
              /\ j.step # "idle" => tariff'[j.plan].status # "NONE"
              /\ Patching(j) =>
                    /\ j.from <= j.to
                    /\ j.was = "ACTIVE" => /\ tariff'[j.plan].status \in Published
                                           /\ j.from = tariff'[j.plan].from
                                           /\ j.facts = tariff'[j.plan].facts
         /\ \A q \in {NoQuote} \cup Quoting : QuoteGood(q) /\ q.status # "NONE" =>
                /\ tariff'[q.plan].status \in Published
                /\ tariff'[q.plan].facts = q.facts /\ tariff'[q.plan].from = q.from
<1>1. ASSUME NEW j \in {NoEdit} \cup PatchJobs \cup ActivateJobs, EditGood(j)
      PROVE  /\ j.step # "idle" => tariff'[j.plan].status # "NONE"
             /\ Patching(j) =>
                   /\ j.from <= j.to
                   /\ j.was = "ACTIVE" => /\ tariff'[j.plan].status \in Published
                                          /\ j.from = tariff'[j.plan].from
                                          /\ j.facts = tariff'[j.plan].facts
  <2>1. j.step # "idle" => j.plan \in Versions
    BY DEF NoEdit, PatchJobs, ActivateJobs
  <2>2. Patching(j) => j.step # "idle"
    BY DEF Patching
  <2> QED BY <1>1, <2>1, <2>2 DEF EditGood, PlansPersist
<1>2. ASSUME NEW q \in {NoQuote} \cup Quoting, QuoteGood(q), q.status # "NONE"
      PROVE  /\ tariff'[q.plan].status \in Published
             /\ tariff'[q.plan].facts = q.facts /\ tariff'[q.plan].from = q.from
  <2>1. q.plan \in Versions
    BY <1>2, QuoteKinds DEF Quoting
  <2> QED BY <1>2, <2>1 DEF QuoteGood, PlansPersist
<1> QED BY <1>1, <1>2

(* Hence a step keeps the invariant if the plans persist and the edit and  *)
(* the bill it changes, if any, are good.                                  *)
LEMMA BookKept ==
  ASSUME BookInv, PlansPersist,
         UNCHANGED edit \/ \E e \in Editors,
            j \in {NoEdit} \cup PatchJobs \cup ActivateJobs :
               EditGood(j) /\ edit' = [edit EXCEPT ![e] = j],
         UNCHANGED quoted \/ \E b \in Quotes, q \in {NoQuote} \cup Quoting :
               QuoteGood(q) /\ quoted' = [quoted EXCEPT ![b] = q]
  PROVE  BookInv'
<1>1. /\ edit' \in [Editors -> {NoEdit} \cup PatchJobs \cup ActivateJobs]
      /\ \A e \in Editors : EditGood(edit'[e])
  BY DEF BookInv, BookTypes
<1>2. /\ quoted' \in [Quotes -> {NoQuote} \cup Quoting]
      /\ \A b \in Quotes : QuoteGood(quoted'[b])
  BY DEF BookInv, BookTypes
<1>3. \A e \in Editors : EditGood(edit[e])'
  <2> SUFFICES ASSUME NEW e \in Editors PROVE EditGood(edit[e])'
    OBVIOUS
  <2>1. edit'[e] \in {NoEdit} \cup PatchJobs \cup ActivateJobs /\ EditGood(edit'[e])
    BY <1>1
  <2> QED BY <2>1, GoodPersists DEF EditGood, Patching
<1>4. \A b \in Quotes : QuoteGood(quoted[b])'
  <2> SUFFICES ASSUME NEW b \in Quotes PROVE QuoteGood(quoted[b])'
    OBVIOUS
  <2>1. quoted'[b] \in {NoQuote} \cup Quoting /\ QuoteGood(quoted'[b])
    BY <1>2
  <2> QED BY <2>1, GoodPersists DEF QuoteGood
<1>5. BookTypes'
  BY <1>1, <1>2 DEF PlansPersist, BookTypes
<1> QED BY <1>3, <1>4, <1>5 DEF BookInv

LEMMA BookInitHolds == TariffInit => BookInv
<1> SUFFICES ASSUME TariffInit PROVE BookInv
  OBVIOUS
<1>1. NoVersion \in TariffRows
  BY DayNumbers, TariffAssumption DEF NoVersion, TariffRows, Days
<1>2. BookTypes
  BY <1>1 DEF TariffInit, BookTypes
<1>3. \A e \in Editors : EditGood(edit[e])
  BY DEF TariffInit, EditGood, NoEdit, Patching
<1>4. \A b \in Quotes : QuoteGood(quoted[b])
  BY DEF TariffInit, QuoteGood, NoQuote
<1> QED BY <1>2, <1>3, <1>4 DEF BookInv

LEMMA PlansStay == BookInv /\ UNCHANGED tariff => PlansPersist
BY DEF BookInv, BookTypes, PlansPersist

LEMMA IdleIsGood == NoEdit.step = "idle" /\ EditGood(NoEdit) /\ QuoteGood(NoQuote)
BY DEF NoEdit, NoQuote, EditGood, QuoteGood, Patching

LEMMA BookStep == BookInv /\ [TariffNext]_tariffVars => BookInv'
<1> SUFFICES ASSUME BookInv, [TariffNext]_tariffVars PROVE BookInv'
  OBVIOUS
<1>0. /\ tariff \in [Versions -> TariffRows]
      /\ \A e \in Editors : /\ edit[e] \in {NoEdit} \cup PatchJobs \cup ActivateJobs
                            /\ EditGood(edit[e])
      /\ \A b \in Quotes : quoted[b] \in {NoQuote} \cup Quoting /\ QuoteGood(quoted[b])
  BY DEF BookInv, BookTypes
<1>1. ASSUME NEW v \in Versions, NEW from \in Days, NEW to \in Days \cup {OpenEnd},
             NEW facts \in Facts \cup {NoTiers},
             CreatePlan(v, from, to, facts) \/ \E u \in Versions : NewVersion(u, v, from, to, facts)
      PROVE  BookInv'
  <2>1. InsertPlan(v, from, to, facts)
    BY <1>1 DEF CreatePlan, NewVersion
  <2> QED BY <2>1, InsertPersists, BookKept
<1>2. ASSUME NEW v \in Versions, NEW from \in Days, NEW to \in Days \cup {OpenEnd},
             NEW facts \in Facts \cup {NoTiers}, NEW e \in Editors,
             ReadPatch(e, v, from, to, facts)
      PROVE  BookInv'
  <2> DEFINE j == [step |-> "read", plan |-> v, was |-> tariff[v].status,
                   from |-> from, to |-> to, facts |-> facts]
  <2>1. /\ PatchMay(v, from, to, facts) /\ edit' = [edit EXCEPT ![e] = j]
        /\ UNCHANGED <<tariff, quoted>>
    BY <1>2 DEF ReadPatch
  <2>2. /\ tariff[v].status \in {"DRAFT", "ACTIVE"} /\ from <= to
        /\ tariff[v].status = "ACTIVE" => from = tariff[v].from /\ facts = tariff[v].facts
    BY <2>1, DayNumbers DEF PatchMay, WindowOK, Shrinks
  <2>3. j \in PatchJobs
    BY <2>2 DEF PatchJobs
  <2>4. EditGood(j)
    BY <2>2 DEF EditGood, Patching, Published
  <2> HIDE DEF j
  <2> QED BY <2>1, <2>3, <2>4, PlansStay, BookKept
<1>3. ASSUME NEW e \in Editors, StartUpdate(e) PROVE BookInv'
  <2> DEFINE j == [edit[e] EXCEPT !.step = "waiting"]
  <2>1. /\ edit[e].step = "read" /\ UNCHANGED <<tariff, quoted>>
        /\ edit' = [edit EXCEPT ![e] = j] \/ edit' = [edit EXCEPT ![e] = NoEdit]
    BY <1>3 DEF StartUpdate
  <2>2. edit[e] \in PatchJobs /\ EditGood(edit[e])
    BY <1>0, <2>1, EditKinds DEF Patching
  <2>3. /\ j \in PatchJobs /\ j.step = "waiting" /\ j.plan = edit[e].plan
        /\ j.was = edit[e].was /\ j.from = edit[e].from /\ j.to = edit[e].to
        /\ j.facts = edit[e].facts
    BY <2>2 DEF PatchJobs
  <2> HIDE DEF j
  <2>4. EditGood(j)
    BY <2>1, <2>2, <2>3 DEF EditGood, Patching
  <2> QED BY <2>1, <2>3, <2>4, IdleIsGood, PlansStay, BookKept
<1>4. ASSUME NEW e \in Editors, ApplyUpdate(e) PROVE BookInv'
  BY <1>4, UpdatePersists, IdleIsGood, BookKept
<1>5. ASSUME NEW e \in Editors, CheckOverlap(e) PROVE BookInv'
  <2> DEFINE j == [step |-> "checked", plan |-> edit[e].plan]
  <2>1. /\ edit[e].step = "locked" /\ UNCHANGED <<tariff, quoted>>
        /\ edit' = [edit EXCEPT ![e] = j] \/ edit' = [edit EXCEPT ![e] = NoEdit]
    BY <1>5 DEF CheckOverlap
  <2>2. edit[e] \in ActivateJobs /\ EditGood(edit[e])
    BY <1>0, <2>1, EditKinds
  <2>3. j \in ActivateJobs /\ EditGood(j)
    BY <2>1, <2>2 DEF ActivateJobs, EditGood, Patching
  <2> HIDE DEF j
  <2> QED BY <2>1, <2>3, IdleIsGood, PlansStay, BookKept
<1>6. ASSUME NEW e \in Editors, Activate(e) PROVE BookInv'
  <2>1. /\ edit[e].step = "checked" /\ UNCHANGED quoted
        /\ edit' = [edit EXCEPT ![e] = NoEdit]
        /\ tariff' = [tariff EXCEPT ![edit[e].plan].status = "ACTIVE"]
    BY <1>6 DEF Activate
  <2>2. edit[e].plan \in Versions /\ tariff[edit[e].plan].status # "NONE"
    BY <1>0, <2>1, EditKinds DEF ActivateJobs, EditGood
  <2>3. PlansPersist
    BY <2>1, <2>2, FlipPersists DEF Published
  <2> QED BY <2>1, <2>3, IdleIsGood, BookKept
<1>7. ASSUME NEW e \in Editors, NEW v \in Versions, LockPlan(e, v) PROVE BookInv'
  <2> DEFINE j == [step |-> "locked", plan |-> v]
  <2>1. /\ tariff[v].status = "DRAFT" /\ edit' = [edit EXCEPT ![e] = j]
        /\ UNCHANGED <<tariff, quoted>>
    BY <1>7 DEF LockPlan
  <2>2. j \in ActivateJobs /\ EditGood(j)
    BY <2>1 DEF ActivateJobs, EditGood, Patching
  <2> HIDE DEF j
  <2> QED BY <2>1, <2>2, PlansStay, BookKept
<1>8. ASSUME NEW v \in Versions, Retire(v) PROVE BookInv'
  <2>1. PlansPersist
    BY <1>8, FlipPersists DEF Retire, Published
  <2> QED BY <1>8, <2>1, BookKept DEF Retire
<1>9. ASSUME NEW b \in Quotes, NEW m \in 1 .. TariffMonths, PickPlan(b, m) PROVE BookInv'
  <2>1. PICK v \in Versions :
          /\ Picked(v, m)
          /\ quoted' = [quoted EXCEPT ![b] = [status |-> "QUOTED", plan |-> v, month |-> m,
                                              from |-> tariff[v].from, facts |-> tariff[v].facts]]
    BY <1>9 DEF PickPlan
  <2> DEFINE q == [status |-> "QUOTED", plan |-> v, month |-> m,
                   from |-> tariff[v].from, facts |-> tariff[v].facts]
  <2>2. tariff[v] \in TariffRows /\ tariff[v].status = "ACTIVE"
    BY <1>0, <2>1 DEF Picked, Covers
  <2>3. q \in Quoting /\ QuoteGood(q)
    BY <2>2 DEF Quoting, TariffRows, QuoteGood, Published
  <2>4. UNCHANGED <<tariff, edit>>
    BY <1>9 DEF PickPlan
  <2> HIDE DEF q
  <2>5. quoted' = [quoted EXCEPT ![b] = q]
    BY <2>1 DEF q
  <2> QED BY <2>3, <2>4, <2>5, PlansStay, BookKept
<1>10. ASSUME NEW b \in Quotes,
              InsertQuote(b) \/ LockForPost(b) \/ PostQuote(b) \/ DropQuote(b)
       PROVE  BookInv'
  <2>1. UNCHANGED <<tariff, edit>> /\ quoted[b].status # "NONE"
    BY <1>10 DEF InsertQuote, LockForPost, PostQuote, DropQuote
  <2>2. quoted[b] \in Quoting /\ QuoteGood(quoted[b])
    BY <1>0, <2>1, QuoteKinds
  <2>3. CASE DropQuote(b)
    BY <2>1, <2>3, IdleIsGood, PlansStay, BookKept DEF DropQuote
  <2>4. CASE InsertQuote(b) \/ LockForPost(b) \/ PostQuote(b)
    <3>1. PICK s \in {"DRAFT", "POSTING", "POSTED"} :
             quoted' = [quoted EXCEPT ![b].status = s]
      BY <2>4 DEF InsertQuote, LockForPost, PostQuote
    <3> DEFINE q == [quoted[b] EXCEPT !.status = s]
    <3>2. /\ q \in Quoting /\ q.plan = quoted[b].plan
          /\ q.facts = quoted[b].facts /\ q.from = quoted[b].from
      BY <2>2 DEF Quoting
    <3>3. quoted' = [quoted EXCEPT ![b] = q]
      BY <3>1
    <3> HIDE DEF q
    <3>4. QuoteGood(q)
      BY <2>1, <2>2, <3>2 DEF QuoteGood
    <3> QED BY <2>1, <3>2, <3>3, <3>4, PlansStay, BookKept
  <2> QED BY <1>10, <2>3, <2>4
<1>11. CASE UNCHANGED tariffVars
  BY <1>11, PlansStay, BookKept DEF tariffVars
<1> QED
  BY <1>1, <1>2, <1>3, <1>4, <1>5, <1>6, <1>7, <1>8, <1>9, <1>10, <1>11
  DEF TariffNext

(* Two published plans share no day, and the plan that an activation has   *)
(* checked shares none with a published one.                               *)
NoSharedDay(r, s) == ~ (r.from < s.to /\ s.from < r.to)
ActiveApart ==
    \A u, v \in Versions :
        u # v /\ tariff[u].status = "ACTIVE" /\ tariff[v].status = "ACTIVE" =>
            NoSharedDay(tariff[u], tariff[v])
CheckedApart ==
    \A e \in Editors : edit[e].step = "checked" =>
        \A u \in Versions \ {edit[e].plan} : tariff[u].status = "ACTIVE" =>
            NoSharedDay(tariff[u], tariff[edit[e].plan])
OneAtATime ==
    \A e, f \in Editors :
        /\ Patching(edit[e]) /\ Patching(edit[f]) => e = f
        /\ edit[e].step = "checked" /\ edit[f].step = "checked" => e = f
OnlyShrinks ==
    \A e \in Editors : Patching(edit[e]) /\ edit[e].was = "ACTIVE" =>
        edit[e].to <= tariff[edit[e].plan].to
ApartInv == ActiveApart /\ CheckedApart /\ OneAtATime /\ OnlyShrinks

(* A step of edit e that leaves the plans alone.                           *)
LEMMA EditApart ==
  ASSUME BookInv, ApartInv, UNCHANGED tariff, NEW e \in Editors, NEW j,
         edit' = [edit EXCEPT ![e] = j],
         Patching(j) => /\ \A f \in Editors \ {e} : ~ Patching(edit[f])
                        /\ j.was = "ACTIVE" => j.to <= tariff[j.plan].to,
         j.step = "checked" =>
             /\ \A f \in Editors \ {e} : edit[f].step # "checked"
             /\ \A u \in Versions \ {j.plan} : tariff[u].status = "ACTIVE" =>
                   NoSharedDay(tariff[u], tariff[j.plan])
  PROVE  ApartInv'
<1>1. \A f \in Editors : edit'[f] = IF f = e THEN j ELSE edit[f]
  BY DEF BookInv, BookTypes
<1>2. ActiveApart'
  BY DEF ApartInv, ActiveApart, NoSharedDay
<1>3. CheckedApart'
  BY <1>1 DEF ApartInv, CheckedApart, NoSharedDay
<1>4. OneAtATime'
  BY <1>1 DEF ApartInv, OneAtATime, Patching
<1>5. OnlyShrinks'
  BY <1>1 DEF ApartInv, OnlyShrinks, Patching
<1> QED BY <1>2, <1>3, <1>4, <1>5 DEF ApartInv

(* A step that leaves the edits alone and publishes nothing.               *)
LEMMA RowsApart ==
  ASSUME BookInv, ApartInv, UNCHANGED edit,
         \A u \in Versions : tariff'[u] = tariff[u] \/ tariff'[u].status # "ACTIVE",
         \A u \in Versions : tariff[u].status # "NONE" =>
             tariff'[u].from = tariff[u].from /\ tariff'[u].to = tariff[u].to
  PROVE  ApartInv'
<1>1. \A e \in Editors : edit[e].step # "idle" =>
         edit[e].plan \in Versions /\ tariff[edit[e].plan].status # "NONE"
  BY DEF BookInv, BookTypes, EditGood, NoEdit, PatchJobs, ActivateJobs
<1>2. ActiveApart'
  BY DEF ApartInv, ActiveApart, NoSharedDay
<1>3. CheckedApart'
  BY <1>1 DEF ApartInv, CheckedApart, NoSharedDay
<1>4. OneAtATime'
  BY DEF ApartInv, OneAtATime, Patching
<1>5. OnlyShrinks'
  BY <1>1 DEF ApartInv, OnlyShrinks, Patching
<1> QED BY <1>2, <1>3, <1>4, <1>5 DEF ApartInv

LEMMA UpdateApart ==
  ASSUME BookInv, ApartInv, NEW e \in Editors, ApplyUpdate(e)
  PROVE  ApartInv'
<1> DEFINE j == edit[e]
           v == j.plan
<1>1. /\ Patching(j) /\ j \in PatchJobs /\ RowFree(v) /\ EditGood(j)
      /\ edit' = [edit EXCEPT ![e] = NoEdit]
      /\ UNCHANGED tariff
         \/ (/\ \A u \in Versions \ {v} : tariff'[u] = tariff[u]
             /\ tariff'[v].status = j.was /\ tariff[v].status = j.was
             /\ tariff'[v].from = j.from /\ tariff'[v].to = j.to)
  BY UpdatePersists DEF BookInv
<1>2. CASE UNCHANGED tariff
  BY <1>1, <1>2, IdleIsGood, EditApart DEF Patching
<1>3. CASE ~ UNCHANGED tariff
  <2>1. /\ \A f \in Editors \ {e} : edit'[f] = edit[f] /\ ~ Patching(edit[f])
        /\ edit'[e] = NoEdit
    BY <1>1 DEF BookInv, BookTypes, ApartInv, OneAtATime
  <2>2. \A f \in Editors : edit[f].step = "checked" => edit[f].plan # v
    BY <1>1 DEF RowFree
  <2>3. j.was = "ACTIVE" => tariff'[v].from = tariff[v].from /\ tariff'[v].to <= tariff[v].to
    BY <1>1, <1>3 DEF EditGood, ApartInv, OnlyShrinks
  <2>4. \A u \in Versions : /\ tariff[u] \in TariffRows
                            /\ tariff[u].from \in Nat /\ tariff[u].to \in Nat
    BY DayNumbers DEF BookInv, BookTypes, TariffRows
  <2>5. v \in Versions /\ j.from \in Nat /\ j.to \in Nat
    BY <1>1, DayNumbers DEF PatchJobs
  <2>6. \A u \in Versions : tariff'[u].status = "ACTIVE" =>
           /\ tariff[u].status = "ACTIVE"
           /\ tariff'[u].from = tariff[u].from /\ tariff'[u].to <= tariff[u].to
           /\ tariff'[u].to \in Nat
    BY <1>1, <1>3, <2>3, <2>4, <2>5
  <2> HIDE DEF v, j
  <2>7. ActiveApart'
    <3> SUFFICES ASSUME NEW u \in Versions, NEW w \in Versions, u # w,
                        tariff'[u].status = "ACTIVE", tariff'[w].status = "ACTIVE"
                 PROVE  NoSharedDay(tariff'[u], tariff'[w])
      BY DEF ActiveApart, NoSharedDay
    <3>1. NoSharedDay(tariff[u], tariff[w])
      BY <2>6 DEF ApartInv, ActiveApart
    <3> QED BY <2>4, <2>6, <3>1 DEF NoSharedDay
  <2>8. CheckedApart'
    <3> SUFFICES ASSUME NEW f \in Editors, edit'[f].step = "checked",
                        NEW u \in Versions \ {edit'[f].plan},
                        tariff'[u].status = "ACTIVE"
                 PROVE  NoSharedDay(tariff'[u], tariff'[edit'[f].plan])
      BY DEF CheckedApart, NoSharedDay
    <3>1. f # e /\ edit'[f] = edit[f] /\ edit[f].plan # v
      BY <2>1, <2>2, IdleIsGood
    <3>2. edit[f].plan \in Versions
      BY <3>1, EditKinds DEF BookInv, BookTypes, ActivateJobs
    <3>3. tariff'[edit[f].plan] = tariff[edit[f].plan]
      BY <1>1, <1>3, <3>1, <3>2
    <3>4. NoSharedDay(tariff[u], tariff[edit[f].plan])
      BY <2>6, <3>1 DEF ApartInv, CheckedApart
    <3> QED BY <2>4, <2>6, <3>1, <3>2, <3>3, <3>4 DEF NoSharedDay
  <2>9. OneAtATime' /\ OnlyShrinks'
    BY <2>1, IdleIsGood DEF OneAtATime, OnlyShrinks, Patching, ApartInv
  <2> QED BY <2>7, <2>8, <2>9 DEF ApartInv
<1> QED BY <1>2, <1>3

LEMMA ActivateApart ==
  ASSUME BookInv, ApartInv, NEW e \in Editors, Activate(e)
  PROVE  ApartInv'
<1> DEFINE v == edit[e].plan
<1>1. /\ edit[e].step = "checked" /\ edit' = [edit EXCEPT ![e] = NoEdit]
      /\ tariff' = [tariff EXCEPT ![v].status = "ACTIVE"]
  BY DEF Activate
<1>2. v \in Versions /\ tariff[v].status # "NONE"
  BY <1>1, EditKinds DEF BookInv, BookTypes, ActivateJobs, EditGood
<1>3. /\ tariff'[v].from = tariff[v].from /\ tariff'[v].to = tariff[v].to
      /\ \A u \in Versions \ {v} : tariff'[u] = tariff[u]
  BY <1>1, <1>2, FlipPersists DEF Published
<1>4. /\ edit'[e] = NoEdit /\ \A f \in Editors \ {e} : edit'[f] = edit[f]
      /\ \A f \in Editors \ {e} : edit[f].step # "checked"
  BY <1>1 DEF BookInv, BookTypes, ApartInv, OneAtATime
<1>5. ActiveApart'
  <2> SUFFICES ASSUME NEW u \in Versions, NEW w \in Versions, u # w,
                      tariff'[u].status = "ACTIVE", tariff'[w].status = "ACTIVE"
               PROVE  NoSharedDay(tariff'[u], tariff'[w])
    BY DEF ActiveApart, NoSharedDay
  <2>1. \A x \in Versions \ {v} : tariff[x].status = "ACTIVE" => NoSharedDay(tariff[x], tariff[v])
    BY <1>1 DEF ApartInv, CheckedApart
  <2> HIDE DEF v
  <2>2. CASE u = v
    BY <1>3, <2>1, <2>2 DEF NoSharedDay
  <2>3. CASE w = v
    BY <1>3, <2>1, <2>3 DEF NoSharedDay
  <2>4. CASE u # v /\ w # v
    BY <1>3, <2>4 DEF ApartInv, ActiveApart
  <2> QED BY <2>2, <2>3, <2>4
<1>6. CheckedApart'
  BY <1>4, IdleIsGood DEF CheckedApart
<1>7. OneAtATime'
  BY <1>4, IdleIsGood DEF ApartInv, OneAtATime, Patching
<1>8. OnlyShrinks'
  <2> SUFFICES ASSUME NEW f \in Editors, Patching(edit'[f]), edit'[f].was = "ACTIVE"
               PROVE  edit'[f].to <= tariff'[edit'[f].plan].to
    BY DEF OnlyShrinks, Patching
  <2>1. edit'[f] = edit[f] /\ Patching(edit[f])
    BY <1>4, IdleIsGood DEF Patching
  <2>2. edit[f].plan \in Versions
    BY <2>1, EditKinds DEF BookInv, BookTypes, PatchJobs
  <2>3. edit[f].to <= tariff[edit[f].plan].to
    BY <2>1 DEF ApartInv, OnlyShrinks
  <2> HIDE DEF v
  <2> QED BY <1>3, <2>1, <2>2, <2>3
<1> QED BY <1>5, <1>6, <1>7, <1>8 DEF ApartInv

LEMMA ApartInitHolds == TariffInit => ApartInv
<1> SUFFICES ASSUME TariffInit PROVE ApartInv
  OBVIOUS
<1>1. \A v \in Versions : tariff[v].status = "NONE"
  BY DEF TariffInit, NoVersion
<1>2. \A e \in Editors : edit[e].step = "idle"
  BY DEF TariffInit, NoEdit
<1> QED
  BY <1>1, <1>2
  DEF ApartInv, ActiveApart, CheckedApart, OneAtATime, OnlyShrinks, Patching

LEMMA ApartStep ==
  ASSUME Window = 1, BookInv, ApartInv, [TariffNext]_tariffVars
  PROVE  ApartInv'
<1>0. /\ tariff \in [Versions -> TariffRows]
      /\ \A e \in Editors : edit[e] \in {NoEdit} \cup PatchJobs \cup ActivateJobs
  BY DEF BookInv, BookTypes
<1>1. ASSUME NEW v \in Versions, NEW from \in Days, NEW to \in Days \cup {OpenEnd},
             NEW facts \in Facts \cup {NoTiers},
             CreatePlan(v, from, to, facts) \/ \E u \in Versions : NewVersion(u, v, from, to, facts)
      PROVE  ApartInv'
  <2>1. InsertPlan(v, from, to, facts)
    BY <1>1 DEF CreatePlan, NewVersion
  <2>2. UNCHANGED edit /\ \A u \in Versions : tariff'[u] = tariff[u]
              \/ (u = v /\ tariff[v].status = "NONE" /\ tariff'[v].status = "DRAFT")
    BY <2>1, InsertPersists
  <2> QED BY <2>2, RowsApart
<1>2. ASSUME NEW v \in Versions, NEW from \in Days, NEW to \in Days \cup {OpenEnd},
             NEW facts \in Facts \cup {NoTiers}, NEW e \in Editors,
             ReadPatch(e, v, from, to, facts)
      PROVE  ApartInv'
  <2> DEFINE j == [step |-> "read", plan |-> v, was |-> tariff[v].status,
                   from |-> from, to |-> to, facts |-> facts]
             open == {c \in Editors : edit[c].step \in {"read", "waiting"}}
  <2>1. /\ PatchMay(v, from, to, facts) /\ edit' = [edit EXCEPT ![e] = j]
        /\ UNCHANGED tariff /\ Cardinality(open) < 1
    BY <1>2 DEF ReadPatch
  <2>2. open = {}
    <3>1. \A c, d \in open : c = d
      BY DEF ApartInv, OneAtATime, Patching
    <3>2. open = {} \/ \E c : open = {c}
      <4> HIDE DEF open
      <4>1. ASSUME NEW c \in open PROVE open = {c}
        BY <3>1
      <4> QED BY <4>1
    <3> HIDE DEF open
    <3> QED BY <2>1, <3>2, FS_Singleton
  <2>3. \A f \in Editors : ~ Patching(edit[f])
    BY <2>2 DEF Patching
  <2>4. tariff[v].status = "ACTIVE" => to <= tariff[v].to
    BY <2>1 DEF PatchMay, Shrinks
  <2>5. j.step = "read" /\ (j.was = "ACTIVE" => j.to <= tariff[j.plan].to)
    BY <2>4
  <2> HIDE DEF j
  <2> QED BY <2>1, <2>3, <2>5, EditApart
<1>3. ASSUME NEW e \in Editors, StartUpdate(e) PROVE ApartInv'
  <2> DEFINE j == [edit[e] EXCEPT !.step = "waiting"]
  <2>1. /\ edit[e].step = "read" /\ UNCHANGED tariff
        /\ edit' = [edit EXCEPT ![e] = j] \/ edit' = [edit EXCEPT ![e] = NoEdit]
    BY <1>3 DEF StartUpdate
  <2>2. edit[e] \in PatchJobs /\ Patching(edit[e])
    BY <1>0, <2>1, EditKinds DEF Patching
  <2>3. /\ j.step = "waiting" /\ j.plan = edit[e].plan
        /\ j.was = edit[e].was /\ j.to = edit[e].to
    BY <2>2 DEF PatchJobs
  <2>4. /\ \A f \in Editors \ {e} : ~ Patching(edit[f])
        /\ edit[e].was = "ACTIVE" => edit[e].to <= tariff[edit[e].plan].to
    BY <2>2 DEF ApartInv, OneAtATime, OnlyShrinks
  <2> HIDE DEF j
  <2> QED BY <2>1, <2>3, <2>4, IdleIsGood, EditApart DEF Patching
<1>4. ASSUME NEW e \in Editors, CheckOverlap(e) PROVE ApartInv'
  <2> DEFINE v == edit[e].plan
             j == [step |-> "checked", plan |-> v]
  <2>1. /\ edit[e].step = "locked" /\ UNCHANGED tariff /\ AdvisoryFree
        /\ edit' = [edit EXCEPT ![e] = IF Clashes(v) THEN NoEdit ELSE j]
    BY <1>4 DEF CheckOverlap
  <2>2. CASE Clashes(v)
    BY <2>1, <2>2, IdleIsGood, EditApart DEF Patching
  <2>3. CASE ~ Clashes(v)
    <3>1. \A u \in Versions \ {v} : tariff[u].status = "ACTIVE" =>
             NoSharedDay(tariff[u], tariff[v])
      <4>1. v \in Versions
        BY <1>0, <2>1, EditKinds DEF ActivateJobs
      <4>2. \A u \in Versions : tariff[u].from \in Nat /\ tariff[u].to \in Nat
        BY <1>0, DayNumbers DEF TariffRows
      <4> HIDE DEF v
      <4> QED BY <2>3, <4>1, <4>2 DEF Clashes, NoSharedDay
    <3>2. \A f \in Editors : edit[f].step # "checked"
      BY <2>1 DEF AdvisoryFree
    <3>3. edit' = [edit EXCEPT ![e] = j] /\ j.step = "checked" /\ j.plan = v
      BY <2>1, <2>3
    <3> HIDE DEF j, v
    <3> QED BY <2>1, <3>1, <3>2, <3>3, EditApart DEF Patching
  <2> QED BY <2>2, <2>3
<1>5. ASSUME NEW e \in Editors, NEW v \in Versions, LockPlan(e, v) PROVE ApartInv'
  <2> DEFINE j == [step |-> "locked", plan |-> v]
  <2>1. edit' = [edit EXCEPT ![e] = j] /\ UNCHANGED tariff /\ j.step = "locked"
    BY <1>5 DEF LockPlan
  <2> HIDE DEF j
  <2> QED BY <2>1, EditApart DEF Patching
<1>6. ASSUME NEW v \in Versions, Retire(v) PROVE ApartInv'
  <2>1. /\ UNCHANGED edit /\ tariff'[v].status = "RETIRED"
        /\ tariff'[v].from = tariff[v].from /\ tariff'[v].to = tariff[v].to
        /\ \A u \in Versions \ {v} : tariff'[u] = tariff[u]
    BY <1>6, FlipPersists DEF Retire, Published
  <2> QED BY <2>1, RowsApart
<1>7. CASE UNCHANGED <<tariff, edit>>
  BY <1>7, RowsApart
<1>8. ASSUME NEW b \in Quotes,
             \/ \E m \in 1 .. TariffMonths : PickPlan(b, m)
             \/ InsertQuote(b) \/ LockForPost(b) \/ PostQuote(b) \/ DropQuote(b)
      PROVE  UNCHANGED <<tariff, edit>>
  BY <1>8 DEF PickPlan, InsertQuote, LockForPost, PostQuote, DropQuote
<1> QED
  BY <1>1, <1>2, <1>3, <1>4, <1>5, <1>6, <1>7, <1>8, UpdateApart, ActivateApart
  DEF TariffNext, tariffVars

LEMMA BookHolds == TariffSpec => []BookInv
BY BookInitHolds, BookStep, PTL DEF TariffSpec

LEMMA BookTyped == BookInv => TariffTypeOK
<1> SUFFICES ASSUME BookInv PROVE TariffTypeOK
  OBVIOUS
<1>1. ASSUME NEW v \in Versions
      PROVE  /\ tariff[v].status \in {"NONE", "DRAFT", "ACTIVE", "RETIRED"}
             /\ tariff[v].from \in Days /\ tariff[v].to \in tariff[v].from .. OpenEnd
             /\ tariff[v].facts \in Facts \cup {NoTiers}
  <2>1. tariff[v] \in TariffRows
    BY DEF BookInv, BookTypes
  <2>2. /\ tariff[v].status \in {"NONE", "DRAFT", "ACTIVE", "RETIRED"}
        /\ tariff[v].facts \in Facts \cup {NoTiers}
    BY <2>1 DEF TariffRows, Published
  <2>3. /\ tariff[v].from \in Days /\ tariff[v].to \in Days \cup {OpenEnd}
        /\ tariff[v].from <= tariff[v].to
    BY <2>1 DEF TariffRows
  <2>4. /\ tariff[v].from \in Nat /\ tariff[v].to \in Nat /\ OpenEnd \in Nat
        /\ tariff[v].to <= OpenEnd
    <3>1. tariff[v].from \in Nat /\ OpenEnd \in Nat
      BY <2>3, DayNumbers
    <3>2. CASE tariff[v].to \in Days
      <4>1. tariff[v].to \in Nat /\ tariff[v].to < OpenEnd
        BY <3>2, DayNumbers
      <4> QED
        BY <3>1, <4>1
    <3>3. CASE tariff[v].to = OpenEnd
      BY <3>1, <3>3
    <3> QED
      BY <2>3, <3>2, <3>3
  <2>5. tariff[v].to \in tariff[v].from .. OpenEnd
    BY <2>3, <2>4
  <2> QED BY <2>2, <2>3, <2>5
<1>2. \A e \in Editors : edit[e].step # "idle" => tariff[edit[e].plan].status # "NONE"
  BY DEF BookInv, EditGood
<1>3. \A b \in Quotes : quoted[b].status # "NONE" => tariff[quoted[b].plan].status # "NONE"
  BY DEF BookInv, QuoteGood, Published
<1> QED BY <1>1, <1>2, <1>3 DEF TariffTypeOK

(* The rows keep their types, a window is never negative, and what is      *)
(* under way names a plan that exists.                                     *)
THEOREM TariffTypes == TariffSpec => []TariffTypeOK
BY BookHolds, BookTyped, PTL

(* A posted bill can still be explained by its plan, however many PATCHes  *)
(* are under way while it is priced and posted.                            *)
THEOREM QuotesStayTrue == TariffSpec => []QuotedFactsStay
<1>1. BookInv => QuotedFactsStay
  BY DEF BookInv, QuoteGood, QuotedFactsStay
<1> QED BY <1>1, BookHolds, PTL

(* At most one published plan covers a day, if no two PATCHes are under    *)
(* way at once.                                                            *)
THEOREM OnePublishedPlan ==
  ASSUME Window = 1
  PROVE  TariffSpec => []OnePlanPerDay
<1>1. ASSUME BookInv, ApartInv PROVE OnePlanPerDay
  <2> SUFFICES ASSUME NEW u \in Versions, NEW v \in Versions, NEW d \in Days, u # v,
                      tariff[u].status = "ACTIVE", tariff[u].from <= d, d < tariff[u].to,
                      tariff[v].status = "ACTIVE", tariff[v].from <= d, d < tariff[v].to
               PROVE  FALSE
    BY DEF OnePlanPerDay
  <2>1. /\ tariff[u] \in TariffRows /\ tariff[v] \in TariffRows
        /\ NoSharedDay(tariff[u], tariff[v])
    BY <1>1 DEF BookInv, BookTypes, ApartInv, ActiveApart
  <2>2. /\ tariff[u].from \in Nat /\ tariff[u].to \in Nat /\ d \in Nat
        /\ tariff[v].from \in Nat /\ tariff[v].to \in Nat
    BY <2>1, DayNumbers DEF TariffRows
  <2> QED BY <2>1, <2>2 DEF NoSharedDay
<1>2. TariffInit => BookInv /\ ApartInv
  BY BookInitHolds, ApartInitHolds
<1>3. BookInv /\ ApartInv /\ [TariffNext]_tariffVars => BookInv' /\ ApartInv'
  BY BookStep, ApartStep
<1> QED BY <1>1, <1>2, <1>3, PTL DEF TariffSpec

-----------------------------------------------------------------------------
(* The parts together, as the run explores them: a step of one leaves the  *)
(* others as they are.                                                     *)
ReadingInv == /\ PlanInv /\ RowsInv /\ PipelineInv /\ BindingsInv
              /\ LadderTypes /\ BookInv

LEMMA ReadingStart == ReadingInit => ReadingInv
BY PlanInitHolds, RowsStart, PipelineStart, BindingsStart, LadderInitTypes, BookInitHolds
DEF ReadingInit, ReadingInv

LEMMA ReadingStep == ReadingInv /\ [ReadingNext]_readingVars => ReadingInv'
<1> SUFFICES ASSUME ReadingInv, [ReadingNext]_readingVars PROVE ReadingInv'
  OBVIOUS
<1>1. [PlanNext]_planVars => PlanInv' /\ RowsInv'
  BY PlanStep, RowsStep DEF ReadingInv
<1>2. [RemoteNext]_remoteVars => PipelineInv' /\ BindingsInv'
  BY PipelineStep, BindingsStep DEF ReadingInv
<1>3. [LadderNext]_ladderVars => LadderTypes'
  BY LadderTypesStep DEF ReadingInv
<1>4. [TariffNext]_tariffVars => BookInv'
  BY BookStep DEF ReadingInv
<1>5. /\ [PlanNext]_planVars /\ [RemoteNext]_remoteVars
      /\ [LadderNext]_ladderVars /\ [TariffNext]_tariffVars
  BY DEF ReadingNext, readingVars
<1> QED
  BY <1>1, <1>2, <1>3, <1>4, <1>5 DEF ReadingInv

(* The types of the four parts, for any books, requests, messages, ladder  *)
(* and versions: no plan beyond its bounds, bindings of the device apart   *)
(* and within the life of their meter, no correction below zero, no price  *)
(* window that ends before it begins.                                      *)
THEOREM ReadingTypesHold == ReadingSpec => []ReadingTypes
<1>1. ReadingInv => ReadingTypes
  BY PlanTyped, RemoteTyped, TypesAreOK, BookTyped DEF ReadingInv, ReadingTypes
<1> QED
  BY <1>1, ReadingStart, ReadingStep, PTL DEF ReadingSpec
=============================================================================
