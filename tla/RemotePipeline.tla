--------------------------- MODULE RemotePipeline ---------------------------
(***************************************************************************)
(* The way of a remote reading from the vendor's message to a meter        *)
(* reading: RemoteEventService.ingestOne, RemoteEventProcessorService,     *)
(* RemoteDeviceService, and the manual entry, correction, quality check    *)
(* and meter exchange that meet it at the plan items of one account and    *)
(* one period.  The account has one remote device.                         *)
(*                                                                         *)
(* Messages arrive in any order and any number of times.  A request reads  *)
(* device, binding and plan item without a lock (Ingest, Replay), then     *)
(* locks the item, looks again and commits (Judge).                        *)
(***************************************************************************)
EXTENDS Integers, FiniteSets, FiniteSetsExt

CONSTANTS Messages,    \* what the vendor may send: [key, body, at]
          Items,       \* bound: the plan items of the account in the period
          LastInstant, \* bound: instants are 0 .. LastInstant
          MaxBindings, \* bound: binding rows ever made
          MaxReadings, \* bound: reading rows ever made
          Workers      \* the ingest and replay requests under way at a time

ASSUME RemoteAssumption ==
    /\ LastInstant \in Nat /\ MaxBindings \in Nat /\ MaxReadings \in Nat
    /\ \A m \in Messages : m.at \in 0 .. LastInstant
    /\ \A m \in Messages : m.key # "manual" /\ m.key # "nobody"

VARIABLES event,    \* event[k]: the row with the external key k
          device,   \* the device is ACTIVE
          binding,  \* binding[b]: its installation and [from, to)
          removed,  \* when installation 1 was removed; Forever while it stands
          spot,     \* spot[i]: plan item i
          reads,    \* reads[x]: reading row x
          work      \* work[w]: what request w has read
remoteVars == <<event, device, binding, removed, spot, reads, work>>

Keys == {m.key : m \in Messages}
Instants == 0 .. LastInstant
Forever == LastInstant + 1
Installations == 1 .. 2
BindingIds == 1 .. MaxBindings
ReadingIds == 1 .. MaxReadings
Open == {"PENDING", "NO_READ"}
Replayable == {"UNBOUND", "FAILED", "WAITING_PLAN"}
Terminal == {"CONVERTED", "IGNORED"}

NoEvent == [status |-> "NONE", body |-> 0, at |-> 0, via |-> 0]
NoBinding == [inst |-> 0, from |-> 0, to |-> 0]
NoSpot == [status |-> "NONE", planned |-> 1, done |-> 0]
NoRow == [item |-> 0, inst |-> 1, qc |-> "NONE", source |-> "nobody", of |-> 0]
Resting == [at |-> "rest"]

RemoteInit ==
    /\ event = [k \in Keys |-> NoEvent]
    /\ device = TRUE
    /\ binding = [b \in BindingIds |-> NoBinding]
    /\ removed = Forever
    /\ spot = [i \in Items |-> NoSpot]
    /\ reads = [x \in ReadingIds |-> NoRow]
    /\ work = [w \in Workers |-> Resting]

Rows == {x \in ReadingIds : reads[x].qc # "NONE"}
NextRow == Cardinality(Rows) + 1
Bound == {b \in BindingIds : binding[b].inst # 0}
Superseded(x) == \E y \in Rows : reads[y].of = x
Active == IF removed = Forever THEN 1 ELSE 2
LifeOf(i) == IF i = 1 THEN [from |-> 0, to |-> removed]
             ELSE [from |-> removed, to |-> Forever]
UnchangedDevices == UNCHANGED <<device, binding, removed>>
UnchangedReads == UNCHANGED <<spot, reads>>
-----------------------------------------------------------------------------
(* resolveBindingChain and resolvePlanItem.                                *)
Covering(at) == {b \in Bound : binding[b].from <= at /\ at < binding[b].to}
Candidates == {i \in Items : spot[i].status # "NONE"}
Exact(inst) == {i \in Candidates : spot[i].planned = inst}
Resolved(inst) ==
    IF Cardinality(Exact(inst)) = 1 THEN Exact(inst)
    ELSE IF Exact(inst) = {} /\ Cardinality(Candidates) = 1 THEN Candidates ELSE {}

Settle(k, e, status, via) ==
    event' = [event EXCEPT ![k] = [e EXCEPT !.status = status,
                                            !.via = IF via = 0 THEN @ ELSE via]]

(* processEventTx up to the lock on the item; e is the row it works on.    *)
Process(w, k, e) ==
    IF ~ device \/ Covering(e.at) = {}
    THEN Settle(k, e, "UNBOUND", 0) /\ UNCHANGED work
    ELSE LET b == CHOOSE c \in Covering(e.at) : TRUE
             found == Resolved(binding[b].inst)
         IN  IF Candidates = {}
             THEN Settle(k, e, "WAITING_PLAN", b) /\ UNCHANGED work
             ELSE IF found = {}
             THEN Settle(k, e, "FAILED", b) /\ UNCHANGED work
             ELSE /\ \E i \in found :
                       work' = [work EXCEPT ![w] =
                                  [at |-> "judge", key |-> k, row |-> e, via |-> b,
                                   inst |-> binding[b].inst, item |-> i,
                                   seen |-> spot[i]]]
                  /\ UNCHANGED event

NeverBusy(k) == FALSE    \* faulty variant: the row of the event is not locked
Busy(k) == \E w \in Workers : work[w].at = "judge" /\ work[w].key = k

(* ingestOne.  The insert of a key waits for whoever inserts the same key; *)
(* a repetition, of the same body or another, only adds to the log.        *)
Ingest(w, m) ==
    /\ work[w] = Resting /\ ~ Busy(m.key)
    /\ IF event[m.key].status = "NONE"
       THEN Process(w, m.key, [NoEvent EXCEPT !.body = m.body, !.at = m.at])
       ELSE UNCHANGED <<event, work>>
    /\ UnchangedDevices /\ UnchangedReads

Replay(w, k) ==
    /\ work[w] = Resting /\ ~ Busy(k)
    /\ event[k].status \in Replayable
    /\ Process(w, k, event[k])
    /\ UnchangedDevices /\ UnchangedReads

GiveUp(w) ==
    /\ work[w] # Resting
    /\ work' = [work EXCEPT ![w] = Resting]
    /\ UNCHANGED event /\ UnchangedDevices /\ UnchangedReads

NewRow(row, i) ==
    /\ reads' = [reads EXCEPT ![NextRow] = row]
    /\ spot' = [spot EXCEPT ![i].status = "READ", ![i].done = NextRow]

(* The rest of processEventTx, under the lock on the item.  The faulty     *)
(* variant judges by what it saw before the lock.                          *)
SeenBefore(w) == work[w].seen
SeenNow(w) == spot[work[w].item]
Judge(w) ==
    /\ work[w] # Resting
    /\ LET j == work[w]
           fresh == SeenNow(w)
           row == [item |-> j.item, inst |-> j.inst, qc |-> "PENDING",
                   source |-> j.key, of |-> 0]
       IN  IF fresh.status = "READ" /\ reads[fresh.done].qc # "REJECTED"
           THEN Settle(j.key, j.row, "CONFLICT", j.via) /\ UnchangedReads
           ELSE /\ NextRow <= MaxReadings
                /\ NewRow(IF fresh.status = "READ"
                          THEN [row EXCEPT !.inst = reads[fresh.done].inst,
                                           !.of = fresh.done]
                          ELSE row, j.item)
                /\ Settle(j.key, j.row, "CONVERTED", j.via)
    /\ work' = [work EXCEPT ![w] = Resting]
    /\ UnchangedDevices

(* resolveConflictTx.                                                      *)
KeepActual(k) ==
    /\ event[k].status = "CONFLICT"
    /\ ~ Busy(k)
    /\ Settle(k, event[k], "IGNORED", 0)
    /\ UNCHANGED work /\ UnchangedDevices /\ UnchangedReads

UseRemote(k) ==
    /\ event[k].status = "CONFLICT" /\ NextRow <= MaxReadings
    /\ ~ Busy(k)
    /\ \E i \in Resolved(binding[event[k].via].inst) :
          /\ spot[i].done # 0
          /\ NewRow([item |-> i, inst |-> reads[spot[i].done].inst, qc |-> "PENDING",
                     source |-> k, of |-> spot[i].done], i)
    /\ Settle(k, event[k], "CONVERTED", 0)
    /\ UNCHANGED work /\ UnchangedDevices
-----------------------------------------------------------------------------
(* The manual side: a plan is made, its item is read or not, a reading is  *)
(* checked (a verdict is final) and corrected (one correction per row).    *)
MakeItem(i) ==
    /\ spot[i].status = "NONE"
    /\ spot' = [spot EXCEPT ![i] = [NoSpot EXCEPT !.status = "PENDING", !.planned = Active]]
    /\ UNCHANGED <<event, reads, work>> /\ UnchangedDevices

EnterReading(i) ==
    /\ spot[i].status \in Open /\ NextRow <= MaxReadings
    /\ NewRow([item |-> i, inst |-> Active, qc |-> "PENDING", source |-> "manual",
               of |-> 0], i)
    /\ UNCHANGED <<event, work>> /\ UnchangedDevices

EnterNoRead(i) ==
    /\ spot[i].status = "PENDING"
    /\ spot' = [spot EXCEPT ![i].status = "NO_READ"]
    /\ UNCHANGED <<event, reads, work>> /\ UnchangedDevices

Verdict(x, qc) ==
    /\ reads[x].qc = "PENDING"
    /\ reads' = [reads EXCEPT ![x].qc = qc]
    /\ UNCHANGED <<event, spot, work>> /\ UnchangedDevices

NotSuperseded(x) == ~ Superseded(x)
CorrectReading(x) ==
    /\ x \in Rows /\ NotSuperseded(x) /\ NextRow <= MaxReadings
    /\ NewRow([reads[x] EXCEPT !.qc = "PENDING", !.source = "manual", !.of = x],
              reads[x].item)
    /\ UNCHANGED <<event, work>> /\ UnchangedDevices
-----------------------------------------------------------------------------
(* Devices, bindings and the exchange of the meter.                        *)
Disjoint(from, to, others) ==
    \A b \in others : to <= binding[b].from \/ binding[b].to <= from

Bind(inst, from, to) ==
    /\ from < to
    /\ inst = 2 => removed # Forever
    /\ LifeOf(inst).from <= from /\ to <= LifeOf(inst).to
    /\ Disjoint(from, to, Bound)
    /\ Cardinality(Bound) < MaxBindings
    /\ binding' = [binding EXCEPT ![Cardinality(Bound) + 1] =
                     [inst |-> inst, from |-> from, to |-> to]]
    /\ UNCHANGED <<event, device, removed, work>> /\ UnchangedReads

(* No committed event that was resolved through b is at or after "to".     *)
NoneAfter(b, to) == \A k \in Keys : event[k].via = b => event[k].at < to

Rebind(b, to) ==
    /\ b \in Bound /\ to # binding[b].to
    /\ binding[b].from < to /\ to <= LifeOf(binding[b].inst).to
    /\ NoneAfter(b, to)
    /\ Disjoint(binding[b].from, to, Bound \ {b})
    /\ binding' = [binding EXCEPT ![b].to = to]
    /\ UNCHANGED <<event, device, removed, work>> /\ UnchangedReads

(* replaceTx of the installation, with closeBindingsTx; the table refuses  *)
(* a binding that would end before it begins.                              *)
Closable(at) == {b \in Bound : binding[b].to > at}
Exchange(at) ==
    /\ removed = Forever
    /\ \A b \in Closable(at) : NoneAfter(b, at) /\ binding[b].from < at
    /\ binding' = [b \in BindingIds |->
                     IF b \in Closable(at) THEN [binding[b] EXCEPT !.to = at]
                     ELSE binding[b]]
    /\ removed' = at
    /\ UNCHANGED <<event, device, work>> /\ UnchangedReads

SwitchDevice ==
    /\ device' = ~ device
    /\ UNCHANGED <<event, binding, removed, work>> /\ UnchangedReads
-----------------------------------------------------------------------------
RemoteNext ==
    \/ \E w \in Workers, m \in Messages : Ingest(w, m)
    \/ \E w \in Workers, k \in Keys : Replay(w, k)
    \/ \E w \in Workers : Judge(w) \/ GiveUp(w)
    \/ \E k \in Keys : KeepActual(k) \/ UseRemote(k)
    \/ \E i \in Items : MakeItem(i) \/ EnterReading(i) \/ EnterNoRead(i)
    \/ \E x \in Rows, qc \in {"PASSED", "REJECTED"} : Verdict(x, qc)
    \/ \E x \in Rows : CorrectReading(x)
    \/ \E i \in Installations, f \in Instants, t \in Instants \cup {Forever} : Bind(i, f, t)
    \/ \E b \in BindingIds, t \in Instants \cup {Forever} : Rebind(b, t)
    \/ \E t \in Instants : Exchange(t)
    \/ SwitchDevice

RemoteSpec == RemoteInit /\ [][RemoteNext]_remoteVars
-----------------------------------------------------------------------------
(* Types, and what the exclusion constraint and the containment check      *)
(* promise of the bindings: they do not overlap and stay within the life   *)
(* of their installation.                                                  *)
RemoteTypeOK ==
    /\ \A k \in Keys :
          event[k].status \in {"NONE", "CONFLICT"} \cup Replayable \cup Terminal
    /\ \A i \in Items : spot[i].status \in Open \cup {"NONE", "READ"}
    /\ \A x \in ReadingIds : reads[x].of < x
    /\ \A b \in Bound : /\ LifeOf(binding[b].inst).from <= binding[b].from
                        /\ binding[b].to <= LifeOf(binding[b].inst).to
    /\ \A b, c \in Bound : b # c => binding[b].to <= binding[c].from
                                      \/ binding[c].to <= binding[b].from

(* "One raw event yields at most one business reading", however often it   *)
(* is sent, replayed and resolved; and it yields one exactly when it is    *)
(* CONVERTED.                                                              *)
ConvertedOnce ==
    \A k \in Keys :
        Cardinality({x \in Rows : reads[x].source = k})
          = IF event[k].status = "CONVERTED" THEN 1 ELSE 0

(* The readings of an item are one chain of corrections, and the item      *)
(* points at its end: no manual and remote entry both start one, and none  *)
(* is left behind.                                                         *)
ItemPointsAtHead ==
    \A i \in Items :
        LET chain == {x \in Rows : reads[x].item = i}
        IN  /\ Cardinality({x \in chain : ~ Superseded(x)}) <= 1
            /\ Cardinality({x \in chain : reads[x].of = 0}) <= 1
            /\ chain # {} => spot[i].done \in chain /\ ~ Superseded(spot[i].done)
=============================================================================
