------------------------- MODULE ServiceOrdersProofs -------------------------
(***************************************************************************)
(* Meters, accounts and orders, for any numbers of them.  Every write of   *)
(* an installation reads the account under its lock, so that none lands on *)
(* an account closed meanwhile; every write that checks the meter flips it *)
(* with a guard; and an order is flipped, with a guard, in the transaction *)
(* that does its work.  What no guard covers is in careless.               *)
(***************************************************************************)
EXTENDS ServiceOrders, FiniteSetTheorems, TLAPS

InstRows == [acct : Accounts \cup {"none"}, meter : Meters \cup {"none"},
             live : BOOLEAN]
MeterRows == [status : MeterStatuses, stocked : BOOLEAN]
PlaceTypes ==
    /\ acct \in [Accounts -> AccountStatuses]
    /\ meter \in [Meters -> MeterRows]
    /\ inst \in [Ids -> InstRows]
    /\ careless \in SUBSET Meters

(* The rows of meter_installation have the first ids.                      *)
RowsInOrder ==
    /\ \E n \in 0 .. MaxInstallations : \A i \in Ids : inst[i].acct # "none" <=> i <= n
    /\ \A i \in Live : inst[i].acct # "none" /\ inst[i].meter # "none"

HangsOnce(m) ==
    IF meter[m].status = "INSTALLED" THEN \E i \in Ids : LiveOf(m) = {i}
    ELSE LiveOf(m) = {}
OnePlace == \A m \in Meters \ careless : HangsOnce(m)

(* A meter that is in no table is nowhere.                                 *)
Unfiled == \A m \in Meters :
    meter[m].status = "NONE" => ~ meter[m].stocked /\ LiveOf(m) = {}

PlaceInv == PlaceTypes /\ RowsInOrder /\ OnePlace /\ ClosedHasNoMeter /\ Unfiled

(* What a request keeps of what it has read.                               *)
WorkOK(r) ==
    /\ r.do = "install" => /\ r.acct \in Accounts /\ r.meter \in Meters
                           /\ r.seen \in MeterRows
    /\ r.do = "handle" => /\ r.meter \in Meters /\ r.to \in MeterRows
                          /\ r.to.status \notin {"INSTALLED", "NONE"}
    /\ r.do \in {"return", "info"} => r.acct \in Accounts
    /\ r.do = "activate" => /\ r.acct \in Accounts /\ r.meter \in Meters
                            /\ r.mounts \in BOOLEAN
    /\ r.do = "execute" => r.order \in Orders
    /\ r.do = "verdict" => r.offence \in Violations
    /\ r.do = "scan" => r.inst \in Ids /\ "CHECK" \in Kinds
WorkInv == /\ DOMAIN work = Workers
           /\ \A w \in Workers : WorkOK(work[w])

OrderRows == [status : {"NONE", "PENDING_APPROVAL", "APPROVED", "DISPATCHED", "EXECUTED",
                        "ARCHIVED", "REJECTED", "CANCELLED"},
              kind : Kinds \cup {"none"}, acct : Accounts \cup {"none"},
              inst : Ids \cup {0}, swap : BOOLEAN]
KindsKnown == \A o \in Orders : order[o].status # "NONE" => order[o].kind \in Kinds
OrderInv == /\ order \in [Orders -> OrderRows] /\ KindsKnown
            /\ effects \in [Orders -> Nat]
            /\ DoneOnce

FieldInv == PlaceInv /\ WorkInv /\ OrderInv
-----------------------------------------------------------------------------
(* The next row of meter_installation is a new one.                        *)
LEMMA NextRow ==
    ASSUME PlaceTypes, RowsInOrder
    PROVE  /\ NewId \in Nat
           /\ \A i \in Ids : inst[i].acct # "none" <=> i < NewId
<1>1. PICK n \in 0 .. MaxInstallations :
          \A i \in Ids : inst[i].acct # "none" <=> i <= n
  BY DEF RowsInOrder
<1>2. Used = 1 .. n
  BY <1>1, StartsAssumption DEF Used, Ids
<1>3. Cardinality(1 .. n) = n
  <2>1. 1 \in Int /\ n \in Int /\ n \in Nat
    BY StartsAssumption
  <2> QED
    BY <2>1, FS_Interval, SMT
<1>4. NewId = n + 1
  BY <1>2, <1>3 DEF NewId
<1> QED
  BY <1>1, <1>4, StartsAssumption DEF Ids

(* Nothing is mounted or taken down; statuses change as they may.          *)
LEMMA StatusKeeps ==
    ASSUME PlaceInv, inst' = inst, careless \subseteq careless',
           PlaceTypes',
           \A m \in Meters \ careless' :
              LET was == meter[m].status = "INSTALLED"
                  is  == meter'[m].status = "INSTALLED"
              IN  was <=> is,
           \A m \in Meters : meter'[m].status = "NONE" => meter'[m] = meter[m],
           \A a \in Accounts : acct'[a] = "CLOSED" =>
              acct[a] = "CLOSED" \/ LiveAt(a) = {}
    PROVE  PlaceInv'
<1>1. RowsInOrder'
  BY DEF PlaceInv, RowsInOrder, Live
<1>2. /\ \A m \in Meters : LiveOf(m)' = LiveOf(m)
      /\ \A a \in Accounts : LiveAt(a)' = LiveAt(a)
  BY DEF LiveOf, LiveAt, Live
<1>3. OnePlace'
  BY <1>2 DEF PlaceInv, OnePlace, HangsOnce
<1>4. ClosedHasNoMeter'
  BY <1>2 DEF PlaceInv, ClosedHasNoMeter
<1>5. Unfiled'
  BY <1>2 DEF PlaceInv, Unfiled
<1> QED
  BY <1>1, <1>3, <1>4, <1>5 DEF PlaceInv

(* A meter is hung up at an account that is not closed.                    *)
LEMMA PutKeeps ==
    ASSUME PlaceInv, NEW a \in Accounts, NEW m \in Meters,
           NewId \in Ids, Put(a, m), PlaceTypes',
           careless \subseteq careless',
           acct'[a] # "CLOSED",
           \A b \in Accounts : acct'[b] = "CLOSED" => acct[b] = "CLOSED",
           meter'[m].status = "INSTALLED",
           \A x \in Meters \ {m} : meter'[x] = meter[x],
           m \in careless' \/ LiveOf(m) = {}
    PROVE  PlaceInv'
<1>1. /\ inst' = [inst EXCEPT ![NewId] = [acct |-> a, meter |-> m, live |-> TRUE]]
      /\ inst \in [Ids -> InstRows]
      /\ \A i \in Ids : inst[i].acct # "none" <=> i < NewId
      /\ NewId \in Nat
  BY NextRow DEF Put, PlaceInv, PlaceTypes
<1> DEFINE k == NewId
<1>2. k \notin Live
  BY <1>1 DEF PlaceInv, RowsInOrder, Live
<1>3. Live' = Live \cup {k}
  BY <1>1 DEF Live
<1>4. /\ \A i \in Ids \ {k} : inst'[i] = inst[i]
      /\ inst'[k].acct = a /\ inst'[k].meter = m
  BY <1>1
<1> HIDE DEF k
<1>5. RowsInOrder'
  <2>1. \A i \in Ids : inst'[i].acct # "none" <=> i <= k
    BY <1>1, <1>4, StartsAssumption DEF Ids, k
  <2>2. k \in 0 .. MaxInstallations
    BY <1>1, StartsAssumption DEF Ids, k
  <2>3. \A i \in Live' : inst'[i].acct # "none" /\ inst'[i].meter # "none"
    BY <1>3, <1>4, StartsAssumption DEF PlaceInv, RowsInOrder, Live
  <2> QED
    BY <2>1, <2>2, <2>3 DEF RowsInOrder
<1>6. /\ LiveOf(m)' = LiveOf(m) \cup {k}
      /\ \A x \in Meters \ {m} : LiveOf(x)' = LiveOf(x)
      /\ LiveAt(a)' = LiveAt(a) \cup {k}
      /\ \A b \in Accounts \ {a} : LiveAt(b)' = LiveAt(b)
  BY <1>2, <1>3, <1>4 DEF LiveOf, LiveAt, Live
<1>7. OnePlace'
  <2>1. m \in Meters \ careless' => HangsOnce(m)'
    BY <1>1, <1>6 DEF HangsOnce, k
  <2>2. \A x \in Meters \ careless' : x # m => HangsOnce(x)'
    BY <1>6 DEF HangsOnce, PlaceInv, OnePlace
  <2> QED
    BY <2>1, <2>2 DEF OnePlace
<1>8. ClosedHasNoMeter'
  BY <1>6 DEF PlaceInv, ClosedHasNoMeter
<1>9. Unfiled'
  BY <1>6 DEF PlaceInv, Unfiled
<1> QED
  BY <1>5, <1>7, <1>8, <1>9 DEF PlaceInv

(* A meter is taken down, and its account may be closed with it.           *)
LEMMA RemoveKeeps ==
    ASSUME PlaceInv, NEW i \in Live, inst' = Removed(i),
           SetStatus(inst[i].meter, "AVAILABLE"), careless' = careless,
           acct' \in [Accounts -> AccountStatuses],
           \A a \in Accounts : acct'[a] = "CLOSED" =>
              acct[a] = "CLOSED" \/ LiveAt(a) \ {i} = {}
    PROVE  PlaceInv'
<1>1. i \in Ids /\ inst[i].meter \in Meters /\ inst \in [Ids -> InstRows]
  BY DEF PlaceInv, PlaceTypes, RowsInOrder, Live, InstRows
<1>m. PICK m \in Meters : m = inst[i].meter
  BY <1>1
<1>2. /\ inst' \in [Ids -> InstRows]
      /\ \A j \in Ids : inst'[j].acct = inst[j].acct /\ inst'[j].meter = inst[j].meter
      /\ \A j \in Ids : inst'[j].live = (inst[j].live /\ j # i)
  BY <1>1 DEF Removed, InstRows
<1>3. Live' = Live \ {i}
  BY <1>2 DEF Live
<1>4. /\ \A x \in Meters : LiveOf(x)' = LiveOf(x) \ {i}
      /\ \A a \in Accounts : LiveAt(a)' = LiveAt(a) \ {i}
  BY <1>2, <1>3 DEF LiveOf, LiveAt, Live
<1>5. /\ meter' \in [Meters -> MeterRows] /\ meter'[m].status = "AVAILABLE"
      /\ \A x \in Meters \ {m} : meter'[x] = meter[x]
  BY <1>1, <1>m DEF SetStatus, PlaceInv, PlaceTypes, MeterRows, MeterStatuses
<1>6. PlaceTypes'
  BY <1>2, <1>5 DEF PlaceTypes, PlaceInv
<1>7. RowsInOrder'
  BY <1>2, <1>3 DEF PlaceInv, RowsInOrder, Live
<1>8. OnePlace'
  <2>1. ASSUME NEW x \in Meters \ careless, x # m PROVE HangsOnce(x)'
    <3>1. i \notin LiveOf(x)
      BY <2>1, <1>m DEF LiveOf
    <3> QED
      BY <2>1, <3>1, <1>4, <1>5 DEF PlaceInv, OnePlace, HangsOnce
  <2>2. ASSUME m \in Meters \ careless PROVE HangsOnce(m)'
    <3>1. i \in LiveOf(m)
      BY <1>m DEF LiveOf
    <3>2. LiveOf(m) = {i}
      BY <2>2, <3>1 DEF PlaceInv, OnePlace, HangsOnce
    <3> QED
      BY <3>2, <1>1, <1>4, <1>5 DEF HangsOnce
  <2> QED
    BY <2>1, <2>2, careless' = careless DEF OnePlace
<1>9. ClosedHasNoMeter'
  BY <1>4 DEF PlaceInv, ClosedHasNoMeter
<1>10. Unfiled'
  BY <1>4, <1>5, <1>m DEF PlaceInv, Unfiled
<1> QED
  BY <1>6, <1>7, <1>8, <1>9, <1>10 DEF PlaceInv

(* A meter is taken down and another one hung up in its place.             *)
LEMMA ReplaceKeeps ==
    ASSUME PlaceInv, NEW i \in Ids, NEW m \in Meters, Replace(i, m)
    PROVE  PlaceInv'
<1>1. /\ i \in Live /\ inst[i].meter \in Meters /\ inst[i].acct \in Accounts
      /\ inst \in [Ids -> InstRows]
  BY DEF Replace, PlaceInv, PlaceTypes, RowsInOrder, Live, InstRows
<1>2. PICK old \in Meters, a \in Accounts : old = inst[i].meter /\ a = inst[i].acct
  BY <1>1
<1>3. /\ NewId \in Ids /\ NewId \in Nat
      /\ \A j \in Ids : inst[j].acct # "none" <=> j < NewId
  BY NextRow DEF Replace, PlaceInv
<1>4. PICK k \in Ids : k = NewId
  BY <1>3
<1>5. k \notin Live /\ k # i
  BY <1>1, <1>3, <1>4 DEF PlaceInv, RowsInOrder, Live
<1>6. /\ m # old /\ acct[a] # "CLOSED" /\ meter[old].status = "INSTALLED"
      /\ meter[m].status \in Mountable
      /\ meter' = [meter EXCEPT ![old].status = "AVAILABLE",
                                ![m] = [status |-> "INSTALLED", stocked |-> FALSE]]
      /\ inst' = [[inst EXCEPT ![i].live = FALSE] EXCEPT
                    ![k] = [acct |-> a, meter |-> m, live |-> TRUE]]
      /\ UNCHANGED <<acct, careless>>
  BY <1>2, <1>4 DEF Replace, Removed, FreeToMount
<1>7. /\ inst' \in [Ids -> InstRows]
      /\ inst'[k].acct = a /\ inst'[k].meter = m /\ inst'[k].live
      /\ \A j \in Ids \ {k} : /\ inst'[j].acct = inst[j].acct
                              /\ inst'[j].meter = inst[j].meter
                              /\ inst'[j].live = (inst[j].live /\ j # i)
  BY <1>1, <1>5, <1>6 DEF InstRows
<1>8. /\ meter' \in [Meters -> MeterRows]
      /\ meter'[old].status = "AVAILABLE" /\ meter'[m].status = "INSTALLED"
      /\ \A x \in Meters \ {old, m} : meter'[x] = meter[x]
  BY <1>6 DEF PlaceInv, PlaceTypes, MeterRows, MeterStatuses
<1>9. PlaceTypes'
  BY <1>6, <1>7, <1>8 DEF PlaceTypes, PlaceInv
<1>10. Live' = (Live \ {i}) \cup {k}
  BY <1>5, <1>7 DEF Live
<1>11. RowsInOrder'
  <2>1. \A j \in Ids : inst'[j].acct # "none" <=> j <= k
    BY <1>3, <1>4, <1>7, StartsAssumption DEF Ids
  <2>2. k \in 0 .. MaxInstallations
    BY StartsAssumption DEF Ids
  <2>3. \A j \in Live' : inst'[j].acct # "none" /\ inst'[j].meter # "none"
    BY <1>7, <1>10, StartsAssumption DEF PlaceInv, RowsInOrder, Live
  <2> QED
    BY <2>1, <2>2, <2>3 DEF RowsInOrder
<1>12. /\ LiveOf(m)' = (LiveOf(m) \ {i}) \cup {k}
       /\ \A x \in Meters \ {m} : LiveOf(x)' = LiveOf(x) \ {i}
       /\ LiveAt(a)' = (LiveAt(a) \ {i}) \cup {k}
       /\ \A b \in Accounts \ {a} : LiveAt(b)' = LiveAt(b) \ {i}
  BY <1>5, <1>7, <1>10 DEF LiveOf, LiveAt, Live
<1>13. i \in LiveOf(old) /\ \A x \in Meters \ {old} : i \notin LiveOf(x)
  BY <1>1, <1>2 DEF LiveOf
<1>14. OnePlace'
  <2>1. ASSUME m \in Meters \ careless PROVE HangsOnce(m)'
    <3>1. LiveOf(m) = {}
      BY <2>1, <1>6 DEF PlaceInv, OnePlace, HangsOnce, Mountable
    <3> QED
      BY <3>1, <1>8, <1>12 DEF HangsOnce
  <2>2. ASSUME old \in Meters \ careless PROVE HangsOnce(old)'
    <3>1. LiveOf(old) = {i}
      BY <2>2, <1>6, <1>13 DEF PlaceInv, OnePlace, HangsOnce
    <3> QED
      BY <3>1, <1>6, <1>8, <1>12 DEF HangsOnce
  <2>3. ASSUME NEW x \in Meters \ careless, x # m, x # old PROVE HangsOnce(x)'
    BY <2>3, <1>8, <1>12, <1>13 DEF PlaceInv, OnePlace, HangsOnce
  <2> QED
    BY <2>1, <2>2, <2>3, <1>6 DEF OnePlace
<1>15. ClosedHasNoMeter'
  BY <1>6, <1>12 DEF PlaceInv, ClosedHasNoMeter
<1>16. Unfiled'
  BY <1>8, <1>12 DEF PlaceInv, Unfiled
<1> QED
  BY <1>9, <1>11, <1>14, <1>15, <1>16 DEF PlaceInv
-----------------------------------------------------------------------------
(* The requests: what is read is kept as it should be, and reading changes *)
(* no place and no order.                                                  *)
LEMMA BeginKeeps ==
    ASSUME WorkInv, NEW w \in Workers, NEW r, WorkOK(r),
           work' = [work EXCEPT ![w] = r]
    PROVE  WorkInv'
BY DEF WorkInv

LEMMA RestKeeps ==
    ASSUME WorkInv, NEW w \in Workers, EndWork(w)
    PROVE  WorkInv'
BY BeginKeeps DEF EndWork, WorkOK, Idle

LEMMA ReadStep ==
    ASSUME PlaceInv, WorkInv, NEW w \in Workers, Read(w)
    PROVE  UNCHANGED <<acct, meter, inst, careless>> /\ WorkInv'
<1> USE DEF Begin, placeVars
<1>1. CASE \E a \in Accounts : ReadForReturn(w, a) \/ ReadForInfo(w, a)
  BY <1>1, BeginKeeps DEF ReadForReturn, ReadForInfo, WorkOK
<1>2. CASE \E a \in Accounts, m \in Meters : ReadForInstall(w, a, m)
  BY <1>2, BeginKeeps DEF ReadForInstall, WorkOK, PlaceInv, PlaceTypes
<1>3. CASE \E a \in Accounts, m \in Meters : ReadForActivate(w, a, m)
  BY <1>3, BeginKeeps DEF ReadForActivate, WorkOK
<1>4. ASSUME NEW m \in Meters, NEW t \in DOMAIN After, ReadForMove(w, m, t)
      PROVE  UNCHANGED <<acct, meter, inst, careless>> /\ WorkInv'
  <2>1. After[t] \in MeterRows /\ After[t].status \notin {"INSTALLED", "NONE"}
    <3>1. DOMAIN After = {"PURCHASE_IN", "RETURN_IN", "TRANSFER", "ISSUE_OUT", "SCRAP_OUT"}
      BY DEF After
    <3>2. t \in {"PURCHASE_IN", "RETURN_IN", "TRANSFER", "ISSUE_OUT", "SCRAP_OUT"}
      BY <3>1
    <3>3. /\ After["PURCHASE_IN"] = [status |-> "AVAILABLE", stocked |-> TRUE]
          /\ After["RETURN_IN"] = [status |-> "AVAILABLE", stocked |-> TRUE]
          /\ After["TRANSFER"] = [status |-> "IN_TRANSIT", stocked |-> TRUE]
          /\ After["ISSUE_OUT"] = [status |-> "ISSUED", stocked |-> FALSE]
          /\ After["SCRAP_OUT"] = [status |-> "RETIRED", stocked |-> FALSE]
      BY DEF After
    <3>4. \E st \in MeterStatuses \ {"INSTALLED", "NONE"}, b \in BOOLEAN :
             After[t] = [status |-> st, stocked |-> b]
      BY <3>2, <3>3 DEF MeterStatuses
    <3> QED
      BY <3>4 DEF MeterRows
  <2> QED
    BY <1>4, <2>1, BeginKeeps DEF ReadForMove, AskHandling, WorkOK
<1>5. ASSUME NEW m \in Meters, NEW st \in {"AVAILABLE", "MAINTENANCE", "RETIRED"},
             ReadForPatch(w, m, st)
      PROVE  UNCHANGED <<acct, meter, inst, careless>> /\ WorkInv'
  <2>1. [status |-> st, stocked |-> meter[m].stocked] \in MeterRows
    BY DEF PlaceInv, PlaceTypes, MeterRows, MeterStatuses
  <2> QED
    BY <1>5, <2>1, BeginKeeps DEF ReadForPatch, AskHandling, WorkOK
<1>6. CASE \E to \in {"SURVEYED", "APPROVED", "INSTALLING", "REJECTED", "CANCELLED"} :
             ReadForStage(w, to)
  BY <1>6, BeginKeeps DEF ReadForStage, WorkOK
<1>7. CASE ReadForFilling(w) \/ ReadForAllocate(w)
  BY <1>7, BeginKeeps DEF ReadForFilling, ReadForAllocate, WorkOK
<1> QED
  BY <1>1, <1>2, <1>3, <1>4, <1>5, <1>6, <1>7 DEF Read

LEMMA CommitStep ==
    ASSUME PlaceInv, WorkInv, NEW w \in Workers, Commit(w)
    PROVE  PlaceInv' /\ WorkInv'
<1> USE DEF UnchangedMeters
<1>1. CASE Install(w)
  <2> DEFINE a == work[w].acct
             m == work[w].meter
  <2>1. a \in Accounts /\ m \in Meters /\ work[w].seen \in MeterRows
    BY <1>1 DEF Install, WorkInv, WorkOK
  <2>2. /\ acct[a] # "CLOSED" /\ meter[m].status \in Mountable /\ NewId \in Ids
        /\ Put(a, m) /\ UNCHANGED <<acct, careless>>
        /\ meter' = [meter EXCEPT ![m] = [status |-> "INSTALLED",
                        stocked |-> @.stocked /\ ~ work[w].seen.stocked]]
    BY <1>1 DEF Install, AccountOpen, StillMountable
  <2>3. meter' \in [Meters -> MeterRows] /\ meter'[m].status = "INSTALLED"
        /\ \A x \in Meters \ {m} : meter'[x] = meter[x]
    BY <2>1, <2>2 DEF PlaceInv, PlaceTypes, MeterRows, MeterStatuses
  <2>4. inst' \in [Ids -> InstRows]
    BY <2>1, <2>2 DEF Put, PlaceInv, PlaceTypes, InstRows
  <2>5. m \in careless \/ LiveOf(m) = {}
    BY <2>1, <2>2 DEF PlaceInv, OnePlace, HangsOnce, Mountable
  <2> HIDE DEF a, m
  <2>6. PlaceTypes'
    BY <2>2, <2>3, <2>4 DEF PlaceTypes, PlaceInv
  <2>7. PlaceInv'
    BY <2>1, <2>2, <2>3, <2>5, <2>6, PutKeeps
  <2> QED
    BY <1>1, <2>7, RestKeeps DEF Install
<1>2. CASE Handle(w)
  <2> DEFINE m == work[w].meter
  <2>1. /\ m \in Meters /\ work[w].to \in MeterRows
        /\ work[w].to.status \notin {"INSTALLED", "NONE"}
    BY <1>2 DEF Handle, WorkInv, WorkOK
  <2>2. /\ meter' = [meter EXCEPT ![m] = work[w].to]
        /\ UNCHANGED <<acct, inst>>
        /\ careless' = IF LiveOf(m) # {} THEN careless \cup {m} ELSE careless
    BY <1>2 DEF Handle, NoteHit, Hit
  <2> HIDE DEF m
  <2>3. PlaceTypes'
    BY <2>1, <2>2 DEF PlaceTypes, PlaceInv
  <2>4. ASSUME NEW x \in Meters \ careless'
        PROVE  (meter[x].status = "INSTALLED") <=> (meter'[x].status = "INSTALLED")
    <3>1. CASE x # m
      BY <2>1, <2>2, <3>1 DEF PlaceInv, PlaceTypes
    <3>2. CASE x = m
      BY <2>1, <2>2, <3>2 DEF PlaceInv, PlaceTypes, OnePlace, HangsOnce
    <3> QED
      BY <3>1, <3>2
  <2>5. \A x \in Meters : meter'[x].status = "NONE" => meter'[x] = meter[x]
    BY <2>1, <2>2 DEF PlaceInv, PlaceTypes
  <2>6. PlaceInv'
    BY <2>2, <2>3, <2>4, <2>5, StatusKeeps
  <2> QED
    BY <1>2, <2>6, RestKeeps DEF Handle
<1>3. CASE Stage(w)
  <2>1. UNCHANGED <<acct, meter, inst, careless>> /\ EndWork(w)
    BY <1>3 DEF Stage, UnchangedPlaces
  <2>2. PlaceTypes'
    BY <2>1 DEF PlaceInv, PlaceTypes
  <2> QED
    BY <2>1, <2>2, StatusKeeps, RestKeeps
<1>4. CASE Return(w)
  <2> DEFINE a == work[w].acct
  <2>1. a \in Accounts
    BY <1>4 DEF Return, WorkInv, WorkOK
  <2>2. /\ acct' = [acct EXCEPT ![a] = "RETURNED"]
        /\ UNCHANGED <<meter, inst, careless>> /\ EndWork(w)
    BY <1>4 DEF Return
  <2> HIDE DEF a
  <2>3. PlaceTypes'
    BY <2>1, <2>2 DEF PlaceInv, PlaceTypes, AccountStatuses
  <2>4. \A b \in Accounts : acct'[b] = "CLOSED" => acct[b] = "CLOSED"
    BY <2>1, <2>2 DEF PlaceInv, PlaceTypes
  <2> QED
    BY <2>2, <2>3, <2>4, StatusKeeps, RestKeeps
<1>5. CASE Activate(w)
  <2> DEFINE a == work[w].acct
             m == work[w].meter
  <2>1. a \in Accounts /\ m \in Meters /\ work[w].mounts \in BOOLEAN
    BY <1>5 DEF Activate, WorkInv, WorkOK
  <2>2. /\ meter' = [meter EXCEPT ![m].status = "INSTALLED"]
        /\ acct' = [acct EXCEPT ![a] = "PENDING_COMPLETE"]
        /\ IF work[w].mounts THEN NewId \in Ids /\ Put(a, m) ELSE UNCHANGED inst
        /\ IF meter[m].status \in Mountable \cup {"NONE"} /\ work[w].mounts
           THEN UNCHANGED careless ELSE careless' = careless \cup {m}
        /\ EndWork(w)
    BY <1>5 DEF Activate, SetStatus, Hit
  <2> HIDE DEF a, m
  <2>3. /\ meter' \in [Meters -> MeterRows] /\ meter'[m].status = "INSTALLED"
        /\ \A x \in Meters \ {m} : meter'[x] = meter[x]
    BY <2>1, <2>2 DEF PlaceInv, PlaceTypes, MeterRows, MeterStatuses
  <2>4. /\ acct' \in [Accounts -> AccountStatuses] /\ acct'[a] # "CLOSED"
        /\ \A b \in Accounts : acct'[b] = "CLOSED" => acct[b] = "CLOSED"
    BY <2>1, <2>2 DEF PlaceInv, PlaceTypes, AccountStatuses
  <2>5. careless \subseteq careless' /\ careless' \in SUBSET Meters
    BY <2>1, <2>2 DEF PlaceInv, PlaceTypes
  <2>6. inst' \in [Ids -> InstRows]
    <3>1. [acct |-> a, meter |-> m, live |-> TRUE] \in InstRows
      BY <2>1 DEF InstRows
    <3>2. inst' = inst \/ inst' = [inst EXCEPT ![NewId] =
                                     [acct |-> a, meter |-> m, live |-> TRUE]]
      BY <2>2 DEF Put
    <3> QED
      BY <3>1, <3>2 DEF PlaceInv, PlaceTypes
  <2>7. PlaceTypes'
    BY <2>3, <2>4, <2>5, <2>6 DEF PlaceTypes
  <2>8. m \in careless' \/ LiveOf(m) = {}
    BY <2>1, <2>2 DEF PlaceInv, OnePlace, HangsOnce, Mountable
  <2>9. CASE work[w].mounts
    <3>1. NewId \in Ids /\ Put(a, m)
      BY <2>2, <2>9
    <3> QED
      BY <3>1, <2>1, <2>2, <2>3, <2>4, <2>5, <2>7, <2>8, PutKeeps, RestKeeps
  <2>10. CASE ~ work[w].mounts
    <3>1. inst' = inst /\ m \in careless'
      BY <2>2, <2>10
    <3>2. \A x \in Meters \ careless' :
             (meter[x].status = "INSTALLED") <=> (meter'[x].status = "INSTALLED")
      BY <3>1, <2>3
    <3>3. \A x \in Meters : meter'[x].status = "NONE" => meter'[x] = meter[x]
      BY <2>3
    <3> QED
      BY <3>1, <3>2, <3>3, <2>2, <2>4, <2>5, <2>7, StatusKeeps, RestKeeps
  <2> QED
    BY <2>1, <2>9, <2>10
<1>6. CASE CompleteInfo(w)
  <2> DEFINE a == work[w].acct
  <2>1. a \in Accounts
    BY <1>6 DEF CompleteInfo, WorkInv, WorkOK
  <2>2. /\ acct' = [acct EXCEPT ![a] = "NORMAL"]
        /\ UNCHANGED <<meter, inst, careless>> /\ EndWork(w)
    BY <1>6 DEF CompleteInfo
  <2> HIDE DEF a
  <2>3. PlaceTypes'
    BY <2>1, <2>2 DEF PlaceInv, PlaceTypes, AccountStatuses
  <2>4. \A b \in Accounts : acct'[b] = "CLOSED" => acct[b] = "CLOSED"
    BY <2>1, <2>2 DEF PlaceInv, PlaceTypes
  <2> QED
    BY <2>2, <2>3, <2>4, StatusKeeps, RestKeeps
<1>7. ASSUME NEW a \in Accounts, NEW s \in Staff, Allocate(w, a, s)
      PROVE  PlaceInv' /\ WorkInv'
  <2>2. /\ acct' = [acct EXCEPT ![a] = "PENDING_ASSIGN"]
        /\ UNCHANGED <<meter, inst, careless>> /\ EndWork(w)
    BY <1>7 DEF Allocate
  <2>3. PlaceTypes'
    BY <2>2 DEF PlaceInv, PlaceTypes, AccountStatuses
  <2>4. \A b \in Accounts : acct'[b] = "CLOSED" => acct[b] = "CLOSED"
    BY <2>2 DEF PlaceInv, PlaceTypes
  <2> QED
    BY <2>2, <2>3, <2>4, StatusKeeps, RestKeeps
<1>8. CASE GiveUp(w)
  <2>1. UNCHANGED <<acct, meter, inst, careless>> /\ EndWork(w)
    BY <1>8 DEF GiveUp, placeVars
  <2>2. PlaceTypes'
    BY <2>1 DEF PlaceInv, PlaceTypes
  <2> QED
    BY <2>1, <2>2, StatusKeeps, RestKeeps
<1> QED
  BY <1>1, <1>2, <1>3, <1>4, <1>5, <1>6, <1>7, <1>8 DEF Commit

LEMMA AtOnceStep ==
    ASSUME PlaceInv, WorkInv, AtOnce
    PROVE  PlaceInv' /\ WorkInv'
<1>1. ASSUME NEW m \in Meters, File(m) PROVE PlaceInv' /\ WorkInv'
  <2>1. /\ meter[m].status = "NONE"
        /\ meter' = [meter EXCEPT ![m] = [status |-> "AVAILABLE", stocked |-> Warehoused]]
        /\ UNCHANGED <<acct, inst, careless, work>>
    BY <1>1 DEF File
  <2>2. PlaceTypes'
    BY <2>1, StartsAssumption DEF PlaceInv, PlaceTypes, MeterRows, MeterStatuses
  <2>3. \A x \in Meters \ careless' :
           (meter[x].status = "INSTALLED") <=> (meter'[x].status = "INSTALLED")
    BY <2>1 DEF PlaceInv, PlaceTypes
  <2>4. \A x \in Meters : meter'[x].status = "NONE" => meter'[x] = meter[x]
    BY <2>1 DEF PlaceInv, PlaceTypes
  <2> QED
    BY <2>1, <2>2, <2>3, <2>4, StatusKeeps DEF WorkInv
<1>2. ASSUME NEW m \in Meters, NEW a \in Accounts, Onboard(a, m)
      PROVE  PlaceInv' /\ WorkInv'
  <2>1. /\ acct[a] = "NONE" /\ NewId \in Ids
        /\ meter[m].status \in {"NONE"} \cup Mountable
        /\ acct' = [acct EXCEPT ![a] = "NORMAL"]
        /\ meter' = [meter EXCEPT ![m] = [status |-> "INSTALLED", stocked |-> FALSE]]
        /\ Put(a, m)
        /\ UNCHANGED <<careless, work>>
    BY <1>2 DEF Onboard, FreeToMount
  <2>2. /\ meter' \in [Meters -> MeterRows] /\ meter'[m].status = "INSTALLED"
        /\ \A x \in Meters \ {m} : meter'[x] = meter[x]
    BY <2>1 DEF PlaceInv, PlaceTypes, MeterRows, MeterStatuses
  <2>3. /\ acct' \in [Accounts -> AccountStatuses] /\ acct'[a] # "CLOSED"
        /\ \A b \in Accounts : acct'[b] = "CLOSED" => acct[b] = "CLOSED"
    BY <2>1 DEF PlaceInv, PlaceTypes, AccountStatuses
  <2>4. inst' \in [Ids -> InstRows]
    <3>1. [acct |-> a, meter |-> m, live |-> TRUE] \in InstRows
      BY DEF InstRows
    <3> QED
      BY <3>1, <2>1 DEF Put, PlaceInv, PlaceTypes
  <2>5. PlaceTypes'
    BY <2>1, <2>2, <2>3, <2>4 DEF PlaceInv, PlaceTypes
  <2>6. m \in careless' \/ LiveOf(m) = {}
    BY <2>1 DEF PlaceInv, OnePlace, HangsOnce, Mountable
  <2> QED
    BY <2>1, <2>2, <2>3, <2>5, <2>6, PutKeeps DEF WorkInv
<1>3. ASSUME NEW i \in Ids, Remove(i), UNCHANGED work PROVE PlaceInv' /\ WorkInv'
  <2>1. acct' \in [Accounts -> AccountStatuses]
    BY <1>3 DEF Remove, PlaceInv, PlaceTypes
  <2> QED
    BY <1>3, <2>1, RemoveKeeps DEF Remove, WorkInv
<1>4. ASSUME NEW i \in Ids, NEW m \in Meters, Replace(i, m), UNCHANGED work
      PROVE  PlaceInv' /\ WorkInv'
  BY <1>4, ReplaceKeeps DEF WorkInv
<1>5. ASSUME NEW a \in Accounts, Suspend(a) \/ Resume(a) \/ Close(a, LiveAt(a)),
             UNCHANGED work, UnchangedMeters
      PROVE  PlaceInv' /\ WorkInv'
  <2>1. \E to \in AccountStatuses :
           /\ acct' = [acct EXCEPT ![a] = to]
           /\ to = "CLOSED" => LiveAt(a) = {}
    BY <1>5 DEF Suspend, Resume, Close, Turn, NoneLeft, AccountStatuses
  <2>2. PlaceTypes'
    BY <1>5, <2>1 DEF PlaceInv, PlaceTypes, UnchangedMeters
  <2>3. \A b \in Accounts : acct'[b] = "CLOSED" => acct[b] = "CLOSED" \/ LiveAt(b) = {}
    BY <2>1 DEF PlaceInv, PlaceTypes
  <2> QED
    BY <1>5, <2>2, <2>3, StatusKeeps DEF UnchangedMeters, WorkInv
<1>6. CASE Submit \/ Archive
  <2>1. UNCHANGED <<acct, meter, inst, careless, work>>
    BY <1>6 DEF Submit, Archive, UnchangedPlaces, placeVars
  <2>2. PlaceTypes'
    BY <2>1 DEF PlaceInv, PlaceTypes
  <2> QED
    BY <2>1, <2>2, StatusKeeps DEF WorkInv
<1> QED
  BY <1>1, <1>2, <1>3, <1>4, <1>5, <1>6 DEF AtOnce
-----------------------------------------------------------------------------
(* The orders.  Only Execute changes a place.                              *)
LEMMA Unplaced ==
    ASSUME PlaceInv, UNCHANGED <<acct, meter, inst, careless>>
    PROVE  PlaceInv'
<1>1. PlaceTypes'
  BY DEF PlaceInv, PlaceTypes
<1> QED
  BY <1>1, StatusKeeps

LEMMA LinkageKeeps ==
    ASSUME PlaceInv, OrderInv, NEW o \in Orders, Linkage(o)
    PROVE  PlaceInv'
<1> USE DEF UnchangedMeters
<1>1. SiteOf(o) \subseteq Ids
  BY DEF SiteOf, OrderInv, OrderRows, Live
<1>2. CASE Exchanged(o)
  BY <1>1, <1>2, ReplaceKeeps DEF Exchanged
<1>3. CASE TakenDown(o)
  <2>1. PICK i \in Live : /\ inst' = Removed(i) /\ SetStatus(inst[i].meter, "AVAILABLE")
                          /\ Close(order[o].acct, LiveAt(order[o].acct) \ {i})
                          /\ careless' = careless
    BY <1>3 DEF TakenDown
  <2>2. /\ acct' = [acct EXCEPT ![order[o].acct] = "CLOSED"]
        /\ LiveAt(order[o].acct) \ {i} = {}
    BY <2>1 DEF Close, Turn, NoneLeft
  <2>3. acct' \in [Accounts -> AccountStatuses]
    BY <2>2 DEF PlaceInv, PlaceTypes, AccountStatuses
  <2>4. \A a \in Accounts : acct'[a] = "CLOSED" =>
           acct[a] = "CLOSED" \/ LiveAt(a) \ {i} = {}
    BY <2>2 DEF PlaceInv, PlaceTypes
  <2> QED
    BY <2>1, <2>3, <2>4, RemoveKeeps
<1>4. CASE (Suspend(order[o].acct) \/ Resume(order[o].acct)) /\ UnchangedMeters
  <2>1. \E to \in AccountStatuses \ {"CLOSED"} :
           acct' = [acct EXCEPT ![order[o].acct] = to]
    BY <1>4 DEF Suspend, Resume, Turn, AccountStatuses
  <2>2. PlaceTypes'
    BY <1>4, <2>1 DEF PlaceInv, PlaceTypes
  <2>3. \A a \in Accounts : acct'[a] = "CLOSED" => acct[a] = "CLOSED"
    BY <2>1 DEF PlaceInv, PlaceTypes
  <2> QED
    BY <1>4, <2>2, <2>3, StatusKeeps
<1>5. CASE UNCHANGED placeVars
  BY <1>5, Unplaced DEF placeVars
<1> QED
  BY <1>2, <1>3, <1>4, <1>5 DEF Linkage

LEMMA PlacedKeeps ==
    ASSUME PlaceInv, OrderInv, NEW o \in Orders, NEW a \in Accounts \cup {"none"},
           NEW kind \in Kinds, NEW i \in Ids \cup {0}, NEW swap \in BOOLEAN,
           NEW approved \in BOOLEAN, Placed(o, a, kind, i, swap, approved)
    PROVE  PlaceInv' /\ OrderInv'
<1>1. /\ order[o].status = "NONE"
      /\ order' = [order EXCEPT ![o] =
           [status |-> IF approved THEN "APPROVED" ELSE "PENDING_APPROVAL",
            kind |-> kind, acct |-> a, inst |-> i, swap |-> swap]]
      /\ UNCHANGED <<placeVars, effects>>
  BY DEF Placed, NoOrder
<1>2. PlaceInv'
  BY <1>1, Unplaced DEF placeVars
<1>3. order' \in [Orders -> OrderRows] /\ KindsKnown'
  BY <1>1 DEF OrderInv, OrderRows, KindsKnown
<1>4. DoneOnce'
  BY <1>1 DEF OrderInv, OrderRows, DoneOnce
<1> QED
  BY <1>1, <1>2, <1>3, <1>4 DEF OrderInv

LEMMA GoKeeps ==
    ASSUME PlaceInv, WorkInv, OrderInv, NEW o \in Orders, NEW from, NEW to,
           Go(o, from, to),
           to \in {"APPROVED", "REJECTED", "DISPATCHED", "ARCHIVED", "CANCELLED"},
           IF to = "ARCHIVED" THEN from = {"EXECUTED"}
           ELSE from \cap {"NONE", "EXECUTED", "ARCHIVED"} = {}
    PROVE  FieldInv'
<1>1. /\ order[o].status \in from
      /\ order' = [order EXCEPT ![o].status = to]
      /\ UNCHANGED <<placeVars, effects, work>>
  BY DEF Go
<1>2. PlaceInv' /\ WorkInv'
  BY <1>1, Unplaced DEF placeVars, WorkInv
<1>3. order' \in [Orders -> OrderRows] /\ KindsKnown'
  BY <1>1 DEF OrderInv, OrderRows, KindsKnown
<1>4. DoneOnce'
  BY <1>1 DEF OrderInv, OrderRows, DoneOnce
<1> QED
  BY <1>1, <1>2, <1>3, <1>4 DEF OrderInv, FieldInv

LEMMA OrderAtOnceStep ==
    ASSUME FieldInv, OrderAtOnce
    PROVE  FieldInv'
<1> USE DEF FieldInv
<1>1. ASSUME NEW o \in Orders, Create(o) PROVE FieldInv'
  <2>1. PICK a \in Accounts, kind \in Kinds, approved \in BOOLEAN :
            \E i \in TargetsOf(a) : Placed(o, a, kind, i, FALSE, approved)
    BY <1>1 DEF Create
  <2>2. TargetsOf(a) \subseteq Ids \cup {0}
    BY DEF TargetsOf, LiveAt, Live
  <2>3. WorkInv'
    BY <1>1 DEF Create, WorkInv
  <2> QED
    BY <2>1, <2>2, <2>3, PlacedKeeps
<1>2. ASSUME NEW o \in Orders,
             Approve(o) \/ Reject(o) \/ Dispatch(o) \/ ArchiveOrder(o) \/ CancelOrder(o)
      PROVE  FieldInv'
  BY <1>2, GoKeeps DEF Approve, Reject, Dispatch, ArchiveOrder, CancelOrder, Cancellable
<1>3. ASSUME NEW v \in Violations, Report(v) PROVE FieldInv'
  <2>1. UNCHANGED <<placeVars, order, effects, work>>
    BY <1>3 DEF Report
  <2> QED
    BY <2>1, Unplaced DEF placeVars, WorkInv, OrderInv, KindsKnown, DoneOnce
<1> QED
  BY <1>1, <1>2, <1>3 DEF OrderAtOnce

LEMMA OrderReadStep ==
    ASSUME FieldInv, NEW w \in Workers, OrderRead(w), UNCHANGED orderVars
    PROVE  FieldInv'
<1> USE DEF FieldInv, Begin
<1>1. UNCHANGED placeVars
  BY DEF OrderRead, ReadForExecute, ReadForScan, ReadForVerdict
<1>2. ASSUME NEW o \in Orders, ReadForExecute(w, o) PROVE WorkInv'
  BY <1>2, BeginKeeps DEF ReadForExecute, WorkOK
<1>3. ASSUME NEW i \in Ids, ReadForScan(w, i) PROVE WorkInv'
  BY <1>3, BeginKeeps DEF ReadForScan, WorkOK
<1>4. ASSUME NEW v \in Violations, ReadForVerdict(w, v) PROVE WorkInv'
  BY <1>4, BeginKeeps DEF ReadForVerdict, WorkOK
<1>5. WorkInv'
  BY <1>2, <1>3, <1>4 DEF OrderRead
<1> QED
  BY <1>1, <1>5, Unplaced DEF placeVars, orderVars, OrderInv, KindsKnown, DoneOnce

LEMMA OrderCommitStep ==
    ASSUME FieldInv, NEW w \in Workers, OrderCommit(w)
    PROVE  FieldInv'
<1> USE DEF FieldInv
<1>1. CASE Execute(w)
  <2>1. PICK o \in Orders : o = work[w].order
    BY <1>1 DEF Execute, WorkInv, WorkOK
  <2>2. /\ order[o].status = "DISPATCHED" /\ Linkage(o)
        /\ order' = [order EXCEPT ![o].status = "EXECUTED"]
        /\ effects' = [effects EXCEPT ![o] = @ + 1]
        /\ EndWork(w)
    BY <1>1, <2>1 DEF Execute, StillDispatched
  <2>3. order' \in [Orders -> OrderRows] /\ KindsKnown' /\ effects' \in [Orders -> Nat]
    BY <2>2 DEF OrderInv, OrderRows, KindsKnown
  <2>4. DoneOnce'
    BY <2>2 DEF OrderInv, OrderRows, DoneOnce
  <2> QED
    BY <2>2, <2>3, <2>4, LinkageKeeps, RestKeeps DEF OrderInv
<1>2. CASE Verdict(w)
  <2>1. UNCHANGED <<placeVars, order, effects>> /\ EndWork(w)
    BY <1>2 DEF Verdict
  <2> QED
    BY <2>1, Unplaced, RestKeeps DEF placeVars, OrderInv, KindsKnown, DoneOnce
<1>3. ASSUME NEW o \in Orders, Scan(w, o) PROVE FieldInv'
  <2>1. PICK i \in Ids : i = work[w].inst /\ "CHECK" \in Kinds
    BY <1>3 DEF Scan, WorkInv, WorkOK
  <2>2. PICK approved \in BOOLEAN : Placed(o, inst[i].acct, "CHECK", i, TRUE, approved)
    BY <1>3, <2>1 DEF Scan
  <2>3. inst[i].acct \in Accounts \cup {"none"}
    BY DEF PlaceInv, PlaceTypes, InstRows
  <2>4. EndWork(w)
    BY <1>3 DEF Scan
  <2> QED
    BY <2>1, <2>2, <2>3, <2>4, PlacedKeeps, RestKeeps
<1> QED
  BY <1>1, <1>2, <1>3 DEF OrderCommit
-----------------------------------------------------------------------------
LEMMA FieldInitHolds == FieldInit => FieldInv
<1> SUFFICES ASSUME FieldInit PROVE FieldInv
  OBVIOUS
<1> USE DEF FieldInit
<1>1. PICK s \in Starts : acct = s.acct /\ meter = s.meter /\ inst = s.inst
  BY DEF CustodyInit
<1>2. careless = {} /\ work = [w \in Workers |-> Idle]
  BY DEF CustodyInit
<1>3. PlaceTypes
  BY <1>1, <1>2, StartsAssumption DEF PlaceTypes, InstRows, MeterRows
<1>4. RowsInOrder
  BY <1>1, StartsAssumption DEF RowsInOrder, Live
<1>5. OnePlace
  <2>1. ASSUME NEW m \in Meters, meter[m].status = "INSTALLED"
        PROVE  \E i \in Ids : LiveOf(m) = {i}
    BY <1>1, <2>1, StartsAssumption DEF LiveOf, Live
  <2>2. ASSUME NEW m \in Meters, meter[m].status # "INSTALLED"
        PROVE  LiveOf(m) = {}
    BY <1>1, <2>2, StartsAssumption DEF LiveOf, Live
  <2> QED
    BY <2>1, <2>2 DEF OnePlace, HangsOnce
<1>6. ClosedHasNoMeter
  BY <1>1, StartsAssumption DEF ClosedHasNoMeter, LiveAt, Live
<1>7. Unfiled
  BY <1>1, StartsAssumption DEF Unfiled, LiveOf, Live
<1>8. WorkInv
  BY <1>2 DEF WorkInv, WorkOK, Idle
<1>9. OrderInv
  BY DEF OrderInit, OrderInv, KindsKnown, OrderRows, NoOrder, DoneOnce
<1> QED
  BY <1>3, <1>4, <1>5, <1>6, <1>7, <1>8, <1>9 DEF FieldInv, PlaceInv

LEMMA FieldStep == FieldInv /\ [FieldNext]_fieldVars => FieldInv'
<1> SUFFICES ASSUME FieldInv, [FieldNext]_fieldVars PROVE FieldInv'
  OBVIOUS
<1> USE DEF FieldInv
<1>1. CASE OrderAtOnce
  BY <1>1, OrderAtOnceStep
<1>2. CASE DeskStepOfOrders
  BY <1>2, Unplaced DEF DeskStepOfOrders, placeVars, orderVars, WorkInv, OrderInv, KindsKnown, DoneOnce
<1>3. CASE AtOnce /\ UNCHANGED orderVars
  BY <1>3, AtOnceStep DEF orderVars, OrderInv, KindsKnown, DoneOnce
<1>4. ASSUME NEW w \in Workers, OrderCommit(w) PROVE FieldInv'
  BY <1>4, OrderCommitStep
<1>5. ASSUME NEW w \in Workers, OrderRead(w), UNCHANGED orderVars PROVE FieldInv'
  BY <1>5, OrderReadStep
<1>6. ASSUME NEW w \in Workers, Read(w), UNCHANGED orderVars PROVE FieldInv'
  BY <1>6, ReadStep, Unplaced DEF orderVars, OrderInv, KindsKnown, DoneOnce
<1>7. ASSUME NEW w \in Workers, Commit(w), UNCHANGED orderVars PROVE FieldInv'
  BY <1>7, CommitStep DEF orderVars, OrderInv, KindsKnown, DoneOnce
<1>8. CASE UNCHANGED fieldVars
  BY <1>8, Unplaced DEF fieldVars, custodyVars, placeVars, orderVars, WorkInv, OrderInv,
                        KindsKnown, DoneOnce
<1> QED
  BY <1>1, <1>2, <1>3, <1>4, <1>5, <1>6, <1>7, <1>8 DEF FieldNext

-----------------------------------------------------------------------------
(* The tasks of orders.  Before an order is dispatched nobody can have     *)
(* worked on its execution; after that a task is closed by the step that   *)
(* moves the order on, or by a click that asks how the order stands.       *)
TaskRows == [status : OpenStatuses \cup {"NONE", "DONE", "CANCELLED"},
             who : Staff \cup {Nobody}]
Fit(o) ==
    /\ order[o].status \in {"NONE", "PENDING_APPROVAL", "APPROVED"} =>
          task[Execution(o)].status = "NONE"
    /\ task[Approval(o)].status = "DONE" => order[o].status # "PENDING_APPROVAL"
    /\ task[Execution(o)].status = "DONE" => order[o].status \notin Cancellable
    /\ order[o].status = "DISPATCHED" => task[Execution(o)].status # "NONE"
TaskInv ==
    /\ task \in [Jobs -> TaskRows]
    /\ \A j \in aimed : j \in Jobs /\ task[j].status # "NONE"
    /\ \A o \in Orders : Fit(o)

(* What a step may do to the tasks of orders without moving an order.      *)
Untouched == \A o \in Orders : /\ task'[Approval(o)] = task[Approval(o)]
                               /\ task'[Execution(o)] = task[Execution(o)]
KeepsRows == /\ task' \in [Jobs -> TaskRows]
             /\ \A j \in Jobs : task'[j].status = "NONE" => task[j].status = "NONE"
             /\ aimed' = aimed

LEMMA ClosedRows ==
    ASSUME NEW t, t \in [Jobs -> TaskRows], NEW js, NEW st \in {"DONE", "CANCELLED"}
    PROVE  /\ Closed(t, js, st) \in [Jobs -> TaskRows]
           /\ \A j \in Jobs \ js : Closed(t, js, st)[j] = t[j]
           /\ \A j \in Jobs : /\ Closed(t, js, st)[j].status = "NONE" <=> t[j].status = "NONE"
                              /\ Closed(t, js, st)[j].status = "DONE" =>
                                    t[j].status = "DONE" \/ (st = "DONE" /\ j \in js)
<1>1. \A j \in Jobs : [t[j] EXCEPT !.status = st] = [status |-> st, who |-> t[j].who]
  BY DEF TaskRows
<1>2. \A j \in Jobs : Closed(t, js, st)[j] =
         IF j \in js /\ t[j].status \in OpenStatuses THEN [status |-> st, who |-> t[j].who]
         ELSE t[j]
  BY <1>1 DEF Closed
<1>3. Closed(t, js, st) \in [Jobs -> TaskRows]
  BY <1>1 DEF Closed, TaskRows
<1> QED
  BY <1>2, <1>3 DEF TaskRows, OpenStatuses

LEMMA CreatedRows ==
    ASSUME NEW t, t \in [Jobs -> TaskRows], NEW k, NEW who \in Staff \cup {Nobody}
    PROVE  /\ Created(t, k, who) \in [Jobs -> TaskRows]
           /\ \A j \in Jobs \ {k} : Created(t, k, who)[j] = t[j]
           /\ k \in Jobs => Created(t, k, who)[k].status \in OpenStatuses
BY DEF Created, TaskRows, OpenStatuses

LEMMA OrderFrame ==
    ASSUME TaskInv, KeepsRows, Untouched, order' = order
    PROVE  TaskInv'
BY OrdersAssumption DEF TaskInv, KeepsRows, Untouched, Fit, Approval, Execution

LEMMA CloseOthers ==
    ASSUME TaskInv, NEW js, NEW st \in {"DONE", "CANCELLED"},
           \A o \in Orders : Approval(o) \notin js /\ Execution(o) \notin js,
           SetTasks(Closed(task, js, st))
    PROVE  KeepsRows /\ Untouched
<1>1. task' = Closed(task, js, st) /\ aimed' = aimed
  BY DEF SetTasks
<1> QED
  BY <1>1, ClosedRows, OrdersAssumption DEF TaskInv, KeepsRows, Untouched

LEMMA CreateOther ==
    ASSUME TaskInv, NEW k, NEW who \in Staff \cup {Nobody},
           \A o \in Orders : Approval(o) # k /\ Execution(o) # k,
           SetTasks(Created(task, k, who))
    PROVE  KeepsRows /\ Untouched
<1>1. task' = Created(task, k, who) /\ aimed' = aimed
  BY DEF SetTasks
<1>2. \A j \in Jobs : j # k => task'[j] = task[j]
  BY <1>1, CreatedRows DEF TaskInv
<1>3. k \in Jobs => task'[k].status # "NONE"
  BY <1>1, CreatedRows DEF TaskInv, OpenStatuses
<1>4. task' \in [Jobs -> TaskRows]
  BY <1>1, CreatedRows DEF TaskInv
<1>5. Untouched
  BY <1>2, OrdersAssumption DEF Untouched
<1>6. \A j \in Jobs : task'[j].status = "NONE" => task[j].status = "NONE"
  BY <1>2, <1>3
<1> QED
  BY <1>1, <1>4, <1>5, <1>6 DEF KeepsRows

LEMMA SameTasks ==
    ASSUME TaskInv, UNCHANGED taskVars
    PROVE  KeepsRows /\ Untouched
BY DEF TaskInv, KeepsRows, Untouched, taskVars

(* No task of the custody is one of an order.                              *)
LEMMA CustodyTasks ==
    ASSUME TaskInv, AtOnce \/ \E w \in Workers : Read(w) \/ Commit(w)
    PROVE  KeepsRows /\ Untouched
<1>0. \A o \in Orders : /\ Approval(o) # Review /\ Execution(o) # Review
                        /\ \A a : Approval(o) # Activation(a) /\ Execution(o) # Activation(a)
  BY DEF Approval, Execution, Review, Activation
<1>1. CASE AtOnce
  <2>1. CASE Submit
    BY <2>1, <1>0, CreateOther DEF Submit
  <2>2. CASE UNCHANGED taskVars
    BY <2>2, SameTasks
  <2>3. ASSUME NEW i \in Ids, Remove(i) \/ \E m \in Meters : Replace(i, m),
               UNCHANGED <<taskVars, work>>
        PROVE  KeepsRows /\ Untouched
    BY <2>3, SameTasks
  <2>4. ASSUME NEW m \in Meters, File(m) \/ \E a \in Accounts : Onboard(a, m)
        PROVE  KeepsRows /\ Untouched
    BY <2>4, SameTasks DEF File, Onboard
  <2>5. CASE Archive
    BY <2>5, SameTasks DEF Archive
  <2> QED
    BY <1>1, <2>1, <2>2, <2>3, <2>4, <2>5 DEF AtOnce
<1>2. ASSUME NEW w \in Workers, Read(w) PROVE KeepsRows /\ Untouched
  <2>1. UNCHANGED taskVars
    BY <1>2 DEF Read, ReadForReturn, ReadForInfo, ReadForInstall, ReadForActivate, ReadForMove,
       ReadForPatch, ReadForStage, ReadForFilling, ReadForAllocate, Begin, AskHandling
  <2> QED
    BY <2>1, SameTasks
<1>3. ASSUME NEW w \in Workers, Commit(w) PROVE KeepsRows /\ Untouched
  <2>1. CASE Install(w) \/ Handle(w) \/ CompleteInfo(w) \/ GiveUp(w)
    BY <2>1, SameTasks DEF Install, Handle, CompleteInfo, GiveUp
  <2>2. CASE Stage(w)
    BY <2>2, <1>0, SameTasks, CloseOthers DEF Stage, ReviewAfter, AutoCompleted, SetTasks, taskVars
  <2>3. CASE Return(w)
    BY <2>3, <1>0, CloseOthers DEF Return
  <2>4. CASE Activate(w)
    <3>1. PICK js : /\ SetTasks(Closed(task, js, "DONE"))
                    /\ js \subseteq {Review, Activation(work[w].acct)}
      BY <2>4 DEF Activate, AutoCompleted
    <3> QED
      BY <3>1, <1>0, CloseOthers
  <2>5. ASSUME NEW a \in Accounts, NEW s \in Staff, Allocate(w, a, s)
        PROVE  KeepsRows /\ Untouched
    BY <2>5, <1>0, CreateOther DEF Allocate
  <2> QED
    BY <1>3, <2>1, <2>2, <2>3, <2>4, <2>5 DEF Commit
<1> QED
  BY <1>1, <1>2, <1>3

(* A step that moves order o and leaves the tasks of the others alone.     *)
LEMMA OrderMoved ==
    ASSUME TaskInv, KeepsRows, NEW o \in Orders, Fit(o)',
           \A p \in Orders \ {o} : order'[p] = order[p],
           \A j \in Jobs : j \notin {Approval(o), Execution(o)} => task'[j] = task[j]
    PROVE  TaskInv'
<1>1. ASSUME NEW p \in Orders, p # o PROVE Fit(p)'
  <2>1. Approval(p) \notin {Approval(o), Execution(o)} /\ Execution(p) \notin {Approval(o), Execution(o)}
    BY <1>1 DEF Approval, Execution
  <2> QED
    BY <1>1, <2>1, OrdersAssumption DEF TaskInv, Fit
<1> QED
  BY <1>1 DEF TaskInv, KeepsRows

LEMMA PlacedTasks ==
    ASSUME TaskInv, OrderInv, NEW o \in Orders, NEW a, NEW kind, NEW i, NEW swap,
           NEW approved \in BOOLEAN, Placed(o, a, kind, i, swap, approved)
    PROVE  TaskInv'
<1>1. /\ order[o].status = "NONE"
      /\ order'[o].status = IF approved THEN "APPROVED" ELSE "PENDING_APPROVAL"
      /\ \A p \in Orders \ {o} : order'[p] = order[p]
      /\ task' = IF approved THEN task ELSE Created(task, Approval(o), Nobody)
      /\ aimed' = aimed
  BY DEF Placed, NoOrder, OrderInv, OrderRows, SetTasks
<1>2. Approval(o) \in Jobs /\ Execution(o) \in Jobs /\ Approval(o) # Execution(o)
  BY OrdersAssumption DEF Approval, Execution
<1>3. KeepsRows
  BY <1>1, <1>2, CreatedRows DEF KeepsRows, TaskInv, OpenStatuses
<1>4. \A j \in Jobs \ {Approval(o)} : task'[j] = task[j]
  BY <1>1, CreatedRows DEF TaskInv
<1>5. task[Execution(o)].status = "NONE" /\ task'[Execution(o)] = task[Execution(o)]
  BY <1>1, <1>2, <1>4 DEF TaskInv, Fit
<1>6. ~ approved => task'[Approval(o)].status \in OpenStatuses
  BY <1>1, <1>2, CreatedRows DEF TaskInv
<1>7. Fit(o)'
  BY <1>1, <1>5, <1>6 DEF Fit, Cancellable, OpenStatuses
<1> QED
  BY <1>1, <1>3, <1>4, <1>7, OrderMoved

(* Tasks of o are closed while o goes on to a state that waits for none.   *)
LEMMA ClosedTasks ==
    ASSUME TaskInv, OrderInv, NEW o \in Orders, NEW js \in SUBSET {Approval(o), Execution(o)},
           NEW to \in {"APPROVED", "REJECTED", "EXECUTED", "ARCHIVED", "CANCELLED"},
           order' = [order EXCEPT ![o].status = to],
           SetTasks(AutoCompleted(task, js)),
           to = "APPROVED" => order[o].status = "PENDING_APPROVAL" /\ Execution(o) \notin js
    PROVE  TaskInv'
<1>1. task' = Closed(task, js, "DONE") /\ aimed' = aimed
  BY DEF SetTasks, AutoCompleted
<1>2. Approval(o) \in Jobs /\ Execution(o) \in Jobs
  BY OrdersAssumption
<1>3. KeepsRows
  BY <1>1, ClosedRows DEF KeepsRows, TaskInv
<1>4. \A j \in Jobs \ js : task'[j] = task[j]
  BY <1>1, ClosedRows DEF TaskInv
<1>5. order'[o].status = to /\ \A p \in Orders \ {o} : order'[p] = order[p]
  BY DEF OrderInv, OrderRows
<1>6. Fit(o)'
  BY <1>2, <1>4, <1>5 DEF Fit, TaskInv, Cancellable
<1> QED
  BY <1>3, <1>4, <1>5, <1>6, OrderMoved

LEMMA OrderTasks ==
    ASSUME TaskInv, OrderInv, WorkInv, OrderAtOnce \/ \E w \in Workers : OrderCommit(w)
    PROVE  TaskInv'
<1>0. \A o \in Orders, v \in Violations : Approval(o) # Handling(v) /\ Execution(o) # Handling(v)
  BY DEF Approval, Execution, Handling
<1>1. ASSUME NEW o \in Orders, Create(o) PROVE TaskInv'
  BY <1>1, PlacedTasks DEF Create
<1>2. ASSUME NEW o \in Orders, Approve(o) \/ Reject(o) PROVE TaskInv'
  <2>1. Execution(o) # Approval(o)
    BY DEF Approval, Execution
  <2> QED
    BY <1>2, <2>1, ClosedTasks DEF Approve, Reject, Go
<1>3. ASSUME NEW o \in Orders, ArchiveOrder(o) \/ CancelOrder(o) PROVE TaskInv'
  BY <1>3, ClosedTasks DEF ArchiveOrder, CancelOrder, TasksOf, Go
<1>4. ASSUME NEW o \in Orders, Dispatch(o) PROVE TaskInv'
  <2>1. /\ order' = [order EXCEPT ![o].status = "DISPATCHED"]
        /\ order[o].status = "APPROVED"
        /\ task' = Created(task, Execution(o), Nobody) /\ aimed' = aimed
    BY <1>4 DEF Dispatch, Go, SetTasks
  <2>2. Approval(o) \in Jobs /\ Execution(o) \in Jobs /\ Execution(o) # Approval(o)
    BY OrdersAssumption DEF Approval, Execution
  <2>3. /\ \A j \in Jobs \ {Execution(o)} : task'[j] = task[j]
        /\ task'[Execution(o)].status \in OpenStatuses
    BY <2>1, <2>2, CreatedRows DEF TaskInv
  <2>4. KeepsRows
    BY <2>1, <2>3, CreatedRows DEF KeepsRows, TaskInv, OpenStatuses
  <2>5. order'[o].status = "DISPATCHED" /\ \A p \in Orders \ {o} : order'[p] = order[p]
    BY <2>1 DEF OrderInv, OrderRows
  <2>6. Fit(o)'
    BY <2>3, <2>5 DEF Fit, OpenStatuses
  <2> QED
    BY <2>3, <2>4, <2>5, <2>6, OrderMoved
<1>5. ASSUME NEW v \in Violations, Report(v) PROVE TaskInv'
  BY <1>0, <1>5, CreateOther, OrderFrame DEF Report
<1>6. ASSUME NEW w \in Workers, Execute(w) PROVE TaskInv'
  <2>1. work[w].order \in Orders
    BY <1>6 DEF Execute, WorkInv, WorkOK
  <2> QED
    BY <1>6, <2>1, ClosedTasks DEF Execute
<1>7. ASSUME NEW w \in Workers, Verdict(w) PROVE TaskInv'
  <2>0. work[w].offence \in Violations
    BY <1>7 DEF Verdict, WorkInv, WorkOK
  <2>1. order' = order
    BY <1>7 DEF Verdict
  <2>2. KeepsRows /\ Untouched
    BY <1>0, <1>7, <2>0, SameTasks, CloseOthers DEF Verdict, AutoCompleted, SetTasks, taskVars
  <2> QED
    BY <2>1, <2>2, OrderFrame
<1>8. ASSUME NEW w \in Workers, NEW o \in Orders, Scan(w, o) PROVE TaskInv'
  BY <1>8, PlacedTasks DEF Scan
<1> QED
  BY <1>1, <1>2, <1>3, <1>4, <1>5, <1>6, <1>7, <1>8 DEF OrderAtOnce, OrderCommit

(* The desk: who completes a task has to show that the order is past it.   *)
LEMMA DeskTasks ==
    ASSUME TaskInv, NEW j \in Jobs, order' = order,
           DeskStep(j) \/ (OrderDone(j) /\ \E s \in Staff : Complete(j, s))
    PROVE  TaskInv'
<1> DEFINE Becomes(row) == task' = [task EXCEPT ![j] = row]
<1>1. ASSUME NEW row \in TaskRows, row.status # "NONE", Becomes(row),
             task[j].status # "NONE", aimed' \subseteq aimed \cup {j},
             row.status = "DONE" => OrderDone(j)
      PROVE  TaskInv'
  <2>1. /\ task' \in [Jobs -> TaskRows] /\ task'[j] = row
        /\ \A i \in Jobs \ {j} : task'[i] = task[i]
    BY <1>1 DEF TaskInv
  <2>2. \A i \in aimed' : i \in Jobs /\ task'[i].status # "NONE"
    BY <1>1, <2>1 DEF TaskInv
  <2>3. ASSUME NEW o \in Orders PROVE Fit(o)'
    BY <1>1, <2>1, OrdersAssumption DEF TaskInv, Fit, OrderDone
  <2> QED
    BY <2>1, <2>2, <2>3 DEF TaskInv
<1>2. ASSUME NEW s \in Staff, Claim(j, s) PROVE TaskInv'
  <2>1. [status |-> "CLAIMED", who |-> s] \in TaskRows
    BY DEF TaskRows, OpenStatuses
  <2> QED
    BY <1>1, <1>2, <2>1 DEF Claim, SetTasks
<1>3. ASSUME NEW s \in Staff, Assign(j, s) PROVE TaskInv'
  <2>1. [status |-> "ASSIGNED", who |-> s] \in TaskRows
    BY DEF TaskRows, OpenStatuses
  <2> QED
    BY <1>1, <1>3, <2>1 DEF Assign, TaskInv
<1>4. CASE Aim(j)
  <2>1. task' = task /\ aimed' = aimed \cup {j} /\ task[j].status # "NONE"
    BY <1>4 DEF Aim, IsOpen, OpenStatuses
  <2> QED
    BY <2>1 DEF TaskInv, Fit
<1>5. ASSUME NEW st \in {"DONE", "CANCELLED"}, IsOpen(j), st = "DONE" => OrderDone(j),
             SetTasks(Closed(task, {j}, st))
      PROVE  TaskInv'
  <2>1. /\ task' = Closed(task, {j}, st) /\ aimed' = aimed /\ task[j].status # "NONE"
        /\ task[j].status \in OpenStatuses
    BY <1>5 DEF SetTasks, IsOpen, OpenStatuses
  <2>2. [status |-> st, who |-> task[j].who] \in TaskRows
    BY DEF TaskRows, TaskInv
  <2>3. Becomes([status |-> st, who |-> task[j].who])
    <3>1. [task[j] EXCEPT !.status = st] = [status |-> st, who |-> task[j].who]
      BY DEF TaskInv, TaskRows
    <3>2. task' = [i \in Jobs |-> IF i = j THEN [status |-> st, who |-> task[j].who]
                                  ELSE task[i]]
      BY <2>1, <3>1 DEF Closed
    <3> QED
      BY <3>2 DEF TaskInv
  <2> QED
    BY <1>1, <1>5, <2>1, <2>2, <2>3
<1>6. CASE Cancel(j)
  BY <1>5, <1>6 DEF Cancel
<1>7. ASSUME NEW s \in Staff, OrderDone(j), Complete(j, s) PROVE TaskInv'
  BY <1>5, <1>7 DEF Complete, IsOpen, OpenStatuses
<1> QED
  BY <1>2, <1>3, <1>4, <1>6, <1>7 DEF DeskStep

LEMMA TaskInitHolds == FieldInit => TaskInv
BY OrdersAssumption
DEF FieldInit, CustodyInit, TaskInit, OrderInit, TaskInv, TaskRows, NoTask, NoOrder, Fit,
    OpenStatuses

LEMMA TaskStep == FieldInv /\ TaskInv /\ [FieldNext]_fieldVars => TaskInv'
<1> SUFFICES ASSUME FieldInv, TaskInv, [FieldNext]_fieldVars PROVE TaskInv'
  OBVIOUS
<1> USE DEF FieldInv
<1>1. CASE OrderAtOnce \/ \E w \in Workers : OrderCommit(w)
  BY <1>1, OrderTasks
<1>2. CASE DeskStepOfOrders
  BY <1>2, DeskTasks DEF DeskStepOfOrders, orderVars
<1>3. CASE (AtOnce \/ \E w \in Workers : Read(w) \/ Commit(w)) /\ UNCHANGED orderVars
  BY <1>3, CustodyTasks, OrderFrame DEF orderVars
<1>4. ASSUME NEW w \in Workers, OrderRead(w), UNCHANGED orderVars PROVE TaskInv'
  <2>1. UNCHANGED taskVars
    BY <1>4 DEF OrderRead, ReadForExecute, ReadForScan, ReadForVerdict, Begin
  <2> QED
    BY <1>4, <2>1, SameTasks, OrderFrame DEF orderVars
<1>5. CASE UNCHANGED fieldVars
  BY <1>5, SameTasks, OrderFrame DEF fieldVars, custodyVars, orderVars
<1> QED
  BY <1>1, <1>2, <1>3, <1>4, <1>5 DEF FieldNext
-----------------------------------------------------------------------------
(* The tasks that are open.  A task whose business goes on is closed in    *)
(* the same step, so that only a late reassignment leaves one behind; and  *)
(* what is read before the step still tells enough when it commits.        *)
Held == \A j \in Jobs : task[j].status \in {"CLAIMED", "ASSIGNED"} => task[j].who # Nobody
Resting(j) == j \in Jobs /\ IsOpen(j) => j \in revived
Young == {"NONE", "PENDING_ASSIGN"}     \* an account that is yet to be activated
OffenceStatuses == {"NONE", "PENDING_REVIEW", "PROCESSING"} \cup Handled

ApplyDue ==
    /\ apply \in [status : ApplyStatuses, filled : BOOLEAN, home : BOOLEAN]
    /\ apply.status \in Over => Resting(Review)
    /\ apply.home => apply.status # "SUBMITTED" /\ Resting(Review)
AccountDue == \A a \in Accounts :
    /\ acct[a] # "PENDING_ASSIGN" => Resting(Activation(a))
    /\ acct[a] = "NONE" /\ Activation(a) \in Jobs => task[Activation(a)].status = "NONE"
OrderDue == \A o \in Orders :
    /\ order[o].status # "PENDING_APPROVAL" => Resting(Approval(o))
    /\ order[o].status # "DISPATCHED" => Resting(Execution(o))
OffenceDue ==
    /\ offence \in [Violations -> OffenceStatuses]
    /\ \A v \in Violations : offence[v] \in Handled => Resting(Handling(v))
WorkDue(r) ==
    /\ r.do = "stage" => /\ r.to \in ApplyStatuses \ {"NONE", "SUBMITTED", "COMPLETED"}
                         /\ r.fills \in BOOLEAN
    /\ r.do = "info" => acct[r.acct] \notin Young
    /\ r.do = "verdict" => /\ offence[r.offence] # "NONE"
                           /\ r.to \in OffenceStatuses \ {"NONE"}
                           /\ r.to = "ARCHIVED" => Resting(Handling(r.offence))
RequestsDue == \A w \in Workers : WorkDue(work[w])
DueInv == /\ Held /\ ApplyDue /\ AccountDue /\ OrderDue /\ OffenceDue /\ RequestsDue
          /\ handled \in 0 .. MaxHandlings

(* A step opens no task but those of ks, unless by a late reassignment.    *)
OpensOnly(ks) ==
    /\ Held' /\ revived \subseteq revived'
    /\ \A j \in Jobs \ ks :
          /\ task'[j].status \in OpenStatuses =>
                task[j].status \in OpenStatuses \/ j \in revived'
          /\ task[j].status = "NONE" => task'[j].status = "NONE"

LEMMA SameOpens ==
    ASSUME TaskInv, Held, UNCHANGED taskVars
    PROVE  OpensOnly({})
BY DEF OpensOnly, Held, taskVars

LEMMA CloseOpens ==
    ASSUME TaskInv, Held, NEW js, NEW st \in {"DONE", "CANCELLED"},
           SetTasks(Closed(task, js, st))
    PROVE  OpensOnly({}) /\ \A j \in js : Resting(j)'
<1>1. task' = Closed(task, js, st) /\ revived' = revived
  BY DEF SetTasks
<1>2. \A j \in Jobs : [task[j] EXCEPT !.status = st] = [status |-> st, who |-> task[j].who]
  BY DEF TaskInv, TaskRows
<1>3. \A j \in Jobs : task'[j] =
         IF j \in js /\ task[j].status \in OpenStatuses
         THEN [status |-> st, who |-> task[j].who] ELSE task[j]
  BY <1>1, <1>2 DEF Closed
<1>4. ASSUME NEW j \in Jobs
      PROVE  /\ task'[j] = task[j] \/ task'[j].status = st
             /\ task[j].status = "NONE" => task'[j] = task[j]
             /\ j \in js => task'[j].status \notin OpenStatuses
  <2>1. CASE j \in js /\ task[j].status \in OpenStatuses
    <3>1. task'[j] = [status |-> st, who |-> task[j].who]
      BY <1>3, <2>1
    <3>2. task'[j].status = st
      BY <3>1
    <3>3. st \notin OpenStatuses /\ "NONE" \notin OpenStatuses
      BY DEF OpenStatuses
    <3> QED
      BY <3>2, <3>3, <2>1
  <2>2. CASE ~ (j \in js /\ task[j].status \in OpenStatuses)
    <3>1. task'[j] = task[j]
      BY <1>3, <2>2
    <3> QED
      BY <3>1, <2>2
  <2> QED
    BY <2>1, <2>2
<1>5. Held'
  BY <1>4 DEF Held
<1>6. \A j \in js : Resting(j)'
  BY <1>4 DEF Resting, IsOpen
<1>7. \A j \in Jobs : task'[j].status \in OpenStatuses => task[j].status \in OpenStatuses
  BY <1>4 DEF OpenStatuses
<1> QED
  BY <1>1, <1>4, <1>5, <1>6, <1>7 DEF OpensOnly

LEMMA CreateOpens ==
    ASSUME TaskInv, Held, NEW k, NEW who \in Staff \cup {Nobody},
           SetTasks(Created(task, k, who))
    PROVE  OpensOnly({k})
<1>1. task' = Created(task, k, who) /\ revived' = revived
  BY DEF SetTasks
<1>2. Held'
  BY <1>1 DEF Held, Created, TaskInv
<1>3. \A j \in Jobs \ {k} : task'[j] = task[j]
  BY <1>1, CreatedRows DEF TaskInv
<1> QED
  BY <1>1, <1>2, <1>3 DEF OpensOnly

LEMMA DeskOpens ==
    ASSUME TaskInv, Held, NEW j \in Jobs, DeskStep(j) \/ \E s \in Staff : Complete(j, s)
    PROVE  OpensOnly({})
<1>1. ASSUME NEW s \in Staff, Claim(j, s) PROVE OpensOnly({})
  BY <1>1, StaffAssumption DEF Claim, SetTasks, OpensOnly, Held, TaskInv, OpenStatuses
<1>2. ASSUME NEW s \in Staff, Assign(j, s) PROVE OpensOnly({})
  <2>1. /\ task' = [task EXCEPT ![j] = [status |-> "ASSIGNED", who |-> s]]
        /\ task[j].status # "NONE"
        /\ revived' = IF IsOpen(j) THEN revived ELSE revived \cup {j}
    BY <1>2 DEF Assign, TaskInv
  <2>2. Held'
    BY <2>1, StaffAssumption DEF Held, TaskInv
  <2>3. \A i \in Jobs \ {j} : task'[i] = task[i]
    BY <2>1 DEF TaskInv
  <2>4. task'[j].status = "ASSIGNED" /\ (task[j].status \in OpenStatuses \/ j \in revived')
    BY <2>1 DEF IsOpen, TaskInv
  <2> QED
    BY <2>1, <2>2, <2>3, <2>4 DEF OpensOnly
<1>3. CASE Aim(j)
  BY <1>3 DEF Aim, OpensOnly, Held
<1>4. CASE Cancel(j)
  BY <1>4, CloseOpens DEF Cancel
<1>5. ASSUME NEW s \in Staff, Complete(j, s) PROVE OpensOnly({})
  BY <1>5, CloseOpens DEF Complete
<1> QED
  BY <1>1, <1>2, <1>3, <1>4, <1>5 DEF DeskStep

(* A task at rest stays at rest, unless the step is the one that opens it. *)
LEMMA RestingStays ==
    ASSUME NEW ks, OpensOnly(ks), NEW j, Resting(j), j \notin ks
    PROVE  Resting(j)'
BY DEF OpensOnly, Resting, IsOpen

(* Tasks of different kinds of business are different.                     *)
LEMMA JobsApart ==
    /\ \A a, o, p, v :
          /\ Review \notin {Activation(a), Approval(o), Execution(o), Handling(v)}
          /\ Activation(a) \notin {Approval(o), Execution(o), Handling(v)}
          /\ Handling(v) \notin {Approval(o), Execution(o)}
          /\ Approval(o) # Execution(p)
    /\ \A x, y : x # y => /\ Activation(x) # Activation(y) /\ Handling(x) # Handling(y)
                          /\ Approval(x) # Approval(y) /\ Execution(x) # Execution(y)
BY DEF Review, Activation, Approval, Execution, Handling

(* An account only grows out of being young, and leaves a promise only     *)
(* with its task.                                                          *)
Grown == \A a \in Accounts : acct'[a] \in Young => acct[a] \in Young
Unpromised == \A a \in Accounts : acct'[a] # acct[a] =>
    acct'[a] \notin Young /\ acct[a] # "PENDING_ASSIGN"
Reported == \A v \in Violations : offence[v] # "NONE" => offence'[v] # "NONE"

LEMMA ApplyFrame ==
    ASSUME ApplyDue, NEW ks, OpensOnly(ks), Review \notin ks, apply' = apply
    PROVE  ApplyDue'
BY RestingStays DEF ApplyDue

LEMMA AccountFrame ==
    ASSUME AccountDue, NEW ks, OpensOnly(ks), \A a \in Accounts : Activation(a) \notin ks,
           Unpromised
    PROVE  AccountDue' /\ Grown
<1>1. ASSUME NEW a \in Accounts PROVE acct'[a] # "PENDING_ASSIGN" => Resting(Activation(a))'
  BY RestingStays DEF AccountDue, Unpromised, Young
<1>2. ASSUME NEW a \in Accounts, acct'[a] = "NONE", Activation(a) \in Jobs
      PROVE  task'[Activation(a)].status = "NONE"
  BY <1>2 DEF AccountDue, Unpromised, Young, OpensOnly
<1>3. Grown
  BY DEF Unpromised, Grown
<1> QED
  BY <1>1, <1>2, <1>3 DEF AccountDue

LEMMA OrdersFrame ==
    ASSUME OrderDue, NEW ks, OpensOnly(ks),
           \A o \in Orders : Approval(o) \notin ks /\ Execution(o) \notin ks, order' = order
    PROVE  OrderDue'
BY RestingStays DEF OrderDue

LEMMA OffenceFrame ==
    ASSUME OffenceDue, NEW ks, OpensOnly(ks),
           \A v \in Violations : Handling(v) \notin ks, offence' = offence
    PROVE  OffenceDue' /\ Reported
BY RestingStays DEF OffenceDue, Reported

(* What a request has read stays good until it commits.                    *)
LEMMA WorkDueStays ==
    ASSUME NEW ks, OpensOnly(ks), Grown, Reported,
           NEW r, WorkOK(r), WorkDue(r),
           \A v \in Violations : Handling(v) \in ks => offence[v] = "NONE"
    PROVE  WorkDue(r)'
<1>1. r.do = "info" => acct'[r.acct] \notin Young
  BY DEF WorkDue, WorkOK, Grown
<1>2. ASSUME r.do = "verdict" PROVE offence'[r.offence] # "NONE"
  BY <1>2 DEF WorkDue, WorkOK, Reported
<1>3. ASSUME r.do = "verdict", r.to = "ARCHIVED" PROVE Resting(Handling(r.offence))'
  <2>1. Handling(r.offence) \notin ks
    BY <1>3 DEF WorkDue, WorkOK
  <2> QED
    BY <1>3, <2>1, RestingStays DEF WorkDue
<1> QED
  BY <1>1, <1>2, <1>3 DEF WorkDue

LEMMA RequestsFrame ==
    ASSUME WorkInv, RequestsDue, NEW ks, OpensOnly(ks), Grown, Reported,
           \A v \in Violations : Handling(v) \in ks => offence[v] = "NONE",
           work' = work \/ \E w \in Workers : EndWork(w)
    PROVE  RequestsDue'
<1>1. ASSUME NEW w \in Workers PROVE WorkDue(work[w])'
  <2>1. WorkDue(work[w]) /\ WorkOK(work[w])
    BY DEF RequestsDue, WorkInv
  <2>2. CASE work'[w] = work[w]
    <3>1. PICK r : r = work[w]
      OBVIOUS
    <3>2. WorkDue(r)'
      BY <2>1, <3>1, WorkDueStays
    <3> QED
      BY <2>2, <3>1, <3>2
  <2>3. CASE work'[w] = Idle
    BY <2>3 DEF WorkDue, Idle
  <2>4. work'[w] = work[w] \/ work'[w] = Idle
    BY DEF EndWork, WorkInv
  <2> QED
    BY <2>2, <2>3, <2>4
<1> QED
  BY <1>1 DEF RequestsDue

LEMMA DueFrame ==
    ASSUME FieldInv, DueInv, OpensOnly({}), Unpromised,
           UNCHANGED <<apply, order, offence, handled>>,
           work' = work \/ \E w \in Workers : EndWork(w)
    PROVE  DueInv'
<1>1. ApplyDue'
  BY ApplyFrame DEF DueInv
<1>2. AccountDue' /\ Grown
  BY AccountFrame DEF DueInv
<1>3. OrderDue'
  BY OrdersFrame DEF DueInv
<1>4. OffenceDue' /\ Reported
  BY OffenceFrame DEF DueInv
<1>5. RequestsDue'
  BY <1>2, <1>4, RequestsFrame DEF DueInv, FieldInv
<1>6. Held'
  BY DEF OpensOnly
<1> QED
  BY <1>1, <1>2, <1>3, <1>4, <1>5, <1>6 DEF DueInv

LEMMA DueRead ==
    ASSUME FieldInv, TaskInv, DueInv, NEW w \in Workers, NEW r, WorkDue(r),
           work' = [work EXCEPT ![w] = r],
           UNCHANGED <<taskVars, apply, acct, order, offence>>,
           handled' \in 0 .. MaxHandlings
    PROVE  DueInv'
<1>1. OpensOnly({})
  BY SameOpens DEF DueInv
<1>2. Unpromised
  BY DEF Unpromised
<1>3. ApplyDue' /\ AccountDue' /\ OrderDue' /\ OffenceDue' /\ Grown /\ Reported
  BY <1>1, <1>2, ApplyFrame, AccountFrame, OrdersFrame, OffenceFrame DEF DueInv
<1>4. \A x : WorkDue(x) => WorkDue(x)'
  BY DEF WorkDue, Resting, IsOpen, taskVars
<1>5. ASSUME NEW u \in Workers PROVE WorkDue(work[u])'
  <2>1. PICK x : x = work'[u]
    OBVIOUS
  <2>2. x = r \/ x = work[u]
    BY <2>1 DEF FieldInv, WorkInv
  <2>3. WorkDue(x)
    BY <2>2 DEF DueInv, RequestsDue
  <2> QED
    BY <1>4, <2>1, <2>3
<1> QED
  BY <1>1, <1>3, <1>5 DEF DueInv, RequestsDue, OpensOnly

LEMMA DueAtOnce ==
    ASSUME FieldInv, TaskInv, DueInv, AtOnce, UNCHANGED orderVars
    PROVE  DueInv'
<1>0. UNCHANGED <<order, offence>>
  BY DEF orderVars
<1>1. CASE UNCHANGED <<taskVars, apply, handled, work>> /\ Unpromised
  BY <1>0, <1>1, SameOpens, DueFrame DEF DueInv
<1>2. ASSUME NEW m \in Meters, File(m) PROVE DueInv'
  BY <1>1, <1>2 DEF File, Unpromised
<1>3. ASSUME NEW m \in Meters, NEW a \in Accounts, Onboard(a, m) PROVE DueInv'
  <2>1. UNCHANGED <<taskVars, apply, handled, work>>
    BY <1>3 DEF Onboard
  <2>2. Unpromised
    BY <1>3 DEF Onboard, Unpromised, Young, FieldInv, PlaceInv, PlaceTypes
  <2> QED
    BY <1>1, <2>1, <2>2
<1>4. ASSUME NEW i \in Ids, Remove(i) \/ \E m \in Meters : Replace(i, m),
             UNCHANGED <<taskVars, work>>
      PROVE  DueInv'
  BY <1>1, <1>4 DEF Remove, Replace, Unpromised
<1>5. ASSUME NEW a \in Accounts, Suspend(a) \/ Resume(a) \/ Close(a, LiveAt(a)),
             UNCHANGED <<taskVars, work>>, UnchangedMeters
      PROVE  DueInv'
  <2>1. Unpromised
    BY <1>5 DEF Suspend, Resume, Close, Turn, Standing, Unpromised, Young, FieldInv,
                PlaceInv, PlaceTypes
  <2> QED
    BY <1>1, <1>5, <2>1 DEF UnchangedMeters
<1>6. CASE Submit
  <2>1. /\ apply.status = "SUBMITTED" /\ SetTasks(Created(task, Review, Nobody))
        /\ UNCHANGED <<placeVars, work>>
    BY <1>6 DEF Submit
  <2>2. OpensOnly({Review})
    BY <2>1, CreateOpens DEF DueInv
  <2>3. UNCHANGED <<apply, acct, handled, work>> /\ Unpromised
    BY <2>1 DEF placeVars, Unpromised
  <2>4. ApplyDue'
    BY <2>1, <2>3 DEF DueInv, ApplyDue, Over
  <2>5. AccountDue' /\ Grown
    BY <2>2, <2>3, AccountFrame, JobsApart DEF DueInv
  <2>6. OrderDue'
    BY <1>0, <2>2, OrdersFrame, JobsApart DEF DueInv
  <2>7. OffenceDue' /\ Reported
    BY <1>0, <2>2, OffenceFrame, JobsApart DEF DueInv
  <2>8. RequestsDue'
    BY <2>2, <2>3, <2>5, <2>7, RequestsFrame, JobsApart DEF DueInv, FieldInv
  <2> QED
    BY <2>2, <2>3, <2>4, <2>5, <2>6, <2>7, <2>8 DEF DueInv, OpensOnly
<1>7. CASE Archive
  <2>1. /\ apply.home /\ apply' = [apply EXCEPT !.status = "COMPLETED"]
        /\ UNCHANGED <<taskVars, work, acct, handled>>
    BY <1>7 DEF Archive, UnchangedPlaces
  <2>2. OpensOnly({}) /\ Unpromised
    BY <2>1, SameOpens DEF DueInv, Unpromised
  <2>3. ApplyDue'
    <3>1. Resting(Review)'
      BY <2>1, <2>2, RestingStays DEF DueInv, ApplyDue
    <3> QED
      BY <2>1, <3>1 DEF DueInv, ApplyDue, ApplyStatuses, Over
  <2>4. AccountDue' /\ Grown
    BY <2>2, AccountFrame DEF DueInv
  <2>5. OrderDue'
    BY <1>0, <2>2, OrdersFrame DEF DueInv
  <2>6. OffenceDue' /\ Reported
    BY <1>0, <2>2, OffenceFrame DEF DueInv
  <2>7. RequestsDue'
    BY <2>1, <2>2, <2>4, <2>6, RequestsFrame DEF DueInv, FieldInv
  <2> QED
    BY <2>1, <2>2, <2>3, <2>4, <2>5, <2>6, <2>7 DEF DueInv, OpensOnly
<1> QED
  BY <1>2, <1>3, <1>4, <1>5, <1>6, <1>7 DEF AtOnce

LEMMA DueCustodyRead ==
    ASSUME FieldInv, TaskInv, DueInv, NEW w \in Workers, Read(w), UNCHANGED orderVars
    PROVE  DueInv'
<1>1. ASSUME NEW r, WorkDue(r), Begin(w, r) PROVE DueInv'
  BY <1>1, DueRead DEF Begin, placeVars, orderVars, DueInv
<1>2. ASSUME NEW r, WorkDue(r), AskHandling(w, r) PROVE DueInv'
  <2>1. handled' \in 0 .. MaxHandlings
    BY <1>2, StartsAssumption DEF AskHandling, Begun, DueInv
  <2> QED
    BY <1>2, <2>1, DueRead DEF AskHandling, orderVars
<1>3. ASSUME NEW a \in Accounts, ReadForReturn(w, a) \/ ReadForInfo(w, a) PROVE DueInv'
  BY <1>1, <1>3 DEF ReadForReturn, ReadForInfo, WorkDue, Young
<1>4. ASSUME NEW a \in Accounts, NEW m \in Meters,
             ReadForInstall(w, a, m) \/ ReadForActivate(w, a, m)
      PROVE  DueInv'
  BY <1>1, <1>4 DEF ReadForInstall, ReadForActivate, WorkDue
<1>5. ASSUME NEW m \in Meters,
             \/ \E type \in DOMAIN After : ReadForMove(w, m, type)
             \/ \E st \in {"AVAILABLE", "MAINTENANCE", "RETIRED"} : ReadForPatch(w, m, st)
      PROVE  DueInv'
  BY <1>2, <1>5 DEF ReadForMove, ReadForPatch, WorkDue
<1>6. ASSUME NEW to \in {"SURVEYED", "APPROVED", "INSTALLING", "REJECTED", "CANCELLED"},
             ReadForStage(w, to)
      PROVE  DueInv'
  <2>1. WorkDue([do |-> "stage", to |-> to, fills |-> FALSE])
    BY DEF WorkDue, ApplyStatuses, Over
  <2> QED
    BY <1>1, <1>6, <2>1 DEF ReadForStage
<1>7. CASE ReadForFilling(w)
  <2>1. WorkDue([do |-> "stage", to |-> "INSTALLING", fills |-> TRUE])
    BY DEF WorkDue, ApplyStatuses, Over
  <2> QED
    BY <1>1, <1>7, <2>1 DEF ReadForFilling
<1>8. CASE ReadForAllocate(w)
  BY <1>1, <1>8 DEF ReadForAllocate, WorkDue
<1> QED
  BY <1>3, <1>4, <1>5, <1>6, <1>7, <1>8 DEF Read

LEMMA DueCommit ==
    ASSUME FieldInv, TaskInv, DueInv, NEW w \in Workers, Commit(w), UNCHANGED orderVars
    PROVE  DueInv'
<1>0. UNCHANGED <<order, offence>>
  BY DEF orderVars
<1>1. CASE UNCHANGED <<taskVars, apply, handled>> /\ EndWork(w) /\ Unpromised
  BY <1>0, <1>1, SameOpens, DueFrame DEF DueInv
<1>2. CASE Install(w) \/ Handle(w) \/ GiveUp(w)
  BY <1>1, <1>2 DEF Install, Handle, GiveUp, placeVars, Unpromised
<1>3. CASE CompleteInfo(w)
  <2>1. UNCHANGED <<taskVars, apply, handled>> /\ EndWork(w)
    BY <1>3 DEF CompleteInfo, UnchangedMeters
  <2>2. work[w].acct \in Accounts /\ acct[work[w].acct] \notin Young
    BY <1>3 DEF CompleteInfo, FieldInv, WorkInv, WorkOK, DueInv, RequestsDue, WorkDue
  <2>3. Unpromised
    BY <1>3, <2>2 DEF CompleteInfo, Unpromised, Young, FieldInv, PlaceInv, PlaceTypes
  <2> QED
    BY <1>1, <2>1, <2>3
<1>4. ASSUME OpensOnly({}), ApplyDue', AccountDue', Grown, EndWork(w), handled' = handled
      PROVE  DueInv'
  <2>1. OrderDue'
    BY <1>0, <1>4, OrdersFrame DEF DueInv
  <2>2. OffenceDue' /\ Reported
    BY <1>0, <1>4, OffenceFrame DEF DueInv
  <2>3. RequestsDue'
    BY <1>4, <2>2, RequestsFrame DEF DueInv, FieldInv
  <2> QED
    BY <1>4, <2>1, <2>2, <2>3 DEF DueInv, OpensOnly
<1>5. CASE Stage(w)
  <2>1. /\ apply' = [apply EXCEPT !.status = work[w].to, !.filled = @ \/ work[w].fills]
        /\ SetTasks(ReviewAfter(task, work[w].to))
        /\ EndWork(w) /\ UNCHANGED <<acct, handled>>
    BY <1>5 DEF Stage, UnchangedPlaces
  <2>2. /\ work[w].to \in ApplyStatuses \ {"NONE", "SUBMITTED", "COMPLETED"}
        /\ work[w].fills \in BOOLEAN
    BY <1>5 DEF Stage, DueInv, RequestsDue, WorkDue
  <2>3. /\ OpensOnly({})
        /\ work[w].to \in {"REJECTED", "CANCELLED"} => Resting(Review)'
    BY <2>1, SameOpens, CloseOpens DEF ReviewAfter, AutoCompleted, SetTasks, taskVars, DueInv
  <2>4. /\ apply' \in [status : ApplyStatuses, filled : BOOLEAN, home : BOOLEAN]
        /\ apply'.status = work[w].to /\ apply'.home = apply.home
    BY <2>1, <2>2 DEF DueInv, ApplyDue
  <2>5. Resting(Review) => Resting(Review)'
    BY <2>3, RestingStays
  <2>6. ApplyDue'
    <3>1. apply.home => Resting(Review)'
      BY <2>5 DEF DueInv, ApplyDue
    <3>2. work[w].to \in Over => Resting(Review)'
      BY <2>2, <2>3 DEF Over
    <3> QED
      BY <2>2, <2>4, <3>1, <3>2 DEF ApplyDue
  <2>7. AccountDue' /\ Grown
    BY <2>1, <2>3, AccountFrame DEF DueInv, Unpromised
  <2> QED
    BY <1>4, <2>1, <2>3, <2>6, <2>7
<1>6. CASE Return(w)
  <2>1. PICK a \in Accounts : a = work[w].acct
    BY <1>6 DEF Return, FieldInv, WorkInv, WorkOK
  <2>2. /\ acct' = [acct EXCEPT ![a] = "RETURNED"]
        /\ SetTasks(Closed(task, {Activation(a)}, "CANCELLED"))
        /\ EndWork(w) /\ UNCHANGED <<apply, handled>>
    BY <1>6, <2>1 DEF Return, UnchangedMeters
  <2>3. OpensOnly({}) /\ Resting(Activation(a))'
    BY <2>2, CloseOpens DEF DueInv
  <2>4. /\ acct'[a] = "RETURNED"
        /\ \A b \in Accounts \ {a} : acct'[b] = acct[b]
    BY <2>2 DEF FieldInv, PlaceInv, PlaceTypes
  <2>5. AccountDue' /\ Grown
    <3>1. \A b \in Accounts : acct'[b] # "PENDING_ASSIGN" => Resting(Activation(b))'
      BY <2>3, <2>4, RestingStays DEF DueInv, AccountDue
    <3>2. \A b \in Accounts : acct'[b] = "NONE" /\ Activation(b) \in Jobs =>
             task'[Activation(b)].status = "NONE"
      BY <2>3, <2>4 DEF DueInv, AccountDue, OpensOnly
    <3> QED
      BY <2>4, <3>1, <3>2 DEF AccountDue, Grown, Young
  <2>6. ApplyDue'
    BY <2>2, <2>3, ApplyFrame DEF DueInv
  <2> QED
    BY <1>4, <2>2, <2>3, <2>5, <2>6
<1>7. CASE Activate(w)
  <2> DEFINE done == apply.status # "COMPLETED"
  <2>1. PICK a \in Accounts : a = work[w].acct
    BY <1>7 DEF Activate, FieldInv, WorkInv, WorkOK
  <2>2. /\ acct' = [acct EXCEPT ![a] = "PENDING_COMPLETE"]
        /\ apply' = IF done THEN [apply EXCEPT !.status = "COMPLETED", !.home = TRUE] ELSE apply
        /\ SetTasks(Closed(task, {Activation(a)} \cup (IF done THEN {Review} ELSE {}), "DONE"))
        /\ EndWork(w) /\ UNCHANGED handled
    BY <1>7, <2>1 DEF Activate, AutoCompleted
  <2>3. OpensOnly({}) /\ Resting(Activation(a))' /\ (done => Resting(Review)')
    BY <2>2, CloseOpens DEF DueInv
  <2>4. /\ acct'[a] = "PENDING_COMPLETE"
        /\ \A b \in Accounts \ {a} : acct'[b] = acct[b]
    BY <2>2 DEF FieldInv, PlaceInv, PlaceTypes
  <2>5. AccountDue' /\ Grown
    <3>1. \A b \in Accounts : acct'[b] # "PENDING_ASSIGN" => Resting(Activation(b))'
      BY <2>3, <2>4, RestingStays DEF DueInv, AccountDue
    <3>2. \A b \in Accounts : acct'[b] = "NONE" /\ Activation(b) \in Jobs =>
             task'[Activation(b)].status = "NONE"
      BY <2>3, <2>4 DEF DueInv, AccountDue, OpensOnly
    <3> QED
      BY <2>4, <3>1, <3>2 DEF AccountDue, Grown, Young
  <2>6. ApplyDue'
    <3>1. CASE done
      BY <2>2, <2>3, <3>1 DEF DueInv, ApplyDue, ApplyStatuses, Over
    <3>2. CASE ~ done
      BY <2>2, <2>3, <3>2, ApplyFrame DEF DueInv
    <3> QED
      BY <3>1, <3>2
  <2> QED
    BY <1>4, <2>2, <2>3, <2>5, <2>6
<1>8. ASSUME NEW a \in Accounts, NEW s \in Staff, Allocate(w, a, s) PROVE DueInv'
  <2>1. /\ acct[a] = "NONE" /\ acct' = [acct EXCEPT ![a] = "PENDING_ASSIGN"]
        /\ SetTasks(Created(task, Activation(a), s))
        /\ EndWork(w) /\ UNCHANGED <<apply, handled>>
    BY <1>8 DEF Allocate, UnchangedMeters
  <2>2. OpensOnly({Activation(a)})
    BY <2>1, CreateOpens DEF DueInv
  <2>3. /\ acct'[a] = "PENDING_ASSIGN"
        /\ \A b \in Accounts \ {a} : acct'[b] = acct[b]
    BY <2>1 DEF FieldInv, PlaceInv, PlaceTypes
  <2>4. AccountDue' /\ Grown
    <3>1. ASSUME NEW b \in Accounts, b # a
          PROVE  /\ acct'[b] # "PENDING_ASSIGN" => Resting(Activation(b))'
                 /\ acct'[b] = "NONE" /\ Activation(b) \in Jobs =>
                       task'[Activation(b)].status = "NONE"
      BY ZenonT(60), <2>2, <2>3, <3>1, RestingStays, JobsApart DEF DueInv, AccountDue, OpensOnly
    <3> QED
      BY <2>1, <2>3, <3>1 DEF AccountDue, Grown, Young
  <2>5. ApplyDue'
    BY <2>1, <2>2, ApplyFrame, JobsApart DEF DueInv
  <2>6. OrderDue'
    BY <1>0, <2>2, OrdersFrame, JobsApart DEF DueInv
  <2>7. OffenceDue' /\ Reported
    BY <1>0, <2>2, OffenceFrame, JobsApart DEF DueInv
  <2>8. RequestsDue'
    BY <2>1, <2>2, <2>4, <2>7, RequestsFrame, JobsApart DEF DueInv, FieldInv
  <2> QED
    BY <2>1, <2>2, <2>4, <2>5, <2>6, <2>7, <2>8 DEF DueInv, OpensOnly
<1> QED
  BY <1>2, <1>3, <1>5, <1>6, <1>7, <1>8 DEF Commit

LEMMA LinkageDue ==
    ASSUME FieldInv, NEW o \in Orders, Linkage(o)
    PROVE  Unpromised /\ UNCHANGED <<apply, handled>>
<1> USE DEF UnchangedMeters
<1>1. CASE Exchanged(o)
  BY <1>1 DEF Exchanged, Replace, Unpromised
<1>2. ASSUME NEW to \in {"NORMAL", "SUSPENDED", "CLOSED"}, NEW from \in SUBSET Standing,
             Turn(order[o].acct, from, to)
      PROVE  Unpromised
  BY <1>2 DEF Turn, Standing, Unpromised, Young, FieldInv, PlaceInv, PlaceTypes
<1>3. CASE TakenDown(o)
  BY <1>2, <1>3 DEF TakenDown, Close
<1>4. CASE (Suspend(order[o].acct) \/ Resume(order[o].acct)) /\ UnchangedMeters
  BY <1>2, <1>4 DEF Suspend, Resume, Standing
<1>5. CASE UNCHANGED placeVars
  BY <1>5 DEF placeVars, Unpromised
<1> QED
  BY <1>1, <1>3, <1>4, <1>5 DEF Linkage

(* The steps of an order and of a violation: the rest stands still.        *)
LEMMA DueOrdersFrame ==
    ASSUME FieldInv, DueInv, NEW ks, OpensOnly(ks), Review \notin ks,
           \A a \in Accounts : Activation(a) \notin ks,
           \A v \in Violations : Handling(v) \in ks => offence[v] = "NONE",
           Unpromised, UNCHANGED <<apply, handled>>, OrderDue', OffenceDue', Reported,
           work' = work \/ \E w \in Workers : EndWork(w)
    PROVE  DueInv'
<1>1. ApplyDue'
  BY ApplyFrame DEF DueInv
<1>2. AccountDue' /\ Grown
  BY AccountFrame DEF DueInv
<1>3. RequestsDue'
  BY <1>2, RequestsFrame DEF DueInv, FieldInv
<1> QED
  BY <1>1, <1>2, <1>3 DEF DueInv, OpensOnly

LEMMA PlacedDue ==
    ASSUME FieldInv, TaskInv, DueInv, NEW o \in Orders, NEW a, NEW kind, NEW i, NEW swap,
           NEW approved \in BOOLEAN, Placed(o, a, kind, i, swap, approved),
           work' = work \/ \E w \in Workers : EndWork(w)
    PROVE  DueInv'
<1>1. /\ order[o].status = "NONE"
      /\ order'[o].status = IF approved THEN "APPROVED" ELSE "PENDING_APPROVAL"
      /\ \A p \in Orders \ {o} : order'[p] = order[p]
      /\ SetTasks(IF approved THEN task ELSE Created(task, Approval(o), Nobody))
      /\ UNCHANGED <<placeVars, offence>>
  BY DEF Placed, NoOrder, FieldInv, OrderInv, OrderRows
<1>2. OpensOnly(IF approved THEN {} ELSE {Approval(o)})
  BY <1>1, SameOpens, CreateOpens DEF SetTasks, taskVars, DueInv
<1>3. UNCHANGED <<apply, acct, handled>> /\ Unpromised
  BY <1>1 DEF placeVars, Unpromised
<1>4. OrderDue'
  <2>1. ASSUME NEW p \in Orders
        PROVE  /\ order'[p].status # "PENDING_APPROVAL" => Resting(Approval(p))'
               /\ order'[p].status # "DISPATCHED" => Resting(Execution(p))'
    <3>1. Execution(p) # Approval(o) /\ (p # o => Approval(p) # Approval(o))
      BY JobsApart
    <3>2. Resting(Execution(p)) => Resting(Execution(p))'
      BY <1>2, <3>1, RestingStays
    <3>3. Resting(Approval(p)) /\ (approved \/ p # o) => Resting(Approval(p))'
      BY <1>2, <3>1, RestingStays
    <3> QED
      BY <1>1, <3>2, <3>3 DEF DueInv, OrderDue
  <2> QED
    BY <2>1 DEF OrderDue
<1>5. OffenceDue' /\ Reported
  BY <1>1, <1>2, OffenceFrame, JobsApart DEF DueInv
<1> QED
  BY <1>2, <1>3, <1>4, <1>5, DueOrdersFrame, JobsApart

(* Tasks of o are closed while o goes on.                                  *)
LEMMA ClosedDue ==
    ASSUME FieldInv, TaskInv, DueInv, NEW o \in Orders,
           NEW js \in SUBSET {Approval(o), Execution(o)}, NEW to,
           order' = [order EXCEPT ![o].status = to], SetTasks(AutoCompleted(task, js)),
           to # "PENDING_APPROVAL" /\ order[o].status = "PENDING_APPROVAL" => Approval(o) \in js,
           to # "DISPATCHED" /\ order[o].status = "DISPATCHED" => Execution(o) \in js,
           Unpromised, UNCHANGED <<apply, handled, offence>>,
           work' = work \/ \E w \in Workers : EndWork(w)
    PROVE  DueInv'
<1>1. OpensOnly({}) /\ \A j \in js : Resting(j)'
  BY CloseOpens DEF AutoCompleted, DueInv
<1>2. order'[o].status = to /\ \A p \in Orders \ {o} : order'[p] = order[p]
  BY DEF FieldInv, OrderInv, OrderRows
<1>3. OrderDue'
  <2>1. \A p \in Orders : /\ Resting(Approval(p)) => Resting(Approval(p))'
                          /\ Resting(Execution(p)) => Resting(Execution(p))'
    BY <1>1, RestingStays
  <2> QED
    BY <1>1, <1>2, <2>1 DEF DueInv, OrderDue
<1>4. OffenceDue' /\ Reported
  BY <1>1, OffenceFrame DEF DueInv
<1> QED
  BY <1>1, <1>3, <1>4, DueOrdersFrame

LEMMA DueOrders ==
    ASSUME FieldInv, TaskInv, DueInv, OrderAtOnce \/ \E w \in Workers : OrderCommit(w)
    PROVE  DueInv'
<1>1. ASSUME NEW o \in Orders, Create(o) PROVE DueInv'
  BY <1>1, PlacedDue DEF Create
<1>2. ASSUME NEW o \in Orders,
             Approve(o) \/ Reject(o) \/ ArchiveOrder(o) \/ CancelOrder(o)
      PROVE  DueInv'
  <2>1. UNCHANGED <<placeVars, effects, offence, work>>
    BY <1>2 DEF Approve, Reject, ArchiveOrder, CancelOrder, Go
  <2>2. UNCHANGED <<apply, handled>> /\ Unpromised
    BY <2>1 DEF placeVars, Unpromised
  <2>3. PICK js \in SUBSET {Approval(o), Execution(o)},
             to \in {"APPROVED", "REJECTED", "ARCHIVED", "CANCELLED"} :
           /\ order' = [order EXCEPT ![o].status = to]
           /\ SetTasks(AutoCompleted(task, js))
           /\ order[o].status = "PENDING_APPROVAL" => Approval(o) \in js
           /\ order[o].status = "DISPATCHED" => Execution(o) \in js
    BY <1>2 DEF Approve, Reject, ArchiveOrder, CancelOrder, Go, TasksOf
  <2> QED
    BY <2>1, <2>2, <2>3, ClosedDue
<1>3. ASSUME NEW o \in Orders, Dispatch(o) PROVE DueInv'
  <2>1. /\ order[o].status = "APPROVED" /\ order' = [order EXCEPT ![o].status = "DISPATCHED"]
        /\ SetTasks(Created(task, Execution(o), Nobody))
        /\ UNCHANGED <<placeVars, offence, work>>
    BY <1>3 DEF Dispatch, Go
  <2>2. OpensOnly({Execution(o)})
    BY <2>1, CreateOpens DEF DueInv
  <2>3. UNCHANGED <<apply, acct, handled>> /\ Unpromised
    BY <2>1 DEF placeVars, Unpromised
  <2>4. order'[o].status = "DISPATCHED" /\ \A p \in Orders \ {o} : order'[p] = order[p]
    BY <2>1 DEF FieldInv, OrderInv, OrderRows
  <2>5. OrderDue'
    <3>1. ASSUME NEW p \in Orders
          PROVE  /\ order'[p].status # "PENDING_APPROVAL" => Resting(Approval(p))'
                 /\ order'[p].status # "DISPATCHED" => Resting(Execution(p))'
      <4>1. Approval(p) # Execution(o) /\ (p # o => Execution(p) # Execution(o))
        BY JobsApart
      <4>2. Resting(Approval(p)) => Resting(Approval(p))'
        BY <2>2, <4>1, RestingStays
      <4>3. Resting(Execution(p)) /\ p # o => Resting(Execution(p))'
        BY <2>2, <4>1, RestingStays
      <4> QED
        BY <2>1, <2>4, <4>2, <4>3 DEF DueInv, OrderDue
    <3> QED
      BY <3>1 DEF OrderDue
  <2>6. OffenceDue' /\ Reported
    BY <2>1, <2>2, OffenceFrame, JobsApart DEF DueInv
  <2> QED
    BY <2>1, <2>2, <2>3, <2>5, <2>6, DueOrdersFrame, JobsApart
<1>4. ASSUME NEW v \in Violations, Report(v) PROVE DueInv'
  <2>1. PICK st \in {"PENDING_REVIEW", "PROCESSING"} : offence' = [offence EXCEPT ![v] = st]
    BY <1>4 DEF Report
  <2>2. /\ offence[v] = "NONE" /\ SetTasks(Created(task, Handling(v), Nobody))
        /\ UNCHANGED <<placeVars, order, work>>
    BY <1>4 DEF Report
  <2>3. OpensOnly({Handling(v)})
    BY <2>2, CreateOpens DEF DueInv
  <2>4. UNCHANGED <<apply, acct, handled>> /\ Unpromised
    BY <2>2 DEF placeVars, Unpromised
  <2>5. OrderDue'
    BY <2>2, <2>3, OrdersFrame, JobsApart DEF DueInv
  <2>6. Reported
    BY <2>1 DEF Reported, DueInv, OffenceDue
  <2>7. OffenceDue'
    <3>1. offence' \in [Violations -> OffenceStatuses] /\ offence'[v] \notin Handled
      BY <2>1 DEF DueInv, OffenceDue, OffenceStatuses, Handled
    <3>2. ASSUME NEW u \in Violations, u # v, offence'[u] \in Handled
          PROVE  Resting(Handling(u))'
      <4>1. Handling(u) # Handling(v)
        BY <3>2, JobsApart
      <4>2. Resting(Handling(u))
        BY <2>1, <3>2 DEF DueInv, OffenceDue
      <4> QED
        BY <2>3, <4>1, <4>2, RestingStays
    <3> QED
      BY <3>1, <3>2 DEF OffenceDue
  <2>8. \A u \in Violations : Handling(u) \in {Handling(v)} => offence[u] = "NONE"
    BY <2>2, JobsApart
  <2> QED
    BY <2>2, <2>3, <2>4, <2>5, <2>6, <2>7, <2>8, DueOrdersFrame, JobsApart
<1>5. ASSUME NEW w \in Workers, Execute(w) PROVE DueInv'
  <2>1. PICK o \in Orders : o = work[w].order
    BY <1>5 DEF Execute, FieldInv, WorkInv, WorkOK
  <2>2. /\ order[o].status = "DISPATCHED" /\ Linkage(o)
        /\ order' = [order EXCEPT ![o].status = "EXECUTED"]
        /\ SetTasks(AutoCompleted(task, {Execution(o)}))
        /\ EndWork(w) /\ UNCHANGED offence
    BY <1>5, <2>1 DEF Execute, StillDispatched
  <2>3. Unpromised /\ UNCHANGED <<apply, handled>>
    BY <2>2, LinkageDue
  <2> QED
    BY <2>2, <2>3, ClosedDue
<1>6. ASSUME NEW w \in Workers, Verdict(w) PROVE DueInv'
  <2>1. PICK v \in Violations, to \in OffenceStatuses \ {"NONE"} :
            v = work[w].offence /\ to = work[w].to
    BY <1>6 DEF Verdict, FieldInv, WorkInv, WorkOK, DueInv, RequestsDue, WorkDue
  <2>2. to = "ARCHIVED" => Resting(Handling(v))
    BY <1>6, <2>1 DEF Verdict, DueInv, RequestsDue, WorkDue
  <2>3. /\ offence' = [offence EXCEPT ![v] = to]
        /\ SetTasks(IF to \in {"DISMISSED", "PROCESSED"}
                    THEN Closed(task, {Handling(v)}, "DONE") ELSE task)
        /\ EndWork(w) /\ UNCHANGED <<placeVars, order>>
    BY <1>6, <2>1 DEF Verdict, AutoCompleted
  <2>4. /\ OpensOnly({})
        /\ to \in {"DISMISSED", "PROCESSED"} => Resting(Handling(v))'
    BY <2>3, SameOpens, CloseOpens DEF SetTasks, taskVars, DueInv
  <2>5. UNCHANGED <<apply, acct, handled>> /\ Unpromised
    BY <2>3 DEF placeVars, Unpromised
  <2>6. OrderDue'
    BY <2>3, <2>4, OrdersFrame DEF DueInv
  <2>7. Reported
    BY <2>2, <2>3 DEF Reported, DueInv, OffenceDue
  <2>8. OffenceDue'
    <3>1. /\ offence' \in [Violations -> OffenceStatuses] /\ offence'[v] = to
          /\ \A u \in Violations \ {v} : offence'[u] = offence[u]
      BY <2>2, <2>3 DEF DueInv, OffenceDue
    <3>2. to \in Handled => Resting(Handling(v))'
      BY <2>2, <2>4, RestingStays DEF Handled
    <3>3. ASSUME NEW u \in Violations \ {v}, offence'[u] \in Handled
          PROVE  Resting(Handling(u))'
      BY <2>4, <3>1, <3>3, RestingStays DEF DueInv, OffenceDue
    <3> QED
      BY <3>1, <3>2, <3>3 DEF OffenceDue
  <2> QED
    BY <2>3, <2>4, <2>5, <2>6, <2>7, <2>8, DueOrdersFrame
<1>7. ASSUME NEW w \in Workers, NEW o \in Orders, Scan(w, o) PROVE DueInv'
  BY <1>7, PlacedDue DEF Scan
<1> QED
  BY <1>1, <1>2, <1>3, <1>4, <1>5, <1>6, <1>7 DEF OrderAtOnce, OrderCommit

LEMMA DueInitHolds == FieldInit => DueInv
<1> SUFFICES ASSUME FieldInit PROVE DueInv
  OBVIOUS
<1> USE DEF FieldInit, CustodyInit
<1>1. \A j \in Jobs : task[j].status = "NONE"
  BY DEF TaskInit, NoTask
<1>2. Held /\ \A j : Resting(j)
  BY <1>1 DEF Held, Resting, IsOpen, OpenStatuses
<1>3. PICK s \in Starts : apply = s.apply
  OBVIOUS
<1>4. ApplyDue
  BY <1>2, <1>3, StartsAssumption DEF ApplyDue
<1>5. AccountDue /\ OrderDue
  BY <1>1, <1>2 DEF AccountDue, OrderDue
<1>6. OffenceDue
  BY <1>2 DEF OrderInit, OffenceDue, OffenceStatuses
<1>7. RequestsDue
  BY DEF RequestsDue, WorkDue, Idle
<1> QED
  BY <1>2, <1>4, <1>5, <1>6, <1>7, StartsAssumption DEF DueInv

LEMMA DueStep == FieldInv /\ TaskInv /\ DueInv /\ [FieldNext]_fieldVars => DueInv'
<1> SUFFICES ASSUME FieldInv, TaskInv, DueInv, [FieldNext]_fieldVars PROVE DueInv'
  OBVIOUS
<1>1. CASE OrderAtOnce \/ \E w \in Workers : OrderCommit(w)
  BY <1>1, DueOrders
<1>2. CASE DeskStepOfOrders
  <2>1. OpensOnly({})
    BY <1>2, DeskOpens DEF DeskStepOfOrders, DueInv
  <2> QED
    BY <1>2, <2>1, DueFrame DEF DeskStepOfOrders, placeVars, orderVars, Unpromised
<1>3. CASE AtOnce /\ UNCHANGED orderVars
  BY <1>3, DueAtOnce
<1>4. ASSUME NEW w \in Workers, Read(w) \/ Commit(w), UNCHANGED orderVars PROVE DueInv'
  BY <1>4, DueCustodyRead, DueCommit
<1>5. ASSUME NEW w \in Workers, OrderRead(w), UNCHANGED orderVars PROVE DueInv'
  <2>1. ASSUME NEW r, WorkDue(r), Begin(w, r) PROVE DueInv'
    BY <1>5, <2>1, DueRead DEF Begin, placeVars, orderVars, DueInv
  <2>2. ASSUME NEW o \in Orders, ReadForExecute(w, o) PROVE DueInv'
    BY <2>1, <2>2 DEF ReadForExecute, WorkDue
  <2>3. ASSUME NEW i \in Ids, ReadForScan(w, i) PROVE DueInv'
    BY <2>1, <2>3 DEF ReadForScan, WorkDue
  <2>4. ASSUME NEW v \in Violations, ReadForVerdict(w, v) PROVE DueInv'
    <3>1. PICK to \in AfterOf(offence[v]) : Begin(w, [do |-> "verdict", offence |-> v, to |-> to])
      BY <2>4 DEF ReadForVerdict
    <3>2. /\ offence[v] # "NONE" /\ to \in OffenceStatuses \ {"NONE"}
          /\ to = "ARCHIVED" => offence[v] = "PROCESSED"
      BY DEF AfterOf, OffenceStatuses, Handled
    <3>3. to = "ARCHIVED" => Resting(Handling(v))
      BY <3>2 DEF DueInv, OffenceDue, Handled
    <3> QED
      BY <2>1, <3>1, <3>2, <3>3 DEF WorkDue
  <2> QED
    BY <1>5, <2>2, <2>3, <2>4 DEF OrderRead
<1>6. CASE UNCHANGED fieldVars
  <2>1. UNCHANGED <<taskVars, placeVars, work, orderVars>>
    BY <1>6 DEF fieldVars, custodyVars
  <2> QED
    BY <2>1, SameOpens, DueFrame DEF placeVars, orderVars, Unpromised, DueInv
<1> QED
  BY <1>1, <1>2, <1>3, <1>4, <1>5, <1>6 DEF FieldNext
-----------------------------------------------------------------------------
(* Whatever is installed, exchanged, removed or executed while an account  *)
(* is being closed, a closed account has no meter standing.                *)
THEOREM NoMeterAtClosed == FieldSpec => []ClosedHasNoMeter
<1>1. FieldInv => ClosedHasNoMeter
  BY DEF FieldInv, PlaceInv
<1> QED
  BY <1>1, FieldInitHolds, FieldStep, PTL DEF FieldSpec

(* A meter that no unchecked write has hit stands in one place exactly     *)
(* when its status says INSTALLED, and otherwise nowhere.                  *)
THEOREM OneMeterOnePlace == FieldSpec => []MeterInOnePlace
<1>1. FieldInv => MeterInOnePlace
  BY FS_EmptySet, FS_Singleton DEF FieldInv, PlaceInv, OnePlace, HangsOnce, MeterInOnePlace
<1> QED
  BY <1>1, FieldInitHolds, FieldStep, PTL DEF FieldSpec

(* The work of an order is done once when the order says it is executed,   *)
(* and never otherwise.                                                    *)
THEOREM OrderDoneOnce == FieldSpec => []DoneOnce
<1>1. FieldInv => DoneOnce
  BY DEF FieldInv, OrderInv
<1> QED
  BY <1>1, FieldInitHolds, FieldStep, PTL DEF FieldSpec

(* A task that is DONE means that its business is done: no click clears    *)
(* the approval of an order that waits for it, or an execution under way.  *)
THEOREM DoneTasksAreDone == FieldSpec => []DoneMeansDone
<1>1. TaskInv => DoneMeansDone
  BY DEF TaskInv, Fit, DoneMeansDone
<1>2. FieldInit => FieldInv /\ TaskInv
  BY FieldInitHolds, TaskInitHolds
<1>3. FieldInv /\ TaskInv /\ [FieldNext]_fieldVars => (FieldInv /\ TaskInv)'
  BY FieldStep, TaskStep
<1> QED
  BY <1>1, <1>2, <1>3, PTL DEF FieldSpec

LEMMA DueAlways == FieldSpec => [](FieldInv /\ TaskInv /\ DueInv)
<1>1. FieldInit => FieldInv /\ TaskInv /\ DueInv
  BY FieldInitHolds, TaskInitHolds, DueInitHolds
<1>2. FieldInv /\ TaskInv /\ DueInv /\ [FieldNext]_fieldVars => (FieldInv /\ TaskInv /\ DueInv)'
  BY FieldStep, TaskStep, DueStep
<1> QED
  BY <1>1, <1>2, PTL DEF FieldSpec

(* No task stays in the centre for business that is over, except one that  *)
(* a reassignment decided before has opened again: whatever the order in   *)
(* which requests read, decide and commit.                                 *)
THEOREM OpenTasksAreDue == FieldSpec => []OpenTaskIsDue
<1>1. DueInv => OpenTaskIsDue
  <2> SUFFICES ASSUME DueInv, NEW j \in Jobs \ revived, IsOpen(j) PROVE Pending(j)
    BY DEF OpenTaskIsDue
  <2>1. ~ Resting(j)
    BY DEF Resting
  <2> QED
    BY <2>1 DEF DueInv, ApplyDue, AccountDue, OrderDue, OffenceDue, Pending
<1> QED
  BY <1>1, DueAlways, PTL

(* Rows keep their types, a task that somebody holds has a holder, and a   *)
(* meter that is filed nowhere is in no warehouse and at no account.       *)
THEOREM FieldTypes == FieldSpec => []FieldTypeOK
<1>1. FieldInv /\ TaskInv /\ DueInv => FieldTypeOK
  <2> SUFFICES ASSUME FieldInv, TaskInv, DueInv PROVE FieldTypeOK
    OBVIOUS
  <2>1. \A i \in Live : inst[i].acct \in Accounts /\ inst[i].meter \in Meters
    BY DEF FieldInv, PlaceInv, PlaceTypes, RowsInOrder, Live, InstRows
  <2> QED
    BY <2>1 DEF FieldInv, PlaceInv, PlaceTypes, Unfiled, OrderInv, KindsKnown, TaskInv, TaskRows,
                DueInv, Held, FieldTypeOK
<1> QED
  BY <1>1, DueAlways, PTL
=============================================================================
