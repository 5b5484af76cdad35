----------------------------- MODULE Idempotency -----------------------------
(***************************************************************************)
(* IdempotencyService: requests that carry an Idempotency-Key, statement   *)
(* by statement.  Most requests run in one transaction (runWithKey); the   *)
(* creation of a billing run (Creators) commits the PROCESSING key with    *)
(* the run, works on in further transactions, and completes the key with   *)
(* the last (claimTx, linkRunTx, completeTx).                              *)
(*                                                                         *)
(* keyRow[k] committed row of key k: its request's payload, status, the    *)
(*          execution whose response it stores, the billing run it links   *)
(* holder[k] the request whose open transaction has inserted a row of k;   *)
(*          another insert of k waits for it to end (unique index)         *)
(* landed   executions whose business write is committed                   *)
(* An execution is named by the request that runs it.                      *)
(***************************************************************************)
EXTENDS Integers, FiniteSets

CONSTANTS Requests, Keys,
          Payloads,   \* what method, route and body hash tell apart
          KeyOf, PayloadOf,
          Creators,   \* the requests that create a billing run
          None, Refused,
          MaxCrashes  \* bound: requests that die

ASSUME KeyAssumption ==
    /\ KeyOf \in [Requests -> Keys]
    /\ PayloadOf \in [Requests -> Payloads]
    /\ Creators \subseteq Requests
    /\ None \notin Requests \cup {Refused}
    /\ Refused \notin Requests
    /\ MaxCrashes \in Nat

VARIABLES keyRow, holder, landed, pc, answer, crashes
vars == <<keyRow, holder, landed, pc, answer, crashes>>

NoRow == [status |-> "ABSENT", by |-> None, run |-> None]
Row   == [status : {"ABSENT", "PROCESSING", "COMPLETED"},
          by : Requests \cup {None}, run : Requests \cup {None}]

Key(r)  == KeyOf[r]
Seen(r) == keyRow[KeyOf[r]]
InTx(r) == holder[KeyOf[r]] = r

Mismatch(r) == PayloadOf[Seen(r).by] # PayloadOf[r]

Init ==
    /\ keyRow = [k \in Keys |-> NoRow]
    /\ holder = [k \in Keys |-> None]
    /\ landed = {}
    /\ pc = [r \in Requests |-> "find"]
    /\ answer = [r \in Requests |-> None]
    /\ crashes = 0

Go(r, place) == pc' = [pc EXCEPT ![r] = place]

Reply(r, a) ==
    /\ answer' = [answer EXCEPT ![r] = a]
    /\ Go(r, "done")

Release(r) == holder' = [holder EXCEPT ![Key(r)] = None]
-----------------------------------------------------------------------------
(* The committed row, when there is one, settles the request: 409 for      *)
(* another request's key, the stored response, or 409 IN_PROGRESS (which   *)
(* the faulty variant waits out).                                          *)
SettleWaiting(r) ==
    /\ Seen(r).status = "COMPLETED"
    /\ Reply(r, IF Mismatch(r) THEN Refused ELSE Seen(r).by)

Settle(r) ==
    Reply(r, IF Mismatch(r) THEN Refused
             ELSE IF Seen(r).status = "COMPLETED" THEN Seen(r).by ELSE Refused)

Find(r) ==
    /\ pc[r] = "find"
    /\ IF Seen(r).status = "ABSENT"
       THEN Go(r, "insert") /\ UNCHANGED answer
       ELSE Settle(r)
    /\ UNCHANGED <<keyRow, holder, landed, crashes>>

(* The faulty variant has no unique index on the key.                      *)
NeverViolated(r) == r \notin Requests
UniqueViolation(r) == Seen(r).status # "ABSENT"

(* The insert waits for a transaction that has inserted the key and not    *)
(* ended; against a committed row it fails, and with it the transaction.   *)
Insert(r) ==
    /\ pc[r] = "insert"
    /\ holder[Key(r)] = None
    /\ IF ~ UniqueViolation(r)
       THEN Go(r, "work") /\ holder' = [holder EXCEPT ![Key(r)] = r]
       ELSE Go(r, "reread") /\ UNCHANGED holder
    /\ UNCHANGED <<keyRow, landed, answer, crashes>>

(* replayOrConflict, in a fresh transaction; the row may be gone again.    *)
Reread(r) ==
    /\ pc[r] = "reread"
    /\ IF Seen(r).status = "ABSENT" THEN Reply(r, Refused) ELSE Settle(r)
    /\ UNCHANGED <<keyRow, holder, landed, crashes>>

(* One transaction: the business write and the COMPLETED row commit        *)
(* together, or an exception rolls both back.                              *)
Stored(r, run) == [status |-> "COMPLETED", by |-> r, run |-> run]

CommitOnce(r) ==
    /\ r \notin Creators
    /\ pc[r] = "work"
    /\ keyRow' = [keyRow EXCEPT ![Key(r)] = Stored(r, None)]
    /\ landed' = landed \cup {r}
    /\ Release(r)
    /\ Reply(r, r)
    /\ UNCHANGED crashes

Throw(r) ==
    /\ pc[r] = "work"
    /\ InTx(r)
    /\ Release(r)
    /\ Reply(r, Refused)
    /\ UNCHANGED <<keyRow, landed, crashes>>

(* A creator commits the claim, linked to its run, and goes on.            *)
CommitClaim(r) ==
    /\ r \in Creators
    /\ pc[r] = "work"
    /\ keyRow' = [keyRow EXCEPT ![Key(r)] =
                    [status |-> "PROCESSING", by |-> r, run |-> r]]
    /\ landed' = landed \cup {r}
    /\ Release(r)
    /\ Go(r, "generate")
    /\ UNCHANGED <<answer, crashes>>

(* The last transaction: the run, if it still stands, and the key.         *)
RunStands(r) == r \in landed

Finalize(r) ==
    /\ pc[r] = "generate"
    /\ IF RunStands(r)
       THEN /\ keyRow' = [keyRow EXCEPT ![Key(r)] = Stored(r, r)]
            /\ Reply(r, r)
       ELSE Reply(r, Refused) /\ UNCHANGED keyRow
    /\ UNCHANGED <<holder, landed, crashes>>

(* A batch or the finalize raises: the key stays PROCESSING.               *)
Abandon(r) ==
    /\ pc[r] = "generate"
    /\ Reply(r, Refused)
    /\ UNCHANGED <<keyRow, holder, landed, crashes>>

(* discardTx of run r: its PROCESSING key goes, its COMPLETED key stays    *)
(* and is unlinked.  The faulty variant deletes both.                      *)
ReleasedAnyStatus(k, r) == IF keyRow[k].run # r THEN keyRow[k] ELSE NoRow

Unlinked(k, r) ==
    IF keyRow[k].run # r THEN keyRow[k]
    ELSE IF keyRow[k].status = "PROCESSING" THEN NoRow
    ELSE [keyRow[k] EXCEPT !.run = None]

Discard(r) ==
    /\ r \in Creators \cap landed
    /\ landed' = landed \ {r}
    /\ keyRow' = [k \in Keys |-> Unlinked(k, r)]
    /\ UNCHANGED <<holder, pc, answer, crashes>>

(* The server dies: an open transaction is rolled back.                    *)
Crash(r) ==
    /\ crashes < MaxCrashes
    /\ pc[r] # "done"
    /\ crashes' = crashes + 1
    /\ IF InTx(r) THEN Release(r) ELSE UNCHANGED holder
    /\ Reply(r, None)
    /\ UNCHANGED <<keyRow, landed>>

(* The client, whatever it was told, or for want of an answer, asks again. *)
Retry(r) ==
    /\ pc[r] = "done"
    /\ answer' = [answer EXCEPT ![r] = None]
    /\ Go(r, "find")
    /\ UNCHANGED <<keyRow, holder, landed, crashes>>
-----------------------------------------------------------------------------
Handle(r) ==
    \/ Find(r) \/ Insert(r) \/ Reread(r) \/ CommitOnce(r) \/ Throw(r)
    \/ CommitClaim(r) \/ Finalize(r) \/ Abandon(r)

Next ==
    \E r \in Requests : Handle(r) \/ Discard(r) \/ Crash(r) \/ Retry(r)

Spec == Init /\ [][Next]_vars

(* Every handler runs on; PostgreSQL wakes those who wait for a key in the *)
(* order they came.                                                        *)
FairSpec ==
    Spec /\ \A r \in Requests : WF_vars(Handle(r)) /\ SF_vars(Insert(r))
-----------------------------------------------------------------------------
(* Type invariant; a request holds a key only while it works in the        *)
(* transaction that inserted it.                                           *)
TypeOK ==
    /\ keyRow \in [Keys -> Row]
    /\ holder \in [Keys -> Requests \cup {None}]
    /\ landed \in SUBSET Requests
    /\ pc \in [Requests -> {"find", "insert", "work", "reread", "generate", "done"}]
    /\ answer \in [Requests -> Requests \cup {None, Refused}]
    /\ crashes \in 0 .. MaxCrashes
    /\ \A k \in Keys : holder[k] # None => KeyOf[holder[k]] = k /\ pc[holder[k]] = "work"

(* "No business landed, key missing window": every committed business      *)
(* write has its key row, so that no key ever has two of them, whatever    *)
(* crashes, is retried or discarded.                                       *)
LandedOncePerKey ==
    /\ \A r \in landed : Seen(r).status # "ABSENT" /\ Seen(r).by = r
    /\ \A r1, r2 \in landed : KeyOf[r1] = KeyOf[r2] => r1 = r2

(* The promise to the client: a key settles once, and is answered for ever *)
(* with the response of the one execution, to equal requests only.         *)
Result == [k \in Keys |-> IF keyRow[k].status = "COMPLETED" THEN keyRow[k].by ELSE None]
Promise == INSTANCE AnswerOnce WITH result <- Result
PromiseKept == Promise!Spec

(* No request waits for ever for a key.                                    *)
RequestsAnswered == \A r \in Requests : pc[r] # "done" ~> pc[r] = "done"
=============================================================================
