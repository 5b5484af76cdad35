----------------------------- MODULE AnswerOnce -----------------------------
(***************************************************************************)
(* What an idempotency key promises a client: a key is settled by at most  *)
(* one execution, for ever, and whoever asks with that key is either       *)
(* refused or given that execution's answer.  An execution, its business   *)
(* write and its answer all go by the request that ran it.                 *)
(***************************************************************************)
CONSTANTS Requests, Keys, Payloads, KeyOf, PayloadOf, None, Refused

VARIABLES result, answer

Init ==
    /\ result = [k \in Keys |-> None]
    /\ answer = [r \in Requests |-> None]

Execute(r) ==
    /\ result[KeyOf[r]] = None
    /\ result' = [result EXCEPT ![KeyOf[r]] = r]
    /\ answer' = [answer EXCEPT ![r] = r]

Replay(r) ==
    /\ result[KeyOf[r]] # None
    /\ PayloadOf[result[KeyOf[r]]] = PayloadOf[r]
    /\ answer' = [answer EXCEPT ![r] = result[KeyOf[r]]]
    /\ UNCHANGED result

Refuse(r) ==
    /\ answer' = [answer EXCEPT ![r] = Refused]
    /\ UNCHANGED result

AskAgain(r) ==
    /\ answer' = [answer EXCEPT ![r] = None]
    /\ UNCHANGED result

Next == \E r \in Requests : Execute(r) \/ Replay(r) \/ Refuse(r) \/ AskAgain(r)

Spec == Init /\ [][Next]_<<result, answer>>
=============================================================================
