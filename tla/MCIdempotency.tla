---------------------------- MODULE MCIdempotency ----------------------------
(* Two equal run creations and two equal payments, all with the same key.  *)
EXTENDS Idempotency
CONSTANTS a, b, c, d, k1
MCKeyOf     == [r \in Requests |-> k1]
MCPayloadOf == [r \in Requests |-> IF r \in Creators THEN "create" ELSE "pay"]
=============================================================================
