------------------------------ MODULE MCReadings ------------------------------
(* Reading plans and the remote pipeline, which meet at the plan items     *)
(* (RemotePipeline has its own view of them), the ladder that prices an    *)
(* account's usage, and the tariff book the prices come from.  One run     *)
(* explores the behaviours of each part beside the others at rest.         *)
EXTENDS ReadingPlans, RemotePipeline, AnnualLadder, TariffBook, TLC

CONSTANTS key1, key2

VARIABLE part
readingVars == <<part, planVars, remoteVars, ladderVars, tariffVars>>

MCBudgets == {[plans |-> 1, moves |-> 2, rows |-> 2],
              [plans |-> 2, moves |-> 0, rows |-> 1]}
MCMessages == {[key |-> key1, body |-> 1, at |-> 0], [key |-> key2, body |-> 1, at |-> 1],
               [key |-> key2, body |-> 2, at |-> 1]}

(* Prices whose percentage is no whole number of cents.                    *)
MCLadder == <<[to |-> 1, price |-> 21], [to |-> 2, price |-> 43], [to |-> Unbounded, price |-> 85]>>

(* One PER_QTY item with corrections under either policy, with and without *)
(* a larger household; two such items without a replacement, and with one. *)
Habit(items, wider, policy, replaces, recs) ==
    [items |-> items, shift |-> wider, policy |-> policy,
     replaces |-> replaces, recons |-> recs]
MCHabits == {Habit(1, 0, "PROPORTIONAL_TO_SETTLED", 0, 2),
             Habit(1, 1, "ALL_TO_CURRENT", 1, 1),
             Habit(2, 0, "PROPORTIONAL_TO_SETTLED", 0, 1)}
MCReplacing == {Habit(2, 0, "PROPORTIONAL_TO_SETTLED", 1, 0)}

(* The versions of the tariff are named as the books are, their editors as *)
(* the readers: one permutation serves both.                               *)
MCSymmetry == Permutations(Books) \cup Permutations(Homes) \cup Permutations(Readers)

AtRest ==
    /\ part # "plans" => /\ budget = CHOOSE x \in Budgets : TRUE
                         /\ \A b \in Books : member[b] = {}
    /\ part # "ladder" => habit = CHOOSE x \in Habits : TRUE

ReadingInit ==
    /\ part \in {"plans", "remote", "ladder", "tariff"}
    /\ PlanInit /\ RemoteInit /\ LadderInit /\ TariffInit
    /\ AtRest

ReadingNext ==
    \/ part = "plans" /\ PlanNext /\ UNCHANGED <<part, remoteVars, ladderVars, tariffVars>>
    \/ part = "remote" /\ RemoteNext /\ UNCHANGED <<part, planVars, ladderVars, tariffVars>>
    \/ part = "ladder" /\ LadderNext /\ UNCHANGED <<part, planVars, remoteVars, tariffVars>>
    \/ part = "tariff" /\ TariffNext /\ UNCHANGED <<part, planVars, remoteVars, ladderVars>>

ReadingSpec == ReadingInit /\ [][ReadingNext]_readingVars

(* State constraint: beyond the first bill or correction that came out of  *)
(* the order of the periods nothing more is explored (see AnnualLadder).   *)
Calm == calm

(* The type invariants of the four parts.                                  *)
ReadingTypes == PlanTypeOK /\ RemoteTypeOK /\ LadderTypeOK /\ TariffTypeOK
=============================================================================
