------------------------------- MODULE MCField -------------------------------
(* The instances of ServiceOrders.  part says what a behaviour is about:    *)
(* "places" the stock and the installations of two accounts, "apply" an     *)
(* application up to its account, "orders" two orders on one account,       *)
(* "desk" the tasks of one order and one violation under reassignment.      *)
EXTENDS ServiceOrders, TLC

CONSTANTS home1, home2, dial1, dial2, order1, order2, offence1

VARIABLE part
mcVars == <<part, fieldVars>>

MCStarts ==
    LET Free == [status |-> "AVAILABLE", stocked |-> TRUE]
        Up == [status |-> "INSTALLED", stocked |-> FALSE]
        NoMeter == [status |-> "NONE", stocked |-> FALSE]
        Rows == [i \in Ids |-> NoInst]
    IN  {[acct |-> (home1 :> "NORMAL" @@ home2 :> "NONE"), meter |-> (dial1 :> Up @@ dial2 :> Free),
          inst |-> [Rows EXCEPT ![1] = [acct |-> home1, meter |-> dial1, live |-> TRUE]],
          apply |-> NoApply],
         [acct |-> (home1 :> "NONE" @@ home2 :> "NONE"), meter |-> (dial1 :> Free @@ dial2 :> NoMeter),
          inst |-> Rows, apply |-> [NoApply EXCEPT !.status = "SUBMITTED"]]}
MCJobs == {Review, Activation(home1), Activation(home2), Handling(offence1),
           Approval(order1), Execution(order1), Approval(order2), Execution(order2)}
MCKinds == {"FAULT", "CHECK", "CLOSE", "SUSPEND", "RESUME", "SITE"}

PartInit == /\ part \in {"places", "apply", "orders", "desk"}
            /\ FieldInit
            /\ (part = "apply") = (apply # NoApply)
Busy(kinds) == \A w \in Workers : work'[w].do \in kinds \cup {"rest"}
PartStep ==
    CASE part = "places" -> UNCHANGED <<orderVars, taskVars>>
      [] part = "apply" -> /\ UNCHANGED <<orderVars, handled, aimed>> /\ acct'[home2] = "NONE"
                           /\ inst'[3] = NoInst /\ acct'[home1] # "SUSPENDED"
                           /\ task'[Review].status # "CLAIMED"
                           /\ Busy({"install", "stage", "allocate", "return", "activate", "info"})
      [] part = "orders" -> /\ UNCHANGED <<offence, handled, aimed>> /\ acct'[home2] = "NONE"
                            /\ order' # order \/ (task' = task /\ UNCHANGED meter)
                                               \/ acct' # acct
                            /\ order'[order1].kind # "SITE"
                            /\ order'[order2].kind \in {"none", "CHECK", "CLOSE"}
                            /\ Busy({"execute", "scan"})
      [] part = "desk" -> /\ UNCHANGED <<acct, meter, inst, handled>> /\ order'[order2] = NoOrder
                          /\ order'[order1].kind \in {"none", "SITE"}
                          /\ Busy({"execute", "verdict"}) /\ Cardinality(aimed') <= 1
PartSpec == PartInit /\ [][FieldNext /\ PartStep /\ UNCHANGED part]_mcVars
Symmetry == Permutations(Staff) \cup Permutations(Workers)
=============================================================================
