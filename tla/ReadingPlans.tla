---------------------------- MODULE ReadingPlans ----------------------------
(***************************************************************************)
(* Reading books, their members and the reading plans of one period        *)
(* (ReadingBookService, ReadingPlanService, and the entry path of          *)
(* MeterReadingService).                                                   *)
(*                                                                         *)
(* The database runs at READ COMMITTED: a request reads committed rows     *)
(* statement by statement, keeps what it read, and writes under the row    *)
(* locks it took by then.  job[r] is the transaction of request r: the     *)
(* stage it reached, what it read, and hence the locks it holds.  A plan   *)
(* is named by its book and a number within the book.                      *)
(***************************************************************************)
EXTENDS Integers, FiniteSets, FiniteSetsExt

CONSTANTS Books,
          SysBook,       \* the book SYS-SUP of accounts that are in no book
          NoBook,
          Homes,         \* the accounts, on no remote zone and due this period
          Readers,       \* the requests that may be under way at a time
          PlansPerBook,  \* bound: plans ever made for a book
          Budgets        \* bounds: how many plans a behaviour makes, how many
                         \* changes of the membership, and how many reading
                         \* rows of one plan item

ASSUME PlansAssumption ==
    /\ SysBook \notin Books /\ NoBook \notin Books \cup {SysBook}
    /\ PlansPerBook \in Nat \ {0}
    /\ Budgets \subseteq [plans : Nat, moves : Nat, rows : Nat]

VARIABLES member,   \* member[b]: the accounts with a book_meter row in b
          moves,    \* how often the membership changed
          budget,   \* the bounds of this behaviour
          deleted,  \* the books that were deleted
          plan,     \* plan[p]: status, kind, and which operation made it
          item,     \* item[p][a]: the status of the item of a in plan p
          rows,     \* rows[p][a]: reading rows that name that item
          drained,  \* the plans that a redistribution took items from
          job
planVars == <<member, moves, budget, deleted, plan, item, rows, drained, job>>

PlanIds == (Books \cup {SysBook}) \X (1 .. PlansPerBook)
Live == {"OPEN", "IN_PROGRESS"}
PlanStatuses == Live \cup {"NONE", "DONE", "CLOSED"}
ItemStatuses == {"NONE", "PENDING", "READ", "NO_READ"}
Enterable == {"PENDING", "NO_READ"}

NoPlan == [status |-> "NONE", kind |-> "REGULAR", by |-> "nobody"]
NoItems == [a \in Homes |-> "NONE"]
Free == [at |-> "free"]

Existing(b) == {p \in PlanIds : p[1] = b /\ plan[p].status # "NONE"}
NotClosed(b) == {p \in Existing(b) : plan[p].status # "CLOSED"}
LiveOf(b) == {p \in Existing(b) : plan[p].status \in Live}
Made == {p \in PlanIds : plan[p].status # "NONE"}
HasRoom(b) == Cardinality(Existing(b)) < PlansPerBook /\ Cardinality(Made) < budget.plans
NextId(b) == <<b, Cardinality(Existing(b)) + 1>>
With(p, s) == {a \in Homes : item[p][a] = s}

(* The rows a transaction has locked, by the stage it is in.               *)
HoldsBook(r, b) == job[r].at \in {"joining", "joined", "generate"} /\ b \in job[r].books
HoldsHome(r, a) == job[r].at = "joined" /\ job[r].home = a
HoldsItem(r, p, a) ==
    job[r].at \in {"flipped", "counted"} /\ job[r].plan = p /\ a \in job[r].homes
HoldsPlan(r, p) == job[r].at = "counted" /\ job[r].plan = p

BookFree(r, b) == \A q \in Readers \ {r} : ~ HoldsBook(q, b)
HomeFree(r, a) == \A q \in Readers \ {r} : ~ HoldsHome(q, a)
ItemFree(r, p, a) == \A q \in Readers \ {r} : ~ HoldsItem(q, p, a)
PlanFree(r, p) == \A q \in Readers \ {r} : ~ HoldsPlan(q, p)

PlanInit ==
    /\ \E c \in Books \cup {NoBook} :
          member = [b \in Books |-> IF b = c THEN Homes ELSE {}]
    /\ moves = 0 /\ budget \in Budgets
    /\ deleted = {}
    /\ plan = [p \in PlanIds |-> NoPlan]
    /\ item = [p \in PlanIds |-> NoItems]
    /\ rows = [p \in PlanIds |-> [a \in Homes |-> 0]]
    /\ drained = {}
    /\ job = [r \in Readers |-> Free]

Advance(r, stage) == job' = [job EXCEPT ![r] = stage]
Finish(r) == Advance(r, Free)
UnchangedPlans == UNCHANGED <<plan, item, rows, drained>>
UnchangedBooks == UNCHANGED <<member, moves, budget, deleted>>
Moves == moves < budget.moves /\ moves' = moves + 1

(* A refused request, an exception or a crash rolls the transaction back.  *)
Abort(r) ==
    /\ job[r] # Free
    /\ Finish(r)
    /\ UnchangedPlans /\ UnchangedBooks
-----------------------------------------------------------------------------
(* Membership.  addMemberTx and transferMemberTx lock the book they write  *)
(* to; a transfer then reads where the account is now.                     *)
StartJoin(r, b, a) ==
    /\ job[r] = Free
    /\ b \notin deleted
    /\ BookFree(r, b)
    /\ \E from \in {NoBook} \cup {c \in Books \ {b} : a \in member[c]} :
          Advance(r, [at |-> "joining", books |-> {b}, to |-> b, home |-> a,
                      from |-> from])
    /\ UnchangedPlans /\ UnchangedBooks

(* addMemberTx locks the account and only then looks for another           *)
(* membership (the faulty variant looks without the lock).  A transfer has *)
(* deleted the membership it read by now.                                  *)
JoinUnlocked(r) ==
    /\ job[r].at = "joining"
    /\ \A b \in Books \ {job[r].from} : job[r].home \notin member[b]
    /\ Advance(r, [job[r] EXCEPT !.at = "joined"])
    /\ UnchangedPlans /\ UnchangedBooks
CheckJoin(r) ==
    /\ job[r].at = "joining"
    /\ HomeFree(r, job[r].home)
    /\ \A b \in Books \ {job[r].from} : job[r].home \notin member[b]
    /\ Advance(r, [job[r] EXCEPT !.at = "joined"])
    /\ UnchangedPlans /\ UnchangedBooks

CommitJoin(r) ==
    /\ job[r].at = "joined"
    /\ Moves
    /\ member' = [b \in Books |->
                    IF b = job[r].to THEN member[b] \cup {job[r].home}
                    ELSE IF b = job[r].from THEN member[b] \ {job[r].home}
                    ELSE member[b]]
    /\ Finish(r)
    /\ UnchangedPlans /\ UNCHANGED <<budget, deleted>>

RemoveMember(b, a) ==
    /\ a \in member[b]
    /\ Moves
    /\ \A r \in Readers : ~ (HoldsHome(r, a) /\ job[r].from = b)
    /\ member' = [member EXCEPT ![b] = @ \ {a}]
    /\ UnchangedPlans /\ UNCHANGED <<budget, deleted, job>>

(* deleteTx takes the lock that generateTx takes, counts the plans of the   *)
(* book and deletes it with its members.                                   *)
DeleteBook(b) ==
    /\ b \notin deleted
    /\ \A r \in Readers : ~ HoldsBook(r, b)
    /\ Existing(b) = {}
    /\ deleted' = deleted \cup {b}
    /\ member' = [member EXCEPT ![b] = {}]
    /\ UnchangedPlans /\ UNCHANGED <<moves, budget, job>>
-----------------------------------------------------------------------------
(* Generation.  generateTx locks the book, refuses it when a plan that is  *)
(* not CLOSED exists, and takes its members (none: EMPTY_BOOK).            *)
CanGenerateUnlocked(r, b) ==     \* faulty variant: no lock on the book
    /\ b \notin deleted
    /\ NotClosed(b) = {}
    /\ member[b] # {}
    /\ HasRoom(b)
CanGenerate(r, b) ==
    /\ b \notin deleted
    /\ BookFree(r, b)
    /\ NotClosed(b) = {}
    /\ member[b] # {}
    /\ HasRoom(b)

(* The first book of a request, or, of autoGenerateForDate, the next one:  *)
(* it skips a book that has a plan and generates the others in one         *)
(* transaction that keeps every book lock.                                 *)
Generate(r, b) ==
    /\ job[r] = Free \/ (job[r].at = "generate" /\ b \notin job[r].books)
    /\ CanGenerate(r, b)
    /\ LET draft == [book |-> b, homes |-> member[b]]
       IN  IF job[r] = Free
           THEN Advance(r, [at |-> "generate", books |-> {b}, drafts |-> {draft}])
           ELSE Advance(r, [job[r] EXCEPT !.books = @ \cup {b},
                                          !.drafts = @ \cup {draft}])
    /\ UnchangedPlans /\ UnchangedBooks

CommitGenerate(r) ==
    /\ job[r].at = "generate"
    /\ \A b \in job[r].books : HasRoom(b)
    /\ Cardinality(Made) + Cardinality(job[r].books) <= budget.plans
    /\ LET made == [p \in {NextId(b) : b \in job[r].books} |->
                      (CHOOSE d \in job[r].drafts : d.book = p[1]).homes]
       IN  /\ plan' = [p \in PlanIds |->
                         IF p \in DOMAIN made
                         THEN [status |-> "OPEN", kind |-> "REGULAR", by |-> "generate"]
                         ELSE plan[p]]
           /\ item' = [p \in PlanIds |->
                         IF p \in DOMAIN made
                         THEN [a \in Homes |->
                                 IF a \in made[p] THEN "PENDING" ELSE "NONE"]
                         ELSE item[p]]
    /\ Finish(r)
    /\ UNCHANGED <<rows, drained>> /\ UnchangedBooks
-----------------------------------------------------------------------------
(* supplementTx: the account's own book, or the system book; a supplement  *)
(* plan of the account that is not CLOSED is handed out again.  No lock.   *)
OwnBooks(a) == {b \in Books : a \in member[b]}
SupplementsOf(a) ==
    {p \in PlanIds : plan[p].kind = "SUPPLEMENT" /\ item[p][a] # "NONE"
                       /\ plan[p].status \notin {"NONE", "CLOSED"}}

StartSupplement(r, a) ==
    /\ job[r] = Free
    /\ SupplementsOf(a) = {}
    /\ \E b \in IF OwnBooks(a) = {} THEN {SysBook} ELSE OwnBooks(a) :
          Advance(r, [at |-> "supplement", book |-> b, home |-> a])
    /\ UnchangedPlans /\ UnchangedBooks

CommitSupplement(r) ==
    /\ job[r].at = "supplement"
    /\ HasRoom(job[r].book)
    /\ LET p == NextId(job[r].book)
       IN  /\ plan' = [plan EXCEPT ![p] = [status |-> "OPEN", kind |-> "SUPPLEMENT",
                                           by |-> "supplement"]]
           /\ item' = [item EXCEPT ![p][job[r].home] = "PENDING"]
    /\ Finish(r)
    /\ UNCHANGED <<rows, drained>> /\ UnchangedBooks
-----------------------------------------------------------------------------
(* redistributeTx reads a live plan of the source book, its PENDING items  *)
(* and a live plan of the target book, if there is one.                    *)
Absent == <<>>
StartRedistribute(r, src, tgt) ==
    /\ job[r] = Free
    /\ src # tgt /\ {src, tgt} \cap deleted = {}
    /\ \E p \in LiveOf(src), q \in IF LiveOf(tgt) = {} THEN {Absent} ELSE LiveOf(tgt) :
          /\ With(p, "PENDING") # {}
          /\ Advance(r, [at |-> "move", plan |-> p, homes |-> With(p, "PENDING"),
                         book |-> tgt, onto |-> q])
    /\ UnchangedPlans /\ UnchangedBooks

(* It deletes those items by their ids, which the foreign key refuses once *)
(* a reading names one, and adds to the target the accounts that it has    *)
(* not.  The insert waits for a writer that holds the target plan.         *)
MoveUnchecked(r) == TRUE     \* faulty variant of Movable: the item just goes
Movable(r) == \A a \in job[r].homes : item[job[r].plan][a] = "PENDING"

CommitRedistribute(r) ==
    /\ job[r].at = "move"
    /\ Movable(r)
    /\ \A a \in job[r].homes : ItemFree(r, job[r].plan, a)
    /\ job[r].onto = Absent => HasRoom(job[r].book)
    /\ LET p == job[r].plan
           q == IF job[r].onto = Absent THEN NextId(job[r].book) ELSE job[r].onto
       IN  /\ PlanFree(r, q)
           /\ plan' = IF job[r].onto = Absent
                      THEN [plan EXCEPT ![q] = [status |-> "OPEN", kind |-> "REGULAR",
                                                by |-> "redistribute"]]
                      ELSE plan
           /\ item' = [item EXCEPT
                ![p] = [a \in Homes |-> IF a \in job[r].homes THEN "NONE" ELSE @[a]],
                ![q] = [a \in Homes |-> IF a \in job[r].homes /\ @[a] = "NONE"
                                        THEN "PENDING" ELSE @[a]]]
           /\ drained' = drained \cup {p}
    /\ Finish(r)
    /\ UNCHANGED rows /\ UnchangedBooks
-----------------------------------------------------------------------------
(* Entry of a batch of readings of one plan (createBatchTx, importTx): the *)
(* checks read the plan and the items without a lock.                      *)
StartEntry(r, p, homes) ==
    /\ job[r] = Free
    /\ plan[p].status \in Live
    /\ \A a \in homes : item[p][a] \in Enterable /\ rows[p][a] < budget.rows
    /\ \E result \in {"READ", "NO_READ"} :
          Advance(r, [at |-> "entry", plan |-> p, homes |-> homes, result |-> result])
    /\ UnchangedPlans /\ UnchangedBooks

(* writeReadings: the guarded flip locks the items and checks them again   *)
(* (the faulty variant trusts the check before the lock).                  *)
FlipUnguarded(r) == TRUE
StillEnterable(r) ==
    \A a \in job[r].homes : /\ item[job[r].plan][a] \in Enterable
                            /\ rows[job[r].plan][a] < budget.rows
Flip(r) ==
    /\ job[r].at = "entry"
    /\ \A a \in job[r].homes : ItemFree(r, job[r].plan, a)
    /\ StillEnterable(r)
    /\ Advance(r, [job[r] EXCEPT !.at = "flipped"])
    /\ UnchangedPlans /\ UnchangedBooks

(* advancePlans locks the plan (the faulty variant does not) and counts    *)
(* the items that are PENDING in what is committed and in its own writes.  *)
LastOf(r) == With(job[r].plan, "PENDING") \subseteq job[r].homes
CountUnlocked(r) ==
    /\ job[r].at = "flipped"
    /\ Advance(r, [at |-> "counted", plan |-> job[r].plan, homes |-> job[r].homes,
                   result |-> job[r].result, last |-> LastOf(r)])
    /\ UnchangedPlans /\ UnchangedBooks
CountPending(r) ==
    /\ job[r].at = "flipped"
    /\ PlanFree(r, job[r].plan)
    /\ Advance(r, [at |-> "counted", plan |-> job[r].plan, homes |-> job[r].homes,
                   result |-> job[r].result, last |-> LastOf(r)])
    /\ UnchangedPlans /\ UnchangedBooks

StatusAfter(s, last) == IF s \notin Live THEN s
                        ELSE IF last THEN "DONE" ELSE "IN_PROGRESS"

CommitEntry(r) ==
    /\ job[r].at = "counted"
    /\ LET p == job[r].plan
       IN  /\ plan' = [plan EXCEPT ![p].status = StatusAfter(@, job[r].last)]
           /\ item' = [item EXCEPT ![p] = [a \in Homes |->
                          IF a \in job[r].homes THEN job[r].result ELSE @[a]]]
           /\ rows' = [rows EXCEPT ![p] = [a \in Homes |->
                          IF a \in job[r].homes THEN @[a] + 1 ELSE @[a]]]
    /\ Finish(r)
    /\ UNCHANGED drained /\ UnchangedBooks

(* supersedeTx: a further row for an item that was READ, which it keeps.   *)
Supersede(p, a) ==
    /\ item[p][a] = "READ" /\ rows[p][a] < budget.rows
    /\ \A r \in Readers : ~ HoldsItem(r, p, a)
    /\ rows' = [rows EXCEPT ![p][a] = @ + 1]
    /\ UNCHANGED <<plan, item, drained, job>> /\ UnchangedBooks

(* startTx and cancelTx: guarded updates of the plan row.                  *)
StartPlan(p) ==
    /\ plan[p].status = "OPEN"
    /\ \A r \in Readers : ~ HoldsPlan(r, p)
    /\ plan' = [plan EXCEPT ![p].status = "IN_PROGRESS"]
    /\ UNCHANGED <<item, rows, drained, job>> /\ UnchangedBooks

CancelPlan(p) ==
    /\ plan[p].status \in Live
    /\ \A r \in Readers : ~ HoldsPlan(r, p)
    /\ plan' = [plan EXCEPT ![p].status = "CLOSED"]
    /\ UNCHANGED <<item, rows, drained, job>> /\ UnchangedBooks
-----------------------------------------------------------------------------
PlanNext ==
    \/ \E r \in Readers, b \in Books, a \in Homes : StartJoin(r, b, a)
    \/ \E r \in Readers : CheckJoin(r) \/ CommitJoin(r)
    \/ \E b \in Books, a \in Homes : RemoveMember(b, a)
    \/ \E b \in Books : DeleteBook(b)
    \/ \E r \in Readers, b \in Books : Generate(r, b)
    \/ \E r \in Readers : CommitGenerate(r)
    \/ \E r \in Readers, a \in Homes : StartSupplement(r, a)
    \/ \E r \in Readers : CommitSupplement(r)
    \/ \E r \in Readers, b, c \in Books : StartRedistribute(r, b, c)
    \/ \E r \in Readers : CommitRedistribute(r)
    \/ \E r \in Readers, p \in PlanIds, h \in (SUBSET Homes) \ {{}} : StartEntry(r, p, h)
    \/ \E r \in Readers : Flip(r) \/ CountPending(r) \/ CommitEntry(r)
    \/ \E p \in PlanIds, a \in Homes : Supersede(p, a)
    \/ \E p \in PlanIds : StartPlan(p) \/ CancelPlan(p)
    \/ \E r \in Readers : Abort(r)

PlanSpec == PlanInit /\ [][PlanNext]_planVars
-----------------------------------------------------------------------------
(* Type invariant of the committed rows.                                   *)
PlanTypeOK ==
    /\ member \in [Books -> SUBSET Homes]
    /\ moves \in 0 .. budget.moves
    /\ deleted \subseteq Books
    /\ plan \in [PlanIds -> [status : PlanStatuses, kind : {"REGULAR", "SUPPLEMENT"},
                             by : {"nobody", "generate", "supplement", "redistribute"}]]
    /\ item \in [PlanIds -> [Homes -> ItemStatuses]]
    /\ rows \in [PlanIds -> [Homes -> 0 .. budget.rows]]
    /\ drained \subseteq PlanIds

(* "One account has at most ONE current membership": the code relies on    *)
(* the lock on the account, there is no unique index.                      *)
AccountInOneBook == \A a \in Homes : Cardinality(OwnBooks(a)) <= 1

(* Generations that run at a time, by hand and at night, leave at most one *)
(* plan of a book, and never one for a book that is deleted meanwhile.     *)
GeneratedOf(b) == {p \in NotClosed(b) : plan[p].by = "generate"}
OneGeneratedPlan ==
    \A b \in Books : /\ Cardinality(GeneratedOf(b)) <= 1
                     /\ GeneratedOf(b) # {} => b \notin deleted

(* Two entries that each complete one of the last two items do not both    *)
(* leave the plan to the other: with nothing PENDING the plan is finished, *)
(* unless a redistribution emptied it.                                     *)
CompletedPlanIsFinished ==
    \A p \in PlanIds \ drained :
        plan[p].status \in Live => With(p, "PENDING") # {}

(* A redistribution never takes away an item that has been read.           *)
ReadingKeepsItsItem ==
    \A p \in PlanIds, a \in Homes :
        rows[p][a] > 0 <=> item[p][a] \in {"READ", "NO_READ"}
=============================================================================
