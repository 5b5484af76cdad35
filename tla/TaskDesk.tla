------------------------------ MODULE TaskDesk ------------------------------
(***************************************************************************)
(* TaskService: the task a business step opens for the staff, and how it   *)
(* is claimed, assigned, completed and cancelled.  A job is a pair of a    *)
(* task type and a business object; in the flows modelled here each job    *)
(* gets one row of the table task in its life.                             *)
(***************************************************************************)
EXTENDS Integers, FiniteSets, FiniteSetsExt

CONSTANTS Jobs,    \* the (type, bizType, bizId) of the instance
          Staff    \* those who may be given the tasks

VARIABLES task,     \* task[j]: its status and its assignee
          aimed,    \* the jobs whose row a reassignment has read as open
          revived   \* the jobs a late reassignment opened again (history)
taskVars == <<task, aimed, revived>>

Nobody == "nobody"
OpenStatuses == {"PENDING", "CLAIMED", "ASSIGNED"}
NoTask == [status |-> "NONE", who |-> Nobody]

(* NULL, the assignee of a task nobody has, is the id of no one.           *)
ASSUME StaffAssumption == Nobody \notin Staff

TaskInit == /\ task = [j \in Jobs |-> NoTask]
            /\ aimed = {} /\ revived = {}

IsOpen(j) == task[j].status \in OpenStatuses

(* What the business steps do to tasks: operators on the value of task, to  *)
(* be combined in one step.                                                 *)
Created(t, j, who) ==
    IF t[j].status \in OpenStatuses THEN t    \* ON CONFLICT DO NOTHING
    ELSE [t EXCEPT ![j] = [status |-> IF who = Nobody THEN "PENDING" ELSE "ASSIGNED",
                           who |-> who]]
Closed(t, js, status) ==
    [j \in Jobs |-> IF j \in js /\ t[j].status \in OpenStatuses
                    THEN [t[j] EXCEPT !.status = status] ELSE t[j]]
AutoCompleted(t, js) == Closed(t, js, "DONE")

SetTasks(t) == task' = t /\ UNCHANGED <<aimed, revived>>
-----------------------------------------------------------------------------
Claim(j, s) ==
    /\ task[j].status = "PENDING" /\ task[j].who = Nobody
    /\ SetTasks([task EXCEPT ![j] = [status |-> "CLAIMED", who |-> s]])

(* assign reads the status, looks for the candidates, and then writes       *)
(* without looking at the status again.                                     *)
Aim(j) ==
    /\ IsOpen(j) /\ j \notin aimed
    /\ aimed' = aimed \cup {j}
    /\ UNCHANGED <<task, revived>>
Assign(j, s) ==
    /\ j \in aimed
    /\ task' = [task EXCEPT ![j] = [status |-> "ASSIGNED", who |-> s]]
    /\ aimed' = aimed \ {j}
    /\ revived' = IF IsOpen(j) THEN revived ELSE revived \cup {j}

(* complete; that the business is done is for the caller to ask.            *)
Complete(j, s) ==
    /\ task[j].status \in {"CLAIMED", "ASSIGNED"} /\ task[j].who = s
    /\ SetTasks(Closed(task, {j}, "DONE"))

Cancel(j) == IsOpen(j) /\ SetTasks(Closed(task, {j}, "CANCELLED"))

DeskStep(j) == \/ \E s \in Staff : Claim(j, s) \/ Assign(j, s)
               \/ Aim(j) \/ Cancel(j)
=============================================================================
