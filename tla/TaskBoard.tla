----------------------------- MODULE TaskBoard -----------------------------
(***************************************************************************)
(* What the execution of plans promises, without schedulers, permits or    *)
(* subagents: a board of tasks.  A task is started only when everything it *)
(* depends on is accepted, and may be rejected and tried again; a verdict  *)
(* of acceptance or failure is final, a task is given up only when its     *)
(* retry budget is used up, and a started task gets a verdict.             *)
(* PlanExecution is shown to implement this specification.                 *)
(***************************************************************************)
EXTENDS Naturals

CONSTANTS
  Task,
  Needs,      \* Task -> SUBSET Task: what a task depends on
  MinBudget,  \* rejections a task survives at least
  MaxBudget   \* rejections a task survives at most

VARIABLES
  status,  \* Task -> Status
  tries    \* Task -> Nat: rejections so far

vars == <<status, tries>>

Status == {"waiting", "running", "accepted", "failed"}

Init ==
  /\ status = [t \in Task |-> "waiting"]
  /\ tries = [t \in Task |-> 0]

(* A batch of waiting tasks starts.                                        *)
Start(batch) ==
  /\ batch # {}
  /\ \A t \in batch : /\ status[t] = "waiting"
                      /\ \A d \in Needs[t] : status[d] = "accepted"
  /\ status' = [t \in Task |-> IF t \in batch THEN "running" ELSE status[t]]
  /\ UNCHANGED tries

Accept(t) ==
  /\ status[t] = "running"
  /\ status' = [status EXCEPT ![t] = "accepted"]
  /\ UNCHANGED tries

Retry(t) ==
  /\ status[t] = "running"
  /\ tries[t] < MaxBudget
  /\ status' = [status EXCEPT ![t] = "waiting"]
  /\ tries' = [tries EXCEPT ![t] = @ + 1]

GiveUp(t) ==
  /\ status[t] = "running"
  /\ tries[t] >= MinBudget
  /\ status' = [status EXCEPT ![t] = "failed"]
  /\ UNCHANGED tries

Verdict(t) == Accept(t) \/ Retry(t) \/ GiveUp(t)

Next ==
  \/ \E batch \in SUBSET Task : Start(batch)
  \/ \E t \in Task : Verdict(t)

SafeSpec == Init /\ [][Next]_vars
Spec == SafeSpec /\ \A t \in Task : WF_vars(Verdict(t))
=============================================================================
