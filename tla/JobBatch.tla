------------------------------ MODULE JobBatch ------------------------------
(***************************************************************************)
(* What JobSchedulerBase::run() promises main(): a batch of task.total     *)
(* jobs is run, at most task.limit of them at a time; each job is          *)
(* collected once, after it has ended; an outcome a test job sent is       *)
(* counted once, and the state kept of the timing run is job 0's.  The     *)
(* call returns when all jobs are collected, or the process aborts because *)
(* of a job that ended without sending anything.  JobScheduler is the      *)
(* detailed specification; Campaign is made of two batches.                *)
(***************************************************************************)
EXTENDS Integers, FiniteSets, ExitStates

VARIABLES
  task,    \* the kind and the number of jobs, and -j
  phase,   \* "running", "returned" or "aborted"
  status,  \* of each job
  result,  \* what each job sent
  counts,  \* Statistics: the outcome counters
  kept     \* the job whose exit state was kept

vars == <<task, phase, status, result, counts, kept>>

Task == [kind : {"orig", "test"}, total : Nat, limit : Nat]
Ids == 0..(task.total - 1)
NoId == -1
Counted == FtStatus \ {"None"}
Messages == IF task.kind = "orig" THEN {"state"} ELSE Counted \ {"InjFailed"}
Zero == [s \in Counted |-> 0]

InitialStatus(t) == [j \in 0..(t.total - 1) |-> "todo"]
InitialResult(t) == [j \in 0..(t.total - 1) |-> "empty"]

Init ==
  /\ task \in Task
  /\ phase = "running"
  /\ status = InitialStatus(task)
  /\ result = InitialResult(task)
  /\ counts = Zero
  /\ kept = NoId

(* A call of run(), as a step of its caller. *)
Begin(t) ==
  /\ task' = t
  /\ phase' = "running"
  /\ status' = InitialStatus(t)
  /\ result' = InitialResult(t)
  /\ counts' = Zero
  /\ kept' = NoId

InFlight == {j \in Ids : status[j] \in {"active", "ended"}}

Start(j) ==
  /\ phase = "running"
  /\ j \in Ids /\ status[j] = "todo"
  /\ \A k \in Ids : k < j => status[k] # "todo"
  /\ Cardinality(InFlight) < task.limit
  /\ status' = [status EXCEPT ![j] = "active"]
  /\ UNCHANGED <<task, phase, result, counts, kept>>

(* A job ends, having sent m or nothing. *)
End(j, m) ==
  /\ j \in Ids /\ status[j] = "active"
  /\ m \in Messages \cup {"empty"}
  /\ status' = [status EXCEPT ![j] = "ended"]
  /\ result' = [result EXCEPT ![j] = m]
  /\ UNCHANGED <<task, phase, counts, kept>>

Counting(s) == [counts EXCEPT ![s] = @ + 1]

(* Nothing, or anything, may be counted for a job that sent nothing.       *)
Collect(j) ==
  /\ phase = "running"
  /\ j \in Ids /\ status[j] = "ended"
  /\ status' = [status EXCEPT ![j] = "collected"]
  /\ IF task.kind = "orig" THEN counts' = counts
     ELSE IF result[j] = "empty"
     THEN counts' = counts \/ \E s \in Counted : counts' = Counting(s)
     ELSE counts' = Counting(result[j])
  /\ kept' = IF task.kind = "orig" /\ j = 0 /\ result[j] # "empty" THEN j
             ELSE kept
  /\ UNCHANGED <<task, phase, result>>

Return ==
  /\ phase = "running"
  /\ \A j \in Ids : status[j] = "collected"
  /\ phase' = "returned"
  /\ UNCHANGED <<task, status, result, counts, kept>>

Abort ==
  /\ phase = "running"
  /\ \E j \in Ids : status[j] = "ended" /\ result[j] = "empty"
  /\ phase' = "aborted"
  /\ UNCHANGED <<task, status, result, counts, kept>>

Next ==
  \/ \E j \in Ids : Start(j) \/ Collect(j)
  \/ \E j \in Ids, m \in Messages \cup {"empty"} : End(j, m)
  \/ Return \/ Abort

Spec == Init /\ [][Next]_vars
=============================================================================
