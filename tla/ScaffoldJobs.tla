----------------------------- MODULE ScaffoldJobs -----------------------------
(***************************************************************************)
(* Scaffold jobs over the tenants' connections: a client queues a job, a   *)
(* background task of the process runs it, with the connection read and    *)
(* decrypted inside the task.  Deleting a connection deletes its jobs,     *)
(* whose tasks run on; a process that stops takes its tasks with it.       *)
(***************************************************************************)
EXTENDS TenantConnections

CONSTANTS
  Jobs,       \* job uuids, each used once
  MaxCrashes  \* bound: how often the process stops

JobStatuses == {"pending", "running", "completed", "failed"}
Job == [tenant : Tenants, conn : Ids, status : JobStatuses, progress : {0, 1, 50, 100}]

ASSUME ScaffoldAssumption == MaxCrashes \in Nat /\ None \notin Jobs \union Job

VARIABLES
  jobs,     \* tenant_scaffold_jobs: the row of each id, None for no row
  queued,   \* the job uuids given out
  tasks,    \* where the task of each job stands
  crashes

vars == <<connVars, jobs, queued, tasks, crashes>>

NoTask == [pc |-> "none", tenant |-> None, conn |-> None]
TaskPhases == {"none", "queued", "read", "scaffold", "failing", "ended", "lost"}

Init ==
  /\ ConnInit
  /\ jobs = [j \in Jobs |-> None]
  /\ queued = {}
  /\ tasks = [j \in Jobs |-> NoTask]
  /\ crashes = 0

(* --------------------------------- start -------------------------------- *)

(* start looks the connection up for the tenant, then inserts the job,     *)
(* whose foreign key must still exist, and reads it back.                  *)
StartCheck(c) ==
  /\ calls[c].pc = "idle"
  /\ \E tenant \in Tenants : \E id \in issued :
       Owned(tenant, id) /\ Goto(c, Call("start", tenant, id, None, None))
  /\ UNCHANGED <<conns, issued, tested, jobs, queued, tasks, crashes>>

StartInsert(c) ==
  LET call == calls[c] IN
  /\ call.pc = "start"
  /\ \/ /\ conns[call.id] = None
        /\ Return(c)
        /\ UNCHANGED <<jobs, queued>>
     \/ /\ conns[call.id] # None
        /\ \E j \in Jobs \ queued :
             /\ jobs' = [jobs EXCEPT ![j] = [tenant |-> call.tenant, conn |-> call.id,
                                             status |-> "pending", progress |-> 0]]
             /\ queued' = queued \union {j}
             /\ Goto(c, [call EXCEPT !.pc = "started", !.name = j])
  /\ UNCHANGED <<conns, issued, tested, tasks, crashes>>

(* The job is read back and returned, and its task handed to the           *)
(* background.  A job that is gone by now is an error and has no task; nor *)
(* has a job whose insert or read-back raises (CallRaises): its row stays  *)
(* pending.                                                                *)
StartGet(c) ==
  LET call == calls[c] IN
  /\ call.pc = "started"
  /\ \/ /\ jobs[call.name] # None
        /\ tasks' = [tasks EXCEPT ![call.name] =
             [pc |-> "queued", tenant |-> call.tenant, conn |-> call.id]]
     \/ /\ jobs[call.name] = None
        /\ UNCHANGED tasks
  /\ Return(c)
  /\ UNCHANGED <<conns, issued, tested, jobs, queued, crashes>>

(* ----------------------------------- run -------------------------------- *)

(* update_progress: no effect on a job that is gone.                       *)
UpdateProgress(j, status, progress) ==
  jobs' = IF jobs[j] = None THEN jobs
          ELSE [jobs EXCEPT ![j] = [tenant |-> jobs[j].tenant, conn |-> jobs[j].conn,
                                    status |-> status, progress |-> progress]]
At(j, pc) == tasks' = [tasks EXCEPT ![j] = [@ EXCEPT !.pc = pc]]
TaskOnly == UNCHANGED <<connVars, queued, crashes>>

RunStart(j) ==
  /\ tasks[j].pc = "queued"
  /\ UpdateProgress(j, "running", 1) /\ At(j, "read") /\ TaskOnly

(* The connection is read for the job's tenant and decrypted; without it   *)
(* the task fails.                                                         *)
RunRead(j) ==
  /\ tasks[j].pc = "read"
  /\ At(j, IF Owned(tasks[j].tenant, tasks[j].conn) THEN "scaffold" ELSE "failing")
  /\ UNCHANGED jobs /\ TaskOnly

(* The scaffolder reports its progress through the callback it was given.  *)
RunProgress(j) ==
  /\ tasks[j].pc = "scaffold"
  /\ UpdateProgress(j, "running", 50) /\ At(j, "scaffold") /\ TaskOnly

RunComplete(j) ==
  /\ tasks[j].pc = "scaffold"
  /\ UpdateProgress(j, "completed", 100) /\ At(j, "ended") /\ TaskOnly

(* What a statement that raises may have committed unseen.                 *)
CommittedUnseen(j) ==
  \/ tasks[j].pc = "queued" /\ UpdateProgress(j, "running", 1)
  \/ tasks[j].pc = "scaffold" /\ UpdateProgress(j, "running", 50)
  \/ tasks[j].pc = "scaffold" /\ UpdateProgress(j, "completed", 100)

RunRaises_Escapes(j) ==  \* variant: the exception leaves run
  /\ tasks[j].pc \in {"queued", "read", "scaffold"}
  /\ At(j, "ended") /\ UNCHANGED jobs /\ TaskOnly
(* A statement, the decryption or the scaffolder raises.                   *)
RunRaises(j) ==
  /\ tasks[j].pc \in {"queued", "read", "scaffold"}
  /\ UNCHANGED jobs \/ CommittedUnseen(j)
  /\ At(j, "failing") /\ TaskOnly

(* The failure is written to the job, also over a completed that was       *)
(* committed unseen.  Nothing catches an exception of this last statement: *)
(* the task is gone, and the job stays as it is.                           *)
RunFail(j) ==
  /\ tasks[j].pc = "failing"
  /\ \/ UpdateProgress(j, "failed", 0) /\ At(j, "ended")
     \/ UNCHANGED jobs /\ At(j, "lost")
  /\ TaskOnly

RunStep(j) ==
  RunStart(j) \/ RunRead(j) \/ RunProgress(j) \/ RunComplete(j) \/ RunRaises(j) \/ RunFail(j)

(* --------------------------- composition and crash ---------------------- *)

(* A connection's jobs go with it (ON DELETE CASCADE).                     *)
DeleteConnection(c) ==
  /\ Delete(c)
  /\ jobs' = [j \in Jobs |->
       IF jobs[j] # None /\ conns'[jobs[j].conn] = None THEN None ELSE jobs[j]]
  /\ UNCHANGED <<queued, tasks, crashes>>

ConnectionStep(c) == CallStep(c) /\ UNCHANGED <<jobs, queued, tasks, crashes>>

Crash ==
  /\ crashes < MaxCrashes /\ crashes' = crashes + 1
  /\ calls' = [c \in Clients |-> Idle]
  /\ tasks' = [j \in Jobs |-> NoTask]
  /\ UNCHANGED <<conns, issued, tested, jobs, queued>>

ClientStep(c) ==
  ConnectionStep(c) \/ DeleteConnection(c) \/ StartCheck(c) \/ StartInsert(c) \/ StartGet(c)

Next == \/ \E c \in Clients : ClientStep(c)
        \/ \E j \in Jobs : RunStep(j)
        \/ Crash

Spec == Init /\ [][Next]_vars

(* The event loop runs every task, a scaffolder ends, and what it reports  *)
(* on the way is bounded.                                                  *)
Fairness ==
  /\ \A c \in Clients : WF_vars(StartGet(c))
  /\ \A j \in Jobs : /\ WF_vars(RunStart(j)) /\ WF_vars(RunRead(j))
                     /\ WF_vars(RunComplete(j)) /\ WF_vars(RunFail(j))
FairSpec == Spec /\ Fairness
-----------------------------------------------------------------------------
(* Every variable has its type.                                            *)
TypeOK ==
  /\ ConnTypeOK
  /\ jobs \in [Jobs -> Job \union {None}]
  /\ \A j \in Jobs : jobs[j] # None => j \in queued
  /\ \A j \in Jobs : tasks[j].pc \in TaskPhases

(* What a task does and what its job says agree: no job has ended while    *)
(* its task is at work; one whose task is about to write a failure, or     *)
(* could not, does not say failed yet (it may say completed, committed     *)
(* unseen); and a task that could write how it ended has done so.  And a   *)
(* job is one of a connection that exists and belongs to the job's own     *)
(* tenant, whatever was deleted since it was asked for.                    *)
TasksAndJobsAgree ==
  \A j \in Jobs : jobs[j] # None =>
    /\ tasks[j].pc \in {"queued", "read", "scaffold"} =>
         jobs[j].status \in {"pending", "running"}
    /\ tasks[j].pc \in {"failing", "lost"} => jobs[j].status # "failed"
    /\ tasks[j].pc = "ended" => jobs[j].status \in {"completed", "failed"}
    /\ conns[jobs[j].conn] # None /\ conns[jobs[j].conn].tenant = jobs[j].tenant

Ended(j) == jobs[j] = None \/ jobs[j].status \in {"completed", "failed"}

(* "run() always writes a terminal state": a job that is handed to run     *)
(* ends, or is deleted with its connection.                                *)
JobsEnd == \A j \in Jobs : tasks[j].pc # "none" ~> Ended(j)
=============================================================================
