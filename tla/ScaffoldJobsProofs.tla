-------------------------- MODULE ScaffoldJobsProofs --------------------------
(***************************************************************************)
(* For any clients, tenants, names, connections and jobs: a tenant's names *)
(* stay unique, statuses come from tests, rows change for their tenant, a  *)
(* job and its task agree, and a job's status moves as its task does.       *)
(***************************************************************************)
EXTENDS ScaffoldJobs, TLAPS

USE ConnectionAssumption, ScaffoldAssumption

(* What a call holds, by its phase, and what a task holds.                 *)
ConnCallType ==
  {Idle} \union [pc : {"insert"}, tenant : Tenants, id : {None}, name : Names, cred : {0}]
    \union [pc : {"update"}, tenant : Tenants, id : Ids, name : Names \union {None}, cred : {0, 1}]
    \union [pc : {"test"}, tenant : Tenants, id : Ids, name : {None}, cred : 0..MaxCred]
CallType ==
  ConnCallType
    \union [pc : {"start"}, tenant : Tenants, id : Ids, name : {None}, cred : {None}]
    \union [pc : {"started"}, tenant : Tenants, id : Ids, name : Jobs, cred : {None}]
TaskType ==
  {NoTask} \union [pc : TaskPhases \ {"none"}, tenant : Tenants, conn : Ids]

KnowsRow(call, ids) == call.pc \in {"update", "test", "start"} => call.id \in ids
TypeInv ==
  /\ TypeOK
  /\ calls \in [Clients -> CallType] /\ tasks \in [Jobs -> TaskType] /\ queued \subseteq Jobs
  /\ \A c \in Clients : KnowsRow(calls[c], issued)

LEMMA CallKinds ==
  ASSUME NEW q \in CallType
  PROVE  /\ q.pc = "insert" =>
              q \in [pc : {"insert"}, tenant : Tenants, id : {None}, name : Names, cred : {0}]
         /\ q.pc = "update" =>
              q \in [pc : {"update"}, tenant : Tenants, id : Ids, name : Names \union {None},
                     cred : {0, 1}]
         /\ q.pc = "test" =>
              q \in [pc : {"test"}, tenant : Tenants, id : Ids, name : {None}, cred : 0..MaxCred]
         /\ q.pc = "start" =>
              q \in [pc : {"start"}, tenant : Tenants, id : Ids, name : {None}, cred : {None}]
         /\ q.pc = "started" =>
              q \in [pc : {"started"}, tenant : Tenants, id : Ids, name : Jobs, cred : {None}]
BY DEF CallType, ConnCallType, Idle

LEMMA IdleCall == Idle \in ConnCallType /\ Idle \in CallType /\ Idle.pc = "idle"
BY DEF CallType, ConnCallType, Idle

(* Writing a row that keeps names apart keeps the table in its type.       *)
TableOK(rows, ids) ==
  /\ rows \in [Ids -> Row \union {None}]
  /\ ids \subseteq Ids
  /\ \A i \in Ids : rows[i] # None => i \in ids
  /\ \A i, j \in Ids : rows[i] # None /\ rows[j] # None =>
       (rows[i].tenant = rows[j].tenant /\ rows[i].name = rows[j].name => i = j)

LEMMA WriteRow ==
  ASSUME TypeInv, NEW i \in Ids, NEW row \in Row, NEW ids \in SUBSET Ids,
         issued \subseteq ids, i \in ids, Free(row.tenant, row.name, i),
         conns' = [conns EXCEPT ![i] = row], issued' = ids
  PROVE  TableOK(conns', issued')
<1>1. TableOK(conns, issued)
  BY DEF TypeInv, TypeOK, ConnTypeOK, TableOK
<1>2. /\ conns' \in [Ids -> Row \union {None}] /\ conns'[i] = row
      /\ \A j \in Ids \ {i} : conns'[j] = conns[j]
  BY <1>1 DEF TableOK
<1>3. \A j \in Ids \ {i} :
        conns[j] # None => ~(conns[j].tenant = row.tenant /\ conns[j].name = row.name)
  BY DEF Free, Named, Rows
<1>4. \A j \in Ids : conns'[j] # None => j \in ids
  BY <1>1, <1>2 DEF TableOK
<1>5. ASSUME NEW j \in Ids, NEW k \in Ids, conns'[j] # None, conns'[k] # None,
             conns'[j].tenant = conns'[k].tenant, conns'[j].name = conns'[k].name
      PROVE  j = k
  <2>1. CASE j = i \/ k = i
    BY <1>2, <1>3, <1>5, <2>1
  <2>2. CASE j # i /\ k # i
    BY <1>1, <1>2, <1>5, <2>2 DEF TableOK
  <2> QED BY <2>1, <2>2
<1> QED BY <1>2, <1>4, <1>5 DEF TableOK

-----------------------------------------------------------------------------
(* What a call does to the connections: rows stay with their tenants, and  *)
(* an id that was given out never names a new row.                         *)
RowsStay ==
  /\ issued \subseteq issued'
  /\ \A i \in Ids : conns[i] # None => conns'[i] # None /\ conns'[i].tenant = conns[i].tenant
  /\ \A i \in issued : conns[i] = None => conns'[i] = None
TestedTyped == tested' \in [Ids -> SUBSET {"ok", "error"}]
StatusStep ==
  /\ \A i \in Ids : tested[i] \subseteq tested'[i]
  /\ \A i \in Ids : conns'[i] # None =>
       \/ conns'[i].status \in tested'[i] \union {"untested"}
       \/ conns[i] # None /\ conns'[i].status = conns[i].status
CallMade(c) ==
  \E q \in ConnCallType : calls' = [calls EXCEPT ![c] = q] /\ KnowsRow(q, issued')

LEMMA CallReturns ==
  ASSUME NEW c \in Clients, Return(c)
  PROVE  CallMade(c)
<1>1. calls' = [calls EXCEPT ![c] = Idle]
  BY DEF Return, Goto
<1>2. KnowsRow(Idle, issued')
  BY DEF KnowsRow, Idle
<1> QED BY <1>1, <1>2, IdleCall DEF CallMade

LEMMA CheckFacts ==
  ASSUME TypeInv, NEW c \in Clients, CreateCheck(c) \/ UpdateCheck(c) \/ TestRead(c)
  PROVE  UNCHANGED <<conns, issued, tested>> /\ CallMade(c)
<1>1. UNCHANGED <<conns, issued, tested>>
  BY DEF CreateCheck, UpdateCheck, TestRead
<1>2. issued \subseteq Ids /\ conns \in [Ids -> Row \union {None}]
  BY DEF TypeInv, TypeOK, ConnTypeOK
<1>3. CASE CreateCheck(c)
  <2>1. PICK tenant \in Tenants, name \in Names : Goto(c, Call("insert", tenant, None, name, 0))
    BY <1>3 DEF CreateCheck
  <2> DEFINE q == Call("insert", tenant, None, name, 0)
  <2>2. q \in ConnCallType /\ KnowsRow(q, issued')
    BY DEF ConnCallType, Call, KnowsRow
  <2> HIDE DEF q
  <2>3. calls' = [calls EXCEPT ![c] = q]
    BY <2>1 DEF Goto, q
  <2> QED BY <1>1, <2>2, <2>3 DEF CallMade
<1>4. CASE UpdateCheck(c)
  <2>1. PICK tenant \in Tenants, id \in issued, name \in Names \union {None}, new \in {0, 1} :
          Goto(c, Call("update", tenant, id, name, new))
    BY <1>4 DEF UpdateCheck
  <2> DEFINE q == Call("update", tenant, id, name, new)
  <2>2. q \in ConnCallType /\ KnowsRow(q, issued')
    BY <1>1, <1>2 DEF ConnCallType, Call, KnowsRow
  <2> HIDE DEF q
  <2>3. calls' = [calls EXCEPT ![c] = q]
    BY <2>1 DEF Goto, q
  <2> QED BY <1>1, <2>2, <2>3 DEF CallMade
<1>5. CASE TestRead(c)
  <2>1. PICK tenant \in Tenants : \E id \in issued :
          Owned(tenant, id) /\ Goto(c, Call("test", tenant, id, None, conns[id].cred))
    BY <1>5 DEF TestRead
  <2>2. PICK id \in issued :
          Owned(tenant, id) /\ Goto(c, Call("test", tenant, id, None, conns[id].cred))
    BY <2>1
  <2>3. conns[id].cred \in 0..MaxCred
    BY <1>2, <2>2 DEF Owned, Rows, Row
  <2> DEFINE q == Call("test", tenant, id, None, conns[id].cred)
  <2>4. q \in ConnCallType /\ KnowsRow(q, issued')
    BY <1>1, <1>2, <2>3 DEF ConnCallType, Call, KnowsRow
  <2> HIDE DEF q
  <2>5. calls' = [calls EXCEPT ![c] = q]
    BY <2>2 DEF Goto, q
  <2> QED BY <1>1, <2>4, <2>5 DEF CallMade
<1> QED BY <1>3, <1>4, <1>5

(* Nothing happens to the table.                                           *)
LEMMA NothingWritten ==
  ASSUME TypeInv, UNCHANGED <<conns, issued>>
  PROVE  TableOK(conns', issued') /\ RowsStay
BY DEF TypeInv, TypeOK, ConnTypeOK, TableOK, RowsStay

LEMMA CreateFacts ==
  ASSUME TypeInv, NEW c \in Clients, CreateInsert(c)
  PROVE  TableOK(conns', issued') /\ RowsStay /\ StatusStep /\ TestedTyped
<1>1. tested' = tested /\ tested \in [Ids -> SUBSET {"ok", "error"}]
  BY DEF CreateInsert, TypeInv, TypeOK, ConnTypeOK
<1>2. CASE UNCHANGED <<conns, issued>>
  BY <1>1, <1>2, NothingWritten DEF StatusStep, TestedTyped
<1>3. CASE ~UNCHANGED <<conns, issued>>
  <2> DEFINE call == calls[c]
             row == [tenant |-> call.tenant, name |-> call.name, cred |-> 0, status |-> "untested"]
  <2>1. PICK id \in Ids \ issued :
          conns' = [conns EXCEPT ![id] = row] /\ issued' = issued \union {id}
    BY <1>3 DEF CreateInsert
  <2>2. call.tenant \in Tenants /\ call.name \in Names /\ Free(call.tenant, call.name, None)
    BY <1>3, CallKinds DEF CreateInsert, TypeInv
  <2>3. row \in Row /\ row.tenant = call.tenant /\ row.name = call.name /\ row.status = "untested"
    BY <2>2 DEF Row, Statuses
  <2> HIDE DEF row
  <2>4. Free(row.tenant, row.name, id)
    BY <2>2, <2>3 DEF Free, Named, Rows
  <2>5. /\ conns \in [Ids -> Row \union {None}] /\ issued \subseteq Ids
        /\ \A i \in Ids : conns[i] # None => i \in issued
    BY DEF TypeInv, TypeOK, ConnTypeOK
  <2>6. TableOK(conns', issued')
    <3> DEFINE ids == issued \union {id}
    <3>1. ids \in SUBSET Ids /\ issued \subseteq ids /\ id \in ids /\ id \in Ids
      BY <2>5
    <3> HIDE DEF ids
    <3>2. conns' = [conns EXCEPT ![id] = row] /\ issued' = ids
      BY <2>1 DEF ids
    <3> QED BY <2>3, <2>4, <3>1, <3>2, WriteRow
  <2>7. /\ conns[id] = None /\ conns'[id] = row
        /\ \A i \in Ids \ {id} : conns'[i] = conns[i]
    BY <2>1, <2>5
  <2>8. RowsStay
    BY <2>1, <2>5, <2>7 DEF RowsStay
  <2>9. StatusStep /\ TestedTyped
    BY <1>1, <2>3, <2>7 DEF StatusStep, TestedTyped
  <2> QED BY <2>6, <2>8, <2>9
<1> QED BY <1>2, <1>3

(* A write to a row that is there: its tenant stays.                       *)
LEMMA ChangeFacts ==
  ASSUME TypeInv, NEW i \in Ids, conns[i] # None, NEW row \in Row,
         row.tenant = conns[i].tenant, Free(row.tenant, row.name, i),
         conns' = [conns EXCEPT ![i] = row], issued' = issued
  PROVE  TableOK(conns', issued') /\ RowsStay
<1>1. /\ conns \in [Ids -> Row \union {None}] /\ issued \subseteq Ids
      /\ \A j \in Ids : conns[j] # None => j \in issued
  BY DEF TypeInv, TypeOK, ConnTypeOK
<1>2. TableOK(conns', issued')
  BY <1>1, WriteRow
<1>3. conns'[i] = row /\ \A j \in Ids \ {i} : conns'[j] = conns[j]
  BY <1>1
<1>4. row # None
  BY <1>1, <1>2, <1>3 DEF TableOK
<1> QED BY <1>1, <1>2, <1>3 DEF RowsStay

LEMMA UpdateFacts ==
  ASSUME TypeInv, NEW c \in Clients, UpdateWrite(c)
  PROVE  /\ TableOK(conns', issued') /\ RowsStay /\ StatusStep /\ TestedTyped
         /\ \A i \in Ids : conns[i] # None /\ conns'[i] # conns[i] =>
              i = calls[c].id /\ calls[c].tenant = conns[i].tenant /\ conns[i].cred <= conns'[i].cred
<1> DEFINE call == calls[c]
           id == call.id
           name == IF call.name = None THEN conns[id].name ELSE call.name
<1>1. tested' = tested /\ tested \in [Ids -> SUBSET {"ok", "error"}]
      /\ issued' = issued /\ conns \in [Ids -> Row \union {None}]
  BY DEF UpdateWrite, TypeInv, TypeOK, ConnTypeOK
<1>2. CASE UNCHANGED conns
  BY <1>1, <1>2, NothingWritten DEF StatusStep, TestedTyped
<1>3. CASE ~UNCHANGED conns
  <2> DEFINE old == conns[id]
             row == [tenant |-> old.tenant, name |-> name, cred |-> old.cred + call.cred,
                     status |-> old.status]
  <2>1. /\ Owned(call.tenant, id) /\ Free(call.tenant, name, id)
        /\ old.cred + call.cred <= MaxCred
    BY <1>3 DEF UpdateWrite
  <2>2. id \in Ids /\ call.name \in Names \union {None} /\ call.cred \in {0, 1}
    BY CallKinds DEF UpdateWrite, TypeInv
  <2>3. conns[id] \in Row /\ conns[id] # None /\ conns[id].tenant = call.tenant
    BY <1>1, <2>1, <2>2 DEF Owned, Rows
  <2>4. conns' = [conns EXCEPT ![id] = row]
    BY <1>3 DEF UpdateWrite
  <2>5. /\ row \in Row /\ row.tenant = old.tenant /\ row.name = name /\ row.status = old.status
        /\ old.cred <= row.cred
    <3>1. old.cred \in Nat /\ old.tenant \in Tenants /\ old.status \in Statuses
          /\ old.name \in Names
      BY <2>3 DEF Row
    <3>2. old.cred + call.cred \in 0..MaxCred /\ old.cred <= old.cred + call.cred
      BY <2>1, <2>2, <3>1
    <3>3. name \in Names
      BY <2>2, <3>1
    <3> QED BY <3>1, <3>2, <3>3 DEF Row
  <2>6. old = conns[id]
    OBVIOUS
  <2> HIDE DEF row, name, old
  <2>7. TableOK(conns', issued') /\ RowsStay
    BY <1>1, <2>1, <2>2, <2>3, <2>4, <2>5, <2>6, ChangeFacts
  <2>8. conns'[id] = row /\ \A i \in Ids \ {id} : conns'[i] = conns[i]
    BY <1>1, <2>2, <2>4
  <2>9. StatusStep /\ TestedTyped
    BY <1>1, <2>3, <2>5, <2>8, <2>6 DEF StatusStep, TestedTyped
  <2> QED BY <2>3, <2>5, <2>7, <2>8, <2>9, <2>6
<1> QED BY <1>2, <1>3

LEMMA TestFacts ==
  ASSUME TypeInv, NEW c \in Clients, TestRecord(c)
  PROVE  /\ TableOK(conns', issued') /\ RowsStay /\ StatusStep /\ TestedTyped
         /\ \A i \in Ids : conns[i] # None /\ conns'[i] # conns[i] =>
              i = calls[c].id /\ calls[c].tenant = conns[i].tenant /\ conns[i].cred <= conns'[i].cred
<1> DEFINE call == calls[c]
           id == call.id
<1>1. /\ tested \in [Ids -> SUBSET {"ok", "error"}]
      /\ issued' = issued /\ conns \in [Ids -> Row \union {None}]
  BY DEF TestRecord, TypeInv, TypeOK, ConnTypeOK
<1>2. PICK status \in {"ok", "error"} :
        /\ tested' = [tested EXCEPT ![id] = @ \union {status}]
        /\ conns' = IF Owned(call.tenant, id)
                      THEN [conns EXCEPT ![id] = Stored(@, call, status)] ELSE conns
  BY DEF TestRecord
<1>3. id \in Ids
  BY CallKinds DEF TestRecord, TypeInv
<1>4. /\ tested' \in [Ids -> SUBSET {"ok", "error"}] /\ status \in tested'[id]
      /\ \A i \in Ids : tested[i] \subseteq tested'[i]
  BY <1>1, <1>2, <1>3
<1>5. CASE ~Owned(call.tenant, id)
  BY <1>1, <1>2, <1>4, <1>5, NothingWritten DEF StatusStep, TestedTyped
<1>6. CASE Owned(call.tenant, id)
  <2>1. conns[id] \in Row /\ conns[id] # None /\ conns[id].tenant = call.tenant
    BY <1>1, <1>3, <1>6 DEF Owned, Rows
  <2> DEFINE old == conns[id]
             row == [old EXCEPT !.status = status]
  <2>2. conns' = [conns EXCEPT ![id] = row]
    BY <1>2, <1>6 DEF Stored
  <2>3. /\ row \in Row /\ row.tenant = old.tenant /\ row.name = old.name
        /\ row.status = status /\ row.cred = old.cred /\ old.cred \in Nat
    BY <2>1 DEF Row, Statuses
  <2> HIDE DEF row
  <2>4. Free(row.tenant, row.name, id)
    BY <1>1, <1>3, <2>1, <2>3 DEF Free, Named, Rows, TypeInv, TypeOK, ConnTypeOK
  <2>5. TableOK(conns', issued') /\ RowsStay
    BY <1>1, <1>3, <2>1, <2>2, <2>3, <2>4, ChangeFacts
  <2>6. conns'[id] = row /\ \A i \in Ids \ {id} : conns'[i] = conns[i]
    BY <1>1, <1>3, <2>2
  <2>7. StatusStep /\ TestedTyped
    BY <1>4, <2>3, <2>6 DEF StatusStep, TestedTyped
  <2> QED BY <2>1, <2>3, <2>5, <2>6, <2>7
<1> QED BY <1>5, <1>6

(* A step of a call, whichever it is.                                      *)
LEMMA CallFacts ==
  ASSUME TypeInv, NEW c \in Clients, CallStep(c)
  PROVE  /\ TableOK(conns', issued') /\ RowsStay /\ StatusStep /\ TestedTyped /\ CallMade(c)
         /\ \A i \in Ids : conns[i] # None /\ conns'[i] # conns[i] =>
              /\ calls[c].pc \in {"update", "test"} /\ calls'[c].pc = "idle"
              /\ i = calls[c].id /\ calls[c].tenant = conns[i].tenant
              /\ conns[i].cred <= conns'[i].cred
<1>1. tested \in [Ids -> SUBSET {"ok", "error"}] /\ calls \in [Clients -> CallType]
  BY DEF TypeInv, TypeOK, ConnTypeOK
<1>2. CASE CreateCheck(c) \/ UpdateCheck(c) \/ TestRead(c)
  BY <1>1, <1>2, CheckFacts, NothingWritten DEF StatusStep, TestedTyped
<1>3. CASE CreateInsert(c)
  <2>1. \A i \in Ids : conns[i] # None => conns'[i] = conns[i]
    <3>1. /\ conns \in [Ids -> Row \union {None}]
          /\ \A i \in Ids : conns[i] # None => i \in issued
      BY DEF TypeInv, TypeOK, ConnTypeOK
    <3> QED BY <1>3, <3>1 DEF CreateInsert
  <2> QED BY <1>3, <2>1, CreateFacts, CallReturns DEF CreateInsert
<1>4. CASE UpdateWrite(c) \/ TestRecord(c)
  <2>1. Return(c) /\ calls[c].pc \in {"update", "test"}
    BY <1>4 DEF UpdateWrite, TestRecord
  <2>2. calls'[c].pc = "idle"
    BY <1>1, <2>1, IdleCall DEF Return, Goto
  <2> QED BY <1>4, <2>1, <2>2, UpdateFacts, TestFacts, CallReturns
<1>5. CASE CallRaises(c)
  BY <1>1, <1>5, CallReturns, NothingWritten DEF CallRaises, StatusStep, TestedTyped
<1> QED BY <1>2, <1>3, <1>4, <1>5 DEF CallStep

(* The owner deletes a row.                                                *)
LEMMA DeleteFacts ==
  ASSUME TypeInv, NEW c \in Clients, Delete(c)
  PROVE  /\ TableOK(conns', issued') /\ UNCHANGED <<issued, calls, tested>>
         /\ \A i \in Ids : conns'[i] # conns[i] => conns'[i] = None
<1>1. /\ conns \in [Ids -> Row \union {None}] /\ issued \subseteq Ids
      /\ TableOK(conns, issued)
  BY DEF TypeInv, TypeOK, ConnTypeOK, TableOK
<1>2. PICK tenant \in Tenants : \E id \in Rows(tenant) : conns' = [conns EXCEPT ![id] = None]
  BY DEF Delete
<1>3. PICK id \in Rows(tenant) : conns' = [conns EXCEPT ![id] = None]
  BY <1>2
<1>4. id \in Ids
  BY DEF Rows
<1>5. /\ conns' \in [Ids -> Row \union {None}] /\ conns'[id] = None
      /\ \A i \in Ids \ {id} : conns'[i] = conns[i]
  BY <1>1, <1>3, <1>4
<1>6. UNCHANGED <<issued, calls, tested>>
  BY DEF Delete
<1>7. \A i \in Ids : conns'[i] # None => conns'[i] = conns[i]
  BY <1>5
<1>8. \A i \in Ids : conns'[i] # None => i \in issued'
  BY <1>1, <1>6, <1>7 DEF TableOK
<1>9. \A i, j \in Ids : conns'[i] # None /\ conns'[j] # None =>
        (conns'[i].tenant = conns'[j].tenant /\ conns'[i].name = conns'[j].name => i = j)
  BY <1>1, <1>7 DEF TableOK
<1> QED BY <1>1, <1>5, <1>6, <1>7, <1>8, <1>9 DEF TableOK

-----------------------------------------------------------------------------
(* What a task does to the table of jobs.                                  *)
Agree(task, job) ==
  /\ task.pc \in {"queued", "read", "scaffold"} => job.status \in {"pending", "running"}
  /\ task.pc \in {"failing", "lost"} => job.status # "failed"
  /\ task.pc = "ended" => job.status \in {"completed", "failed"}
JobsTyped == jobs' \in [Jobs -> Job \union {None}]
JobsStay ==
  /\ \A k \in Jobs : jobs'[k] = None <=> jobs[k] = None
  /\ \A k \in Jobs : jobs[k] # None =>
       jobs'[k].tenant = jobs[k].tenant /\ jobs'[k].conn = jobs[k].conn
OthersStay(j) == \A k \in Jobs \ {j} : jobs'[k] = jobs[k] /\ tasks'[k] = tasks[k]

LEMMA TaskMoves ==
  ASSUME TypeInv, NEW j \in Jobs, tasks[j].pc # "none", NEW pc \in TaskPhases \ {"none"},
         At(j, pc)
  PROVE  /\ tasks' \in [Jobs -> TaskType] /\ tasks'[j].pc = pc
         /\ \A k \in Jobs \ {j} : tasks'[k] = tasks[k]
<1>1. tasks \in [Jobs -> TaskType]
  BY DEF TypeInv
<1>2. tasks[j] \in [pc : TaskPhases \ {"none"}, tenant : Tenants, conn : Ids]
  BY <1>1 DEF TaskType, NoTask
<1>3. [tasks[j] EXCEPT !.pc = pc] \in [pc : TaskPhases \ {"none"}, tenant : Tenants, conn : Ids]
      /\ [tasks[j] EXCEPT !.pc = pc].pc = pc
  BY <1>2
<1>4. tasks' = [tasks EXCEPT ![j] = [tasks[j] EXCEPT !.pc = pc]]
  BY DEF At
<1> QED BY <1>1, <1>3, <1>4 DEF TaskType

LEMMA ProgressMade ==
  ASSUME TypeInv, NEW j \in Jobs, NEW status \in JobStatuses, NEW progress \in {0, 1, 50, 100},
         UpdateProgress(j, status, progress)
  PROVE  /\ JobsTyped /\ JobsStay /\ \A k \in Jobs \ {j} : jobs'[k] = jobs[k]
         /\ jobs'[j] # None => jobs'[j].status = status
<1>1. jobs \in [Jobs -> Job \union {None}]
  BY DEF TypeInv, TypeOK
<1>2. CASE jobs[j] = None
  BY <1>1, <1>2 DEF UpdateProgress, JobsTyped, JobsStay
<1>3. CASE jobs[j] # None
  <2> DEFINE row == [tenant |-> jobs[j].tenant, conn |-> jobs[j].conn,
                     status |-> status, progress |-> progress]
  <2>1. /\ row \in Job /\ row.tenant = jobs[j].tenant /\ row.conn = jobs[j].conn
        /\ row.status = status
    BY <1>1, <1>3 DEF Job
  <2>2. jobs' = [jobs EXCEPT ![j] = row]
    BY <1>3 DEF UpdateProgress
  <2>3. row # None
    BY <2>1
  <2> HIDE DEF row
  <2> QED BY <1>1, <1>3, <2>1, <2>2, <2>3 DEF JobsTyped, JobsStay
<1> QED BY <1>2, <1>3

LEMMA RunFacts ==
  ASSUME TypeInv, NEW j \in Jobs, RunStep(j)
  PROVE  /\ TaskOnly /\ JobsTyped /\ JobsStay /\ OthersStay(j)
         /\ tasks' \in [Jobs -> TaskType] /\ tasks[j].pc # "none"
         /\ jobs[j] # None /\ Agree(tasks[j], jobs[j]) => Agree(tasks'[j], jobs'[j])
<1>1. jobs \in [Jobs -> Job \union {None}]
  BY DEF TypeInv, TypeOK
<1>2. TaskOnly /\ tasks[j].pc \in {"queued", "read", "scaffold", "failing"}
  BY DEF RunStep, RunStart, RunRead, RunProgress, RunComplete, RunRaises, RunFail
<1>3. UNCHANGED jobs => JobsTyped /\ JobsStay /\ \A k \in Jobs \ {j} : jobs'[k] = jobs[k]
  BY <1>1 DEF JobsTyped, JobsStay
<1>4. CASE RunStart(j)
  <2>1. UpdateProgress(j, "running", 1) /\ At(j, "read")
    BY <1>4 DEF RunStart
  <2>2. /\ JobsTyped /\ JobsStay /\ \A k \in Jobs \ {j} : jobs'[k] = jobs[k]
        /\ jobs'[j] # None => jobs'[j].status = "running"
    BY <2>1, ProgressMade DEF JobStatuses
  <2>3. /\ tasks' \in [Jobs -> TaskType] /\ tasks'[j].pc = "read"
        /\ \A k \in Jobs \ {j} : tasks'[k] = tasks[k]
    BY <1>2, <2>1, TaskMoves DEF TaskPhases
  <2>4. jobs[j] # None => jobs'[j] # None
    BY <2>2 DEF JobsStay
  <2> QED BY <1>2, <2>2, <2>3, <2>4 DEF OthersStay, Agree
<1>5. CASE RunRead(j)
  <2>1. UNCHANGED jobs /\ tasks[j].pc = "read"
    BY <1>5 DEF RunRead
  <2>2. PICK pc \in {"scaffold", "failing"} : At(j, pc)
    BY <1>5 DEF RunRead
  <2>3. /\ tasks' \in [Jobs -> TaskType] /\ tasks'[j].pc = pc
        /\ \A k \in Jobs \ {j} : tasks'[k] = tasks[k]
    BY <1>2, <2>2, TaskMoves DEF TaskPhases
  <2>4. Agree(tasks[j], jobs[j]) => Agree(tasks'[j], jobs'[j])
    BY <2>1, <2>3 DEF Agree
  <2> QED BY <1>2, <1>3, <2>1, <2>3, <2>4 DEF OthersStay
<1>6. CASE RunProgress(j)
  <2>1. UpdateProgress(j, "running", 50) /\ At(j, "scaffold")
    BY <1>6 DEF RunProgress
  <2>2. /\ JobsTyped /\ JobsStay /\ \A k \in Jobs \ {j} : jobs'[k] = jobs[k]
        /\ jobs'[j] # None => jobs'[j].status = "running"
    BY <2>1, ProgressMade DEF JobStatuses
  <2>3. /\ tasks' \in [Jobs -> TaskType] /\ tasks'[j].pc = "scaffold"
        /\ \A k \in Jobs \ {j} : tasks'[k] = tasks[k]
    BY <1>2, <2>1, TaskMoves DEF TaskPhases
  <2>4. jobs[j] # None => jobs'[j] # None
    BY <2>2 DEF JobsStay
  <2> QED BY <1>2, <2>2, <2>3, <2>4 DEF OthersStay, Agree
<1>7. CASE RunComplete(j)
  <2>1. UpdateProgress(j, "completed", 100) /\ At(j, "ended")
    BY <1>7 DEF RunComplete
  <2>2. /\ JobsTyped /\ JobsStay /\ \A k \in Jobs \ {j} : jobs'[k] = jobs[k]
        /\ jobs'[j] # None => jobs'[j].status = "completed"
    BY <2>1, ProgressMade DEF JobStatuses
  <2>3. /\ tasks' \in [Jobs -> TaskType] /\ tasks'[j].pc = "ended"
        /\ \A k \in Jobs \ {j} : tasks'[k] = tasks[k]
    BY <1>2, <2>1, TaskMoves DEF TaskPhases
  <2>4. jobs[j] # None => jobs'[j] # None
    BY <2>2 DEF JobsStay
  <2> QED BY <1>2, <2>2, <2>3, <2>4 DEF OthersStay, Agree
<1>8. CASE RunRaises(j)
  <2>1. (UNCHANGED jobs \/ CommittedUnseen(j)) /\ At(j, "failing")
        /\ tasks[j].pc \in {"queued", "read", "scaffold"}
    BY <1>8 DEF RunRaises
  <2>2. /\ tasks' \in [Jobs -> TaskType] /\ tasks'[j].pc = "failing"
        /\ \A k \in Jobs \ {j} : tasks'[k] = tasks[k]
    BY <1>2, <2>1, TaskMoves DEF TaskPhases
  <2>3. /\ JobsTyped /\ JobsStay /\ \A k \in Jobs \ {j} : jobs'[k] = jobs[k]
        /\ jobs'[j] # None => jobs'[j] = jobs[j] \/ jobs'[j].status \in {"running", "completed"}
    <3>1. CASE UNCHANGED jobs
      BY <1>3, <3>1
    <3>2. CASE UpdateProgress(j, "running", 1) \/ UpdateProgress(j, "running", 50)
      BY <3>2, ProgressMade DEF JobStatuses
    <3>3. CASE UpdateProgress(j, "completed", 100)
      BY <3>3, ProgressMade DEF JobStatuses
    <3> QED BY <2>1, <3>1, <3>2, <3>3 DEF CommittedUnseen
  <2>4. jobs[j] # None => jobs'[j] # None
    BY <2>3 DEF JobsStay
  <2>5. ASSUME jobs[j] # None, Agree(tasks[j], jobs[j]) PROVE jobs'[j].status # "failed"
    BY <2>1, <2>3, <2>4, <2>5 DEF Agree
  <2> QED BY <1>2, <2>2, <2>3, <2>5 DEF OthersStay, Agree
<1>9. CASE RunFail(j)
  <2>1. CASE UpdateProgress(j, "failed", 0) /\ At(j, "ended")
    <3>2. /\ JobsTyped /\ JobsStay /\ \A k \in Jobs \ {j} : jobs'[k] = jobs[k]
          /\ jobs'[j] # None => jobs'[j].status = "failed"
      BY <2>1, ProgressMade DEF JobStatuses
    <3>3. /\ tasks' \in [Jobs -> TaskType] /\ tasks'[j].pc = "ended"
          /\ \A k \in Jobs \ {j} : tasks'[k] = tasks[k]
      BY <1>2, <2>1, TaskMoves DEF TaskPhases
    <3>4. jobs[j] # None => jobs'[j] # None
      BY <3>2 DEF JobsStay
    <3> QED BY <1>2, <3>2, <3>3, <3>4 DEF OthersStay, Agree
  <2>2. CASE UNCHANGED jobs /\ At(j, "lost")
    BY <1>2, <1>3, <2>2, TaskMoves DEF TaskPhases, OthersStay, Agree
  <2> QED BY <1>9, <2>1, <2>2 DEF RunFail
<1> QED BY <1>4, <1>5, <1>6, <1>7, <1>8, <1>9 DEF RunStep
-----------------------------------------------------------------------------
(* The types are kept.                                                     *)
JobsOwned ==
  /\ JobsTyped /\ tasks' \in [Jobs -> TaskType] /\ queued' \subseteq Jobs
  /\ \A k \in Jobs : jobs'[k] # None => k \in queued'
CallsTyped ==
  /\ calls' \in [Clients -> CallType]
  /\ \A d \in Clients : KnowsRow(calls'[d], issued')

LEMMA TypesStay ==
  ASSUME TableOK(conns', issued'), TestedTyped, JobsOwned, CallsTyped
  PROVE  TypeInv'
<1>1. ConnTypeOK'
  BY DEF TableOK, TestedTyped, ConnTypeOK
<1>2. \A k \in Jobs : tasks'[k].pc \in TaskPhases
  BY DEF JobsOwned, TaskType, NoTask, TaskPhases
<1> QED BY <1>1, <1>2 DEF JobsOwned, JobsTyped, CallsTyped, TypeInv, TypeOK

LEMMA SameJobs ==
  ASSUME TypeInv, UNCHANGED <<jobs, queued, tasks>>
  PROVE  JobsOwned /\ JobsStay
BY DEF TypeInv, TypeOK, JobsOwned, JobsTyped, JobsStay

LEMMA SameConns ==
  ASSUME TypeInv, UNCHANGED <<conns, issued, tested>>
  PROVE  TableOK(conns', issued') /\ RowsStay /\ StatusStep /\ TestedTyped
<1>1. TestedTyped /\ StatusStep
  BY DEF TypeInv, TypeOK, ConnTypeOK, TestedTyped, StatusStep
<1> QED BY <1>1, NothingWritten

LEMMA OneCall ==
  ASSUME TypeInv, NEW c \in Clients, NEW q \in CallType, KnowsRow(q, issued'),
         issued \subseteq issued', calls' = [calls EXCEPT ![c] = q]
  PROVE  CallsTyped /\ calls'[c] = q /\ \A d \in Clients \ {c} : calls'[d] = calls[d]
<1>1. calls \in [Clients -> CallType] /\ \A d \in Clients : KnowsRow(calls[d], issued)
  BY DEF TypeInv
<1>2. /\ calls' \in [Clients -> CallType] /\ calls'[c] = q
      /\ \A d \in Clients \ {c} : calls'[d] = calls[d]
  BY <1>1
<1>3. \A d \in Clients \ {c} : KnowsRow(calls'[d], issued')
  BY <1>1, <1>2 DEF KnowsRow
<1> QED BY <1>2, <1>3 DEF CallsTyped

(* ------------------------- what calls and tasks know -------------------- *)
StartsKnown ==
  \A c \in Clients : calls[c].pc = "start" /\ conns[calls[c].id] # None =>
    conns[calls[c].id].tenant = calls[c].tenant
Started(c) == calls[c].pc = "started"
StartedKnown ==
  \A c \in Clients : Started(c) =>
    /\ calls[c].name \in queued /\ tasks[calls[c].name].pc = "none"
    /\ jobs[calls[c].name] # None => jobs[calls[c].name].status = "pending"
    /\ \A d \in Clients \ {c} : Started(d) => calls[d].name # calls[c].name
FreshTasks == \A j \in Jobs \ queued : tasks[j].pc = "none"
Inv ==
  /\ TypeInv /\ StatusComesFromTest /\ TasksAndJobsAgree
  /\ StartsKnown /\ StartedKnown /\ FreshTasks

(* The job's row and its connection's: what TasksAndJobsAgree says.        *)
LEMMA AgreeParts ==
  ASSUME TasksAndJobsAgree, NEW j \in Jobs, jobs[j] # None
  PROVE  /\ Agree(tasks[j], jobs[j])
         /\ conns[jobs[j].conn] # None /\ conns[jobs[j].conn].tenant = jobs[j].tenant
BY DEF TasksAndJobsAgree, Agree

LEMMA AgreeMakes ==
  ASSUME \A j \in Jobs : jobs'[j] # None =>
           /\ Agree(tasks'[j], jobs'[j])
           /\ conns'[jobs'[j].conn] # None
           /\ conns'[jobs'[j].conn].tenant = jobs'[j].tenant
  PROVE  TasksAndJobsAgree'
BY DEF TasksAndJobsAgree, Agree

LEMMA StatusKept ==
  ASSUME StatusComesFromTest, StatusStep
  PROVE  StatusComesFromTest'
BY DEF StatusComesFromTest, StatusStep

(* Rows stay, jobs and tasks too: only the calls may upset the invariant.  *)
LEMMA AgreeKept ==
  ASSUME TypeInv, TasksAndJobsAgree, RowsStay, UNCHANGED <<jobs, tasks>>
  PROVE  TasksAndJobsAgree'
<1>1. \A j \in Jobs : jobs[j] # None => jobs[j].conn \in Ids
  BY DEF TypeInv, TypeOK, Job
<1>2. ASSUME NEW j \in Jobs, jobs'[j] # None
      PROVE  /\ Agree(tasks'[j], jobs'[j])
             /\ conns'[jobs'[j].conn] # None
             /\ conns'[jobs'[j].conn].tenant = jobs'[j].tenant
  BY <1>1, <1>2, AgreeParts DEF RowsStay
<1> QED BY <1>2, AgreeMakes

LEMMA CallStepKeepsInv ==
  ASSUME Inv, NEW c \in Clients, ConnectionStep(c)
  PROVE  Inv'
<1>1. TypeInv /\ UNCHANGED <<jobs, queued, tasks>>
  BY DEF Inv, ConnectionStep
<1>2. TableOK(conns', issued') /\ RowsStay /\ StatusStep /\ TestedTyped /\ CallMade(c)
  BY <1>1, CallFacts DEF ConnectionStep
<1>3. PICK q \in ConnCallType : calls' = [calls EXCEPT ![c] = q] /\ KnowsRow(q, issued')
  BY <1>2 DEF CallMade
<1>4. q \in CallType /\ q.pc \notin {"start", "started"}
  BY DEF CallType, ConnCallType, Idle
<1>5. CallsTyped /\ calls'[c] = q /\ \A d \in Clients \ {c} : calls'[d] = calls[d]
  BY <1>1, <1>2, <1>3, <1>4, OneCall DEF RowsStay
<1>6. TypeInv'
  BY <1>1, <1>2, <1>5, SameJobs, TypesStay
<1>7. StatusComesFromTest' /\ TasksAndJobsAgree'
  BY <1>1, <1>2, StatusKept, AgreeKept DEF Inv
<1>8. StartsKnown'
  <2>1. ASSUME NEW d \in Clients, calls'[d].pc = "start", conns'[calls'[d].id] # None
        PROVE  conns'[calls'[d].id].tenant = calls'[d].tenant
    <3>1. d # c /\ calls'[d] = calls[d]
      BY <1>4, <1>5, <2>1
    <3>2. calls[d].id \in issued /\ issued \subseteq Ids
      BY <1>1, <2>1, <3>1 DEF TypeInv, TypeOK, ConnTypeOK, KnowsRow
    <3>3. conns[calls[d].id] # None
      BY <1>2, <2>1, <3>1, <3>2 DEF RowsStay
    <3> QED BY <1>2, <2>1, <3>1, <3>2, <3>3 DEF RowsStay, Inv, StartsKnown
  <2> QED BY <2>1 DEF StartsKnown
<1>9. StartedKnown'
  BY <1>1, <1>4, <1>5 DEF Inv, StartedKnown, Started
<1> QED BY <1>1, <1>6, <1>7, <1>8, <1>9 DEF Inv, FreshTasks

LEMMA DeleteKeepsInv ==
  ASSUME Inv, NEW c \in Clients, DeleteConnection(c)
  PROVE  Inv'
<1>1. /\ TypeInv /\ UNCHANGED <<queued, tasks, issued, calls, tested>>
      /\ TableOK(conns', issued')
      /\ \A i \in Ids : conns'[i] # conns[i] => conns'[i] = None
  BY DeleteFacts DEF Inv, DeleteConnection
<1>2. /\ jobs' = [j \in Jobs |->
           IF jobs[j] # None /\ conns'[jobs[j].conn] = None THEN None ELSE jobs[j]]
      /\ jobs \in [Jobs -> Job \union {None}]
  BY <1>1 DEF DeleteConnection, TypeInv, TypeOK
<1>3. /\ JobsTyped
      /\ \A j \in Jobs : jobs'[j] # None =>
           jobs[j] # None /\ jobs'[j] = jobs[j] /\ conns'[jobs[j].conn] # None
  BY <1>2 DEF JobsTyped
<1>4. TypeInv'
  <2>1. JobsOwned
    BY <1>1, <1>3 DEF JobsOwned, TypeInv, TypeOK
  <2>2. CallsTyped /\ TestedTyped
    BY <1>1 DEF CallsTyped, TestedTyped, TypeInv, TypeOK, ConnTypeOK
  <2> QED BY <1>1, <2>1, <2>2, TypesStay
<1>5. StatusComesFromTest'
  BY <1>1 DEF Inv, StatusComesFromTest
<1>6. TasksAndJobsAgree'
  <2>1. ASSUME NEW j \in Jobs, jobs'[j] # None
        PROVE  /\ Agree(tasks'[j], jobs'[j])
               /\ conns'[jobs'[j].conn] # None
               /\ conns'[jobs'[j].conn].tenant = jobs'[j].tenant
    <3>1. jobs[j].conn \in Ids /\ jobs[j] # None /\ jobs'[j] = jobs[j]
          /\ conns'[jobs[j].conn] # None
      BY <1>2, <1>3, <2>1 DEF Job
    <3>2. conns'[jobs[j].conn] = conns[jobs[j].conn]
      BY <1>1, <3>1
    <3> QED BY <1>1, <3>1, <3>2, AgreeParts DEF Inv
  <2> QED BY <2>1, AgreeMakes
<1>7. StartsKnown'
  <2>1. \A d \in Clients : calls[d].pc = "start" => calls[d].id \in Ids
    BY <1>1 DEF TypeInv, TypeOK, ConnTypeOK, KnowsRow
  <2> QED BY <1>1, <2>1 DEF Inv, StartsKnown
<1>8. StartedKnown'
  <2>1. \A d \in Clients : Started(d) => calls[d].name \in Jobs
    BY <1>1, CallKinds DEF TypeInv, Started
  <2> QED BY <1>1, <1>3, <2>1 DEF Inv, StartedKnown, Started
<1> QED BY <1>1, <1>4, <1>5, <1>6, <1>7, <1>8 DEF Inv, FreshTasks

LEMMA StartCheckKeepsInv ==
  ASSUME Inv, NEW c \in Clients, StartCheck(c)
  PROVE  Inv'
<1>1. TypeInv /\ UNCHANGED <<conns, issued, tested, jobs, queued, tasks>>
  BY DEF Inv, StartCheck
<1>2. TableOK(conns', issued') /\ RowsStay /\ StatusStep /\ TestedTyped
  BY <1>1, SameConns
<1>3. PICK tenant \in Tenants : \E id \in issued :
        Owned(tenant, id) /\ Goto(c, Call("start", tenant, id, None, None))
  BY DEF StartCheck
<1>4. PICK id \in issued : Owned(tenant, id) /\ Goto(c, Call("start", tenant, id, None, None))
  BY <1>3
<1> DEFINE q == Call("start", tenant, id, None, None)
<1>5. /\ q \in CallType /\ KnowsRow(q, issued') /\ q.pc = "start"
      /\ q.id = id /\ q.tenant = tenant
  <2>1. id \in Ids /\ id \in issued'
    BY <1>1 DEF TypeInv, TypeOK, ConnTypeOK
  <2>2. q \in [pc : {"start"}, tenant : Tenants, id : Ids, name : {None}, cred : {None}]
    BY <2>1 DEF Call
  <2>3. q \in CallType
    BY <2>2 DEF CallType
  <2> QED BY <2>1, <2>3 DEF Call, KnowsRow
<1>6. calls' = [calls EXCEPT ![c] = q]
  BY <1>4 DEF Goto
<1> HIDE DEF q
<1>7. CallsTyped /\ calls'[c] = q /\ \A d \in Clients \ {c} : calls'[d] = calls[d]
  BY <1>1, <1>5, <1>6, OneCall
<1>8. TypeInv'
  BY <1>1, <1>2, <1>7, SameJobs, TypesStay
<1>9. StatusComesFromTest' /\ TasksAndJobsAgree'
  BY <1>1, <1>2, StatusKept, AgreeKept DEF Inv
<1>10. StartsKnown'
  <2>1. conns[id].tenant = tenant
    BY <1>4 DEF Owned, Rows
  <2> QED BY <1>1, <1>5, <1>7, <2>1 DEF Inv, StartsKnown
<1>11. StartedKnown'
  BY <1>1, <1>5, <1>7 DEF Inv, StartedKnown, Started
<1> QED BY <1>1, <1>8, <1>9, <1>10, <1>11 DEF Inv, FreshTasks

(* A call that returns, over connections and jobs that stay.               *)
LEMMA ReturnKeepsInv ==
  ASSUME Inv, NEW c \in Clients, Return(c),
         UNCHANGED <<conns, issued, tested, jobs, queued, tasks>>
  PROVE  Inv'
<1>1. TypeInv /\ TableOK(conns', issued') /\ RowsStay /\ StatusStep /\ TestedTyped
  BY SameConns DEF Inv
<1>2. calls' = [calls EXCEPT ![c] = Idle] /\ KnowsRow(Idle, issued')
  BY DEF Return, Goto, KnowsRow, Idle
<1>3. CallsTyped /\ calls'[c] = Idle /\ \A d \in Clients \ {c} : calls'[d] = calls[d]
  BY <1>1, <1>2, IdleCall, OneCall
<1>4. TypeInv'
  BY <1>1, <1>3, SameJobs, TypesStay
<1>5. StatusComesFromTest' /\ TasksAndJobsAgree'
  BY <1>1, StatusKept, AgreeKept DEF Inv
<1>6. StartsKnown' /\ StartedKnown'
  BY <1>3, IdleCall DEF Inv, StartsKnown, StartedKnown, Started
<1> QED BY <1>4, <1>5, <1>6 DEF Inv, FreshTasks

LEMMA StartInsertKeepsInv ==
  ASSUME Inv, NEW c \in Clients, StartInsert(c)
  PROVE  Inv'
<1> DEFINE call == calls[c]
<1>1. TypeInv /\ UNCHANGED <<conns, issued, tested, tasks>> /\ call.pc = "start"
  BY DEF Inv, StartInsert
<1>2. CASE conns[call.id] = None
  BY <1>1, <1>2, ReturnKeepsInv DEF StartInsert
<1>3. CASE conns[call.id] # None
  <2> DEFINE row == [tenant |-> call.tenant, conn |-> call.id,
                     status |-> "pending", progress |-> 0]
  <2>1. PICK j \in Jobs \ queued :
          /\ jobs' = [jobs EXCEPT ![j] = row] /\ queued' = queued \union {j}
          /\ Goto(c, [call EXCEPT !.pc = "started", !.name = j])
    BY <1>3 DEF StartInsert
  <2> DEFINE q == [call EXCEPT !.pc = "started", !.name = j]
  <2>2. call \in [pc : {"start"}, tenant : Tenants, id : Ids, name : {None}, cred : {None}]
    BY <1>1, CallKinds DEF TypeInv
  <2>3. q \in [pc : {"started"}, tenant : Tenants, id : Ids, name : Jobs, cred : {None}]
        /\ q.pc = "started" /\ q.name = j
    BY <2>2
  <2>4. q \in CallType /\ KnowsRow(q, issued')
    BY <2>3 DEF CallType, KnowsRow
  <2>5. /\ row \in Job /\ row.tenant = call.tenant /\ row.conn = call.id
        /\ row.status = "pending"
    BY <2>2 DEF Job, JobStatuses
  <2>6. calls' = [calls EXCEPT ![c] = q]
    BY <2>1 DEF Goto
  <2> HIDE DEF q, row
  <2>7. CallsTyped /\ calls'[c] = q /\ \A d \in Clients \ {c} : calls'[d] = calls[d]
    BY <1>1, <2>4, <2>6, OneCall
  <2>8. /\ jobs \in [Jobs -> Job \union {None}] /\ queued \subseteq Jobs
        /\ \A k \in Jobs : jobs[k] # None => k \in queued
        /\ tasks \in [Jobs -> TaskType]
    BY <1>1 DEF TypeInv, TypeOK
  <2>9. /\ JobsTyped /\ jobs'[j] = row /\ \A k \in Jobs \ {j} : jobs'[k] = jobs[k]
    BY <2>1, <2>5, <2>8 DEF JobsTyped
  <2>10. JobsOwned
    BY <1>1, <2>1, <2>8, <2>9 DEF JobsOwned
  <2>11. TypeInv' /\ StatusComesFromTest'
    BY <1>1, <2>7, <2>10, SameConns, TypesStay, StatusKept DEF Inv
  <2>12. tasks[j].pc = "none"
    BY <2>1 DEF Inv, FreshTasks
  <2>13. TasksAndJobsAgree'
    <3>1. conns[call.id].tenant = call.tenant
      BY <1>1, <1>3 DEF Inv, StartsKnown
    <3>2. /\ Agree(tasks'[j], jobs'[j])
          /\ conns'[jobs'[j].conn] # None /\ conns'[jobs'[j].conn].tenant = jobs'[j].tenant
      BY <1>1, <1>3, <2>5, <2>9, <2>12, <3>1 DEF Agree
    <3>3. ASSUME NEW k \in Jobs \ {j}, jobs'[k] # None
          PROVE  /\ Agree(tasks'[k], jobs'[k])
                 /\ conns'[jobs'[k].conn] # None /\ conns'[jobs'[k].conn].tenant = jobs'[k].tenant
      BY <1>1, <2>9, <3>3, AgreeParts DEF Inv
    <3> QED BY <3>2, <3>3, AgreeMakes
  <2>14. StartsKnown'
    BY <1>1, <2>3, <2>7 DEF Inv, StartsKnown
  <2>15. StartedKnown'
    <3>1. ASSUME NEW d \in Clients \ {c}, Started(d)
          PROVE  calls[d].name \in queued /\ calls[d].name # j /\ calls[d].name \in Jobs
      BY <2>1, <2>8, <3>1 DEF Inv, StartedKnown
    <3>2. \A d \in Clients \ {c} : Started(d)' <=> Started(d)
      BY <2>7 DEF Started
    <3>3. /\ calls'[c].name \in queued' /\ tasks'[calls'[c].name].pc = "none"
          /\ jobs'[calls'[c].name] # None => jobs'[calls'[c].name].status = "pending"
          /\ \A d \in Clients \ {c} : Started(d)' => calls'[d].name # calls'[c].name
      BY <1>1, <2>1, <2>3, <2>5, <2>7, <2>9, <2>12, <3>1, <3>2
    <3>4. ASSUME NEW d \in Clients \ {c}, Started(d)'
          PROVE  /\ calls'[d].name \in queued' /\ tasks'[calls'[d].name].pc = "none"
                 /\ jobs'[calls'[d].name] # None => jobs'[calls'[d].name].status = "pending"
                 /\ \A e \in Clients \ {d} : Started(e)' => calls'[e].name # calls'[d].name
      <4>1. Started(d) /\ calls'[d] = calls[d] /\ jobs'[calls[d].name] = jobs[calls[d].name]
        BY <2>7, <2>9, <3>1, <3>2, <3>4
      <4>2. \A e \in Clients \ {d} : Started(e)' => calls'[e].name # calls'[d].name
        BY <2>3, <2>7, <3>1, <3>2, <4>1 DEF Inv, StartedKnown
      <4> QED BY <1>1, <2>1, <4>1, <4>2 DEF Inv, StartedKnown
    <3> QED BY <3>3, <3>4 DEF StartedKnown
  <2>16. FreshTasks'
    BY <1>1, <2>1 DEF Inv, FreshTasks
  <2> QED BY <2>11, <2>13, <2>14, <2>15, <2>16 DEF Inv
<1> QED BY <1>2, <1>3

LEMMA StartGetKeepsInv ==
  ASSUME Inv, NEW c \in Clients, StartGet(c)
  PROVE  Inv'
<1> DEFINE call == calls[c]
<1>1. TypeInv /\ UNCHANGED <<conns, issued, tested, jobs, queued>> /\ Return(c) /\ Started(c)
  BY DEF Inv, StartGet, Started
<1>2. CASE UNCHANGED tasks
  BY <1>1, <1>2, ReturnKeepsInv
<1>3. CASE ~UNCHANGED tasks
  <2> DEFINE task == [pc |-> "queued", tenant |-> call.tenant, conn |-> call.id]
             j == call.name
  <2>1. jobs[j] # None /\ tasks' = [tasks EXCEPT ![j] = task]
    BY <1>3 DEF StartGet
  <2>2. call \in [pc : {"started"}, tenant : Tenants, id : Ids, name : Jobs, cred : {None}]
    BY <1>1, CallKinds DEF TypeInv, Started
  <2>3. j \in Jobs /\ task \in TaskType /\ task.pc = "queued"
    BY <2>2 DEF TaskType, TaskPhases
  <2>4. j \in queued /\ jobs[j].status = "pending"
    BY <1>1, <2>1 DEF Inv, StartedKnown
  <2>5. \A d \in Clients \ {c} : Started(d) => calls[d].name # j /\ calls[d].name \in Jobs
    BY <1>1, CallKinds DEF Inv, StartedKnown, TypeInv, Started
  <2> HIDE DEF task, j
  <2>6. /\ tasks' \in [Jobs -> TaskType] /\ tasks'[j] = task
        /\ \A k \in Jobs \ {j} : tasks'[k] = tasks[k]
    BY <1>1, <2>1, <2>3 DEF TypeInv
  <2>7. calls' = [calls EXCEPT ![c] = Idle] /\ KnowsRow(Idle, issued')
    BY <1>1 DEF Return, Goto, KnowsRow, Idle
  <2>8. CallsTyped /\ calls'[c] = Idle /\ \A d \in Clients \ {c} : calls'[d] = calls[d]
    BY <1>1, <2>7, IdleCall, OneCall
  <2>9. JobsOwned
    BY <1>1, <2>6 DEF JobsOwned, JobsTyped, TypeInv, TypeOK
  <2>10. TypeInv' /\ StatusComesFromTest'
    BY <1>1, <2>8, <2>9, SameConns, TypesStay, StatusKept DEF Inv
  <2>11. TasksAndJobsAgree'
    <3>1. ASSUME NEW k \in Jobs, jobs'[k] # None
          PROVE  /\ Agree(tasks'[k], jobs'[k])
                 /\ conns'[jobs'[k].conn] # None /\ conns'[jobs'[k].conn].tenant = jobs'[k].tenant
      <4>1. Agree(tasks[k], jobs[k]) /\ jobs'[k] = jobs[k]
            /\ conns[jobs[k].conn] # None /\ conns[jobs[k].conn].tenant = jobs[k].tenant
        BY <1>1, <3>1, AgreeParts DEF Inv
      <4>2. Agree(tasks'[k], jobs[k])
        BY <2>3, <2>4, <2>6, <4>1 DEF Agree
      <4> QED BY <1>1, <4>1, <4>2
    <3> QED BY <3>1, AgreeMakes
  <2>12. StartsKnown'
    BY <1>1, <2>8, IdleCall DEF Inv, StartsKnown
  <2>13. StartedKnown'
    BY <1>1, <2>5, <2>6, <2>8, IdleCall DEF Inv, StartedKnown, Started
  <2>14. FreshTasks'
    BY <1>1, <2>4, <2>6 DEF Inv, FreshTasks
  <2> QED BY <2>10, <2>11, <2>12, <2>13, <2>14 DEF Inv
<1> QED BY <1>2, <1>3

LEMMA RunKeepsInv ==
  ASSUME Inv, NEW j \in Jobs, RunStep(j)
  PROVE  Inv'
<1>1. TypeInv
  BY DEF Inv
<1>2. /\ UNCHANGED <<conns, issued, calls, tested, queued>>
      /\ JobsTyped /\ JobsStay /\ OthersStay(j)
      /\ tasks' \in [Jobs -> TaskType] /\ tasks[j].pc # "none"
      /\ jobs[j] # None /\ Agree(tasks[j], jobs[j]) => Agree(tasks'[j], jobs'[j])
  BY <1>1, RunFacts DEF TaskOnly, connVars
<1>3. TypeInv' /\ StatusComesFromTest'
  <2>1. JobsOwned
    BY <1>1, <1>2 DEF JobsOwned, JobsStay, TypeInv, TypeOK
  <2>2. CallsTyped
    BY <1>1, <1>2 DEF CallsTyped, TypeInv
  <2> QED BY <1>1, <1>2, <2>1, <2>2, SameConns, TypesStay, StatusKept DEF Inv
<1>4. TasksAndJobsAgree'
  <2>1. ASSUME NEW k \in Jobs, jobs'[k] # None
        PROVE  /\ Agree(tasks'[k], jobs'[k])
               /\ conns'[jobs'[k].conn] # None /\ conns'[jobs'[k].conn].tenant = jobs'[k].tenant
    <3>1. jobs[k] # None /\ jobs'[k].tenant = jobs[k].tenant /\ jobs'[k].conn = jobs[k].conn
      BY <1>2, <2>1 DEF JobsStay
    <3>2. Agree(tasks[k], jobs[k])
          /\ conns[jobs[k].conn] # None /\ conns[jobs[k].conn].tenant = jobs[k].tenant
      BY <3>1, AgreeParts DEF Inv
    <3>3. Agree(tasks'[k], jobs'[k])
      BY <1>2, <3>1, <3>2 DEF OthersStay
    <3> QED BY <1>2, <3>1, <3>2, <3>3
  <2> QED BY <2>1, AgreeMakes
<1>5. StartsKnown'
  BY <1>2 DEF Inv, StartsKnown
<1>6. StartedKnown'
  <2>1. \A d \in Clients : Started(d) => calls[d].name \in Jobs \ {j}
    BY <1>1, <1>2, CallKinds DEF Inv, StartedKnown, TypeInv, Started
  <2> QED BY <1>2, <2>1 DEF Inv, StartedKnown, Started, OthersStay
<1>7. FreshTasks'
  BY <1>2 DEF Inv, FreshTasks, OthersStay
<1> QED BY <1>3, <1>4, <1>5, <1>6, <1>7 DEF Inv

LEMMA CrashKeepsInv ==
  ASSUME Inv, Crash
  PROVE  Inv'
<1>1. /\ TypeInv /\ UNCHANGED <<conns, issued, tested, jobs, queued>>
      /\ calls' = [c \in Clients |-> Idle] /\ tasks' = [j \in Jobs |-> NoTask]
  BY DEF Inv, Crash
<1>2. CallsTyped
  BY <1>1, IdleCall DEF CallsTyped, KnowsRow
<1>3. JobsOwned
  BY <1>1 DEF JobsOwned, JobsTyped, TaskType, TypeInv, TypeOK
<1>4. TypeInv' /\ StatusComesFromTest'
  BY <1>1, <1>2, <1>3, SameConns, TypesStay, StatusKept DEF Inv
<1>5. TasksAndJobsAgree'
  BY <1>1 DEF Inv, TasksAndJobsAgree, NoTask
<1>6. StartsKnown' /\ StartedKnown' /\ FreshTasks'
  BY <1>1, IdleCall DEF StartsKnown, StartedKnown, Started, FreshTasks, NoTask
<1> QED BY <1>4, <1>5, <1>6 DEF Inv

LEMMA InitInv == ASSUME Init PROVE Inv
<1>1. /\ conns = [i \in Ids |-> None] /\ issued = {} /\ calls = [c \in Clients |-> Idle]
      /\ tested = [i \in Ids |-> {}] /\ jobs = [j \in Jobs |-> None] /\ queued = {}
      /\ tasks = [j \in Jobs |-> NoTask]
  BY DEF Init, ConnInit
<1>2. TypeInv
  BY <1>1, IdleCall DEF TypeInv, TypeOK, ConnTypeOK, KnowsRow, TaskType, NoTask, TaskPhases
<1>3. StatusComesFromTest /\ TasksAndJobsAgree
  BY <1>1 DEF StatusComesFromTest, TasksAndJobsAgree
<1>4. StartsKnown /\ StartedKnown /\ FreshTasks
  BY <1>1, IdleCall DEF StartsKnown, StartedKnown, Started, FreshTasks, NoTask
<1> QED BY <1>2, <1>3, <1>4 DEF Inv

LEMMA NextKeepsInv == ASSUME Inv, Next PROVE Inv'
<1>1. ASSUME NEW c \in Clients, ClientStep(c) PROVE Inv'
  BY <1>1, CallStepKeepsInv, DeleteKeepsInv, StartCheckKeepsInv, StartInsertKeepsInv,
     StartGetKeepsInv DEF ClientStep
<1> QED BY <1>1, RunKeepsInv, CrashKeepsInv DEF Next

LEMMA StutterKeepsInv == ASSUME Inv, UNCHANGED vars PROVE Inv'
BY DEF Inv, vars, connVars, TypeInv, TypeOK, ConnTypeOK, KnowsRow, StatusComesFromTest,
       TasksAndJobsAgree, StartsKnown, StartedKnown, Started, FreshTasks

THEOREM JobsInvariant == Spec => []Inv
<1>1. Inv /\ [Next]_vars => Inv'
  BY NextKeepsInv, StutterKeepsInv
<1> QED BY InitInv, <1>1, PTL DEF Spec

-----------------------------------------------------------------------------
(* Whatever calls, tasks and crashes interleave, the tables have their     *)
(* types and a tenant's connection names stay apart (TypeOK).              *)
THEOREM JobsTypeOK == Spec => []TypeOK
<1>1. Inv => TypeOK
  BY DEF Inv, TypeInv
<1> QED BY JobsInvariant, <1>1, PTL

(* A connection's status is what a tester answered for it: set_status      *)
(* writes to the tested row only, and to none that has replaced it.        *)
THEOREM StatusesComeFromTests == Spec => []StatusComesFromTest
<1>1. Inv => StatusComesFromTest
  BY DEF Inv
<1> QED BY JobsInvariant, <1>1, PTL

(* A job belongs to a connection of its own tenant that still exists, has  *)
(* not ended while its task is at work, and has ended when its task has    *)
(* (TasksAndJobsAgree).                                                    *)
THEOREM TasksAndJobsAlwaysAgree == Spec => []TasksAndJobsAgree
<1>1. Inv => TasksAndJobsAgree
  BY DEF Inv
<1> QED BY JobsInvariant, <1>1, PTL

(* What a step changes of a row that stays, a call of the row's tenant     *)
(* changed, and no credentials are lost.                                   *)
RowsChange ==
  \A i \in Ids : conns[i] # None /\ conns'[i] \notin {None, conns[i]} =>
    /\ conns[i].cred <= conns'[i].cred
    /\ \E c \in Clients : /\ calls[c].pc \in {"update", "test"}
                          /\ calls'[c].pc = "idle"
                          /\ calls[c].id = i /\ calls[c].tenant = conns[i].tenant

LEMMA StepChangesRows == ASSUME Inv, [Next]_vars PROVE RowsChange
<1>1. CASE UNCHANGED conns
  BY <1>1 DEF RowsChange
<1>2. CASE \E c \in Clients : ConnectionStep(c)
  BY <1>2, CallFacts DEF ConnectionStep, Inv, RowsChange
<1>3. CASE \E c \in Clients : DeleteConnection(c)
  BY <1>3, DeleteFacts DEF DeleteConnection, Inv, RowsChange
<1>4. ASSUME NEW c \in Clients, StartCheck(c) \/ StartInsert(c) \/ StartGet(c)
      PROVE  UNCHANGED conns
  BY <1>4 DEF StartCheck, StartInsert, StartGet
<1>5. ASSUME NEW j \in Jobs, RunStep(j) PROVE UNCHANGED conns
  BY <1>5, RunFacts DEF Inv, TaskOnly, connVars
<1>6. Crash \/ UNCHANGED vars => UNCHANGED conns
  BY DEF Crash, vars, connVars
<1> QED BY <1>1, <1>2, <1>3, <1>4, <1>5, <1>6 DEF Next, ClientStep

(* A row is changed by a call of its own tenant only, and an update never  *)
(* loses newer credentials (RowsChangeForTheirTenant).                     *)
THEOREM RowsAlwaysChangeForTheirTenant == Spec => RowsChangeForTheirTenant
<1>1. Inv /\ [Next]_vars => [RowsChange]_connVars
  BY StepChangesRows
<1> QED BY JobsInvariant, <1>1, PTL DEF Spec, RowsChangeForTheirTenant, RowsChange
-----------------------------------------------------------------------------
(* What a step does to the row of a job: it makes the row once, pending,   *)
(* for a uuid not given out before; it deletes the row with its            *)
(* connection; or it moves a job that has not ended to running, completed  *)
(* or failed, or one that says completed to failed, when its task never    *)
(* saw that commit.  Its tenant and its connection stay.                   *)
MayMove(j) ==
  \/ jobs[j].status \in {"pending", "running"} /\ jobs'[j].status # "pending"
  \/ jobs[j].status = "completed" /\ jobs'[j].status = "failed" /\ tasks[j].pc = "failing"
JobsMove ==
  \A j \in Jobs : jobs'[j] # jobs[j] =>
    \/ jobs[j] = None /\ j \notin queued /\ jobs'[j].status = "pending"
    \/ jobs[j] # None /\ jobs'[j] = None /\ conns'[jobs[j].conn] = None
    \/ /\ jobs[j] # None /\ jobs'[j] # None
       /\ jobs'[j].tenant = jobs[j].tenant /\ jobs'[j].conn = jobs[j].conn
       /\ MayMove(j)

LEMMA ProgressMoves ==
  ASSUME Inv, NEW j \in Jobs, NEW status \in JobStatuses \ {"pending"},
         NEW progress \in {0, 1, 50, 100}, UpdateProgress(j, status, progress),
         \/ tasks[j].pc \in {"queued", "read", "scaffold"}
         \/ tasks[j].pc = "failing" /\ status = "failed"
  PROVE  JobsMove
<1>1. /\ JobsStay /\ \A k \in Jobs \ {j} : jobs'[k] = jobs[k]
      /\ jobs'[j] # None => jobs'[j].status = status
  BY ProgressMade DEF Inv
<1>2. jobs[j] = None => jobs'[j] = None
  BY <1>1 DEF JobsStay
<1>3. ASSUME jobs[j] # None
      PROVE  /\ jobs'[j] # None /\ MayMove(j)
             /\ jobs'[j].tenant = jobs[j].tenant /\ jobs'[j].conn = jobs[j].conn
  <2>1. Agree(tasks[j], jobs[j])
    BY <1>3, AgreeParts DEF Inv
  <2>2. jobs[j].status \in JobStatuses
    BY <1>3 DEF Inv, TypeInv, TypeOK, Job
  <2>3. jobs'[j] # None /\ jobs'[j].status = status
    BY <1>1, <1>3 DEF JobsStay
  <2>4. MayMove(j)
    BY <2>1, <2>2, <2>3 DEF MayMove, Agree, JobStatuses
  <2> QED BY <1>1, <1>3, <2>3, <2>4 DEF JobsStay
<1> QED BY <1>1, <1>2, <1>3 DEF JobsMove

LEMMA RunMovesJobs == ASSUME Inv, NEW j \in Jobs, RunStep(j) PROVE JobsMove
<1>1. UNCHANGED jobs => JobsMove
  BY DEF JobsMove
<1>2. CASE RunStart(j)
  BY <1>2, ProgressMoves DEF RunStart, JobStatuses
<1>3. CASE RunProgress(j)
  BY <1>3, ProgressMoves DEF RunProgress, JobStatuses
<1>4. CASE RunComplete(j)
  BY <1>4, ProgressMoves DEF RunComplete, JobStatuses
<1>5. CASE RunFail(j)
  BY <1>1, <1>5, ProgressMoves DEF RunFail, JobStatuses
<1>6. CASE RunRead(j)
  BY <1>1, <1>6 DEF RunRead
<1>7. CASE RunRaises(j)
  <2>1. tasks[j].pc \in {"queued", "read", "scaffold"}
    BY <1>7 DEF RunRaises
  <2>2. CASE UpdateProgress(j, "running", 1) \/ UpdateProgress(j, "running", 50)
    BY <2>1, <2>2, ProgressMoves DEF JobStatuses
  <2>3. CASE UpdateProgress(j, "completed", 100)
    BY <2>1, <2>3, ProgressMoves DEF JobStatuses
  <2> QED BY <1>1, <1>7, <2>2, <2>3 DEF RunRaises, CommittedUnseen
<1> QED BY <1>2, <1>3, <1>4, <1>5, <1>6, <1>7 DEF RunStep

LEMMA InsertMovesJobs == ASSUME Inv, NEW c \in Clients, StartInsert(c) PROVE JobsMove
<1> DEFINE row == [tenant |-> calls[c].tenant, conn |-> calls[c].id,
                   status |-> "pending", progress |-> 0]
<1>1. CASE UNCHANGED jobs
  BY <1>1 DEF JobsMove
<1>2. ASSUME NEW j \in Jobs \ queued, jobs' = [jobs EXCEPT ![j] = row]
      PROVE  JobsMove
  <2>1. jobs \in [Jobs -> Job \union {None}] /\ jobs[j] = None
    BY DEF Inv, TypeInv, TypeOK
  <2>2. jobs'[j] = row /\ row.status = "pending" /\ \A k \in Jobs \ {j} : jobs'[k] = jobs[k]
    BY <1>2, <2>1
  <2> HIDE DEF row
  <2> QED BY <2>1, <2>2 DEF JobsMove
<1> QED BY <1>1, <1>2 DEF StartInsert

LEMMA StepMovesJobs == ASSUME Inv, [Next]_vars PROVE JobsMove
<1>1. UNCHANGED jobs => JobsMove
  BY DEF JobsMove
<1>2. ASSUME NEW c \in Clients, ClientStep(c) PROVE JobsMove
  <2>1. CASE DeleteConnection(c)
    <3>1. \A j \in Jobs : jobs'[j] =
            IF jobs[j] # None /\ conns'[jobs[j].conn] = None THEN None ELSE jobs[j]
      BY <2>1 DEF DeleteConnection
    <3> QED BY <3>1 DEF JobsMove
  <2>2. CASE ConnectionStep(c) \/ StartCheck(c) \/ StartGet(c)
    BY <1>1, <2>2 DEF ConnectionStep, StartCheck, StartGet
  <2> QED BY <1>2, <2>1, <2>2, InsertMovesJobs DEF ClientStep
<1>3. Crash \/ UNCHANGED vars => UNCHANGED jobs
  BY DEF Crash, vars
<1> QED BY <1>1, <1>2, <1>3, RunMovesJobs DEF Next

(* "Jobs progress through pending, running, completed or failed": whatever *)
(* calls, tasks, deletions and crashes interleave, a job that failed is    *)
(* never written again, one that completed only by its own task, which     *)
(* never saw the commit, none goes back to pending, and a uuid whose row   *)
(* is gone never names another job.                                        *)
JobsMoveForward == [][JobsMove]_vars
THEOREM JobsAlwaysMoveForward == Spec => JobsMoveForward
<1>1. Inv /\ [Next]_vars => [JobsMove]_vars
  BY StepMovesJobs
<1> QED BY JobsInvariant, <1>1, PTL DEF Spec, JobsMoveForward
=============================================================================
