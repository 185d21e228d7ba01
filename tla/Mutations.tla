------------------------------ MODULE Mutations ------------------------------
(***************************************************************************)
(* Mutations of the records of an entity: a preview reads the record and   *)
(* answers a diff, an execution runs one statement in one transaction of   *)
(* its own.  Neither asks who calls, and an execution asks for no preview. *)
(***************************************************************************)
EXTENDS Requests

CONSTANTS
  Pks,      \* primary keys of the entity's table
  Key,      \* the column of the primary key
  Fields,   \* the other columns
  Values,   \* what those may hold
  Existing, \* the keys of the rows that are there at first
  Original, \* what the columns of these rows hold
  Changes   \* the fields a request may give: of Fields, of Key, or of both

Row == [Fields -> Values \union {None}]

ASSUME MutationsAssumption ==
  /\ Original \in Values /\ None \notin Row \union Pks
  /\ Existing \subseteq Pks /\ Key \notin Fields
  /\ \A change \in Changes :
       /\ DOMAIN change \subseteq Fields \union {Key} /\ DOMAIN change # {}
       /\ \A f \in DOMAIN change : change[f] \in IF f = Key THEN Pks ELSE Values

VARIABLE records  \* the table: a row or None for every key
recordVars == <<records>>

NoFields == [f \in {} |-> None]

(* MutationPlan: the operation of the named mutation, the record and the   *)
(* fields as they were sent, whichever columns they name.  Without a       *)
(* record, or with nothing to update, a plan only earns an error.          *)
Plan(op, pk, fields) == [operation |-> op, record_pk |-> pk, fields |-> fields]
Plans ==
  {Plan("create", None, fields) : fields \in Changes}
    \union {Plan("update", pk, fields) : pk \in Pks, fields \in Changes}
    \union {Plan("delete", pk, NoFields) : pk \in Pks}

MutationsInit ==
  records = [pk \in Pks |-> IF pk \in Existing THEN [f \in Fields |-> Original] ELSE None]

(* DiffBuilder: the fields the dialog shows.  Those of an update that are  *)
(* what the record held when it was read are left out.                     *)
Held(pk, row, f) == IF f = Key THEN pk ELSE row[f]
Diff(plan, before) ==
  CASE plan.operation = "create" -> DOMAIN plan.fields
    [] plan.operation = "update" -> {f \in DOMAIN plan.fields :
                                       Held(plan.record_pk, before, f) # plan.fields[f]}
    [] plan.operation = "delete" -> Fields \union {Key}

Previewed(plan, before) ==
  Call("previewed", None, plan.record_pk,
       [plan |-> plan, before |-> before, diff |-> Diff(plan, before)])

(* preview_mutation: only an update or a deletion reads the record; of one *)
(* that is not there the answer is an error.                               *)
PreviewMutation(c) ==
  \E plan \in Plans :
    LET before == IF plan.operation = "create" THEN None ELSE records[plan.record_pk] IN
      /\ plan.operation = "create" \/ before # None
      /\ BeginAs(c, None, Previewed(plan, before))
      /\ UNCHANGED records

(* MutationExecutor's answer: a success names a record, the one inserted   *)
(* or the one the plan says.                                               *)
Executed(c, plan, pk) == BeginAs(c, None, Call("executed", None, pk, plan))

(* What writing the given columns makes of a row, and of its key.          *)
NoValues == [f \in Fields |-> None]
Written(fields, row) ==
  [f \in Fields |-> IF f \in DOMAIN fields THEN fields[f] ELSE row[f]]
KeyGiven(fields, pk) == IF Key \in DOMAIN fields THEN fields[Key] ELSE pk

(* _execute_create: columns that are not given are null; the key is one    *)
(* the request gives or the database does.  One that is taken is an error. *)
ExecuteCreate(c, plan) ==
  \E pk \in Pks :
    /\ pk = KeyGiven(plan.fields, pk)
    /\ records[pk] = None
    /\ records' = [records EXCEPT ![pk] = Written(plan.fields, NoValues)]
    /\ Executed(c, plan, pk)

(* variant: the whole row is written back as the dialog showed it          *)
ExecuteUpdate_WholeRow(c, plan) ==
  LET pk == plan.record_pk
      to == KeyGiven(plan.fields, pk)
      shown == calls[c].pc = "previewed" /\ calls[c].id = pk /\ calls[c].arg.before # None
      row == IF shown THEN calls[c].arg.before ELSE records[pk]
  IN
  /\ records[pk] # None /\ to # pk => records[to] = None
  /\ records' = IF records[pk] = None THEN records
                ELSE [records EXCEPT ![pk] = None, ![to] = Written(plan.fields, row)]
  /\ Executed(c, plan, pk)

(* _execute_update: only the columns given, of whatever the row holds now; *)
(* if the key is among them the row moves, to a key no other row has, or   *)
(* the statement fails.  No row of the old key is no error: the answer is  *)
(* a success all the same.                                                 *)
ExecuteUpdate(c, plan) ==
  LET pk == plan.record_pk
      to == KeyGiven(plan.fields, pk)
  IN
  /\ records[pk] # None /\ to # pk => records[to] = None
  /\ records' = IF records[pk] = None THEN records
                ELSE [records EXCEPT ![pk] = None,
                                     ![to] = Written(plan.fields, records[pk])]
  /\ Executed(c, plan, pk)

(* _execute_delete: a success too if the row was gone.                     *)
ExecuteDelete(c, plan) ==
  /\ records' = [records EXCEPT ![plan.record_pk] = None]
  /\ Executed(c, plan, plan.record_pk)

(* MutationExecutor.execute.                                               *)
ExecuteMutation(c) ==
  \E plan \in Plans :
    \/ plan.operation = "create" /\ ExecuteCreate(c, plan)
    \/ plan.operation = "update" /\ ExecuteUpdate(c, plan)
    \/ plan.operation = "delete" /\ ExecuteDelete(c, plan)

(* A statement that fails is rolled back, and only the caller learns of it. *)
MutationStep(c) == PreviewMutation(c) \/ ExecuteMutation(c)
-----------------------------------------------------------------------------
MutationsTypeOK ==
  /\ records \in [Pks -> Row \union {None}]
  /\ \A c \in Clients :
       /\ calls[c].pc \in {"previewed", "executed"} => calls[c].ctx = None
       /\ calls[c].pc = "previewed" => calls[c].id = calls[c].arg.plan.record_pk
       /\ calls[c].pc = "executed" => calls[c].id \in Pks

(* What the executed plan of the call may have done to the record of pk.   *)
(* An update that gives another key takes the record there, and only if    *)
(* there was none.                                                         *)
Touches(call, pk) ==
  LET plan == call.arg
      to == KeyGiven(plan.fields, call.id)
  IN
  CASE plan.operation = "create" -> pk = call.id /\ records[pk] = None
    [] plan.operation = "delete" -> pk = call.id /\ records'[pk] = None
    [] plan.operation = "update" ->
         /\ pk \in {call.id, to} /\ records[call.id] # None
         /\ records'[to] = Written(plan.fields, records[call.id])
         /\ to # call.id => records[to] = None /\ records'[call.id] = None

(* The execution of the update that c has previewed changes a field the    *)
(* dialog did not show only if somebody changed it since the dialog, and   *)
(* takes the record to another key only if the dialog showed the key.      *)
UnshownChangesAreOthers(c) ==
  LET dialog == calls[c].arg
      pk == calls[c].id
      to == KeyGiven(dialog.plan.fields, pk)
  IN
    calls[c].pc = "previewed" /\ calls'[c].pc = "executed" /\ calls'[c].arg = dialog.plan
      /\ dialog.plan.operation = "update" /\ records[pk] # None =>
      /\ to # pk => Key \in dialog.diff
      /\ \A f \in Fields \ dialog.diff :
           records'[to][f] # records[pk][f] => records[pk][f] # dialog.before[f]

(* An execution touches its record only, and of the record an update the   *)
(* fields its plan gives: whatever came between the dialog a user confirms *)
(* and the execution, others' work on the other fields is kept, and no     *)
(* update of a key overwrites the record that has it.  A preview and every *)
(* other request of the workspace change no record.                        *)
MutationsTouchWhatTheyName ==
  [][/\ \A pk \in Pks : records'[pk] # records[pk] =>
          \E c \in Clients : calls'[c].pc = "executed" /\ Touches(calls'[c], pk)
     /\ \A c \in Clients : UnshownChangesAreOthers(c)]_<<records, calls>>
=============================================================================
