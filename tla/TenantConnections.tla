-------------------------- MODULE TenantConnections --------------------------
(***************************************************************************)
(* The tenants' database connections: /admin/connections.  Each call is a  *)
(* coroutine that awaits every statement and the connectivity tester, so   *)
(* what a call has read may be out of date at its next step.  A row's      *)
(* credentials, host and options are a version number: what a test or a    *)
(* scaffolder connects with.                                               *)
(***************************************************************************)
EXTENDS Integers, FiniteSets

CONSTANTS
  Clients,   \* admins, each with one call under way at most
  Tenants, Names,
  Ids,       \* uuids, each used once
  MaxCred,   \* bound: credential versions of a connection
  None

Statuses == {"untested", "ok", "error"}
Row == [tenant : Tenants, name : Names, cred : 0..MaxCred, status : Statuses]

ASSUME ConnectionAssumption ==
  /\ MaxCred \in Nat
  /\ None \notin Tenants \union Names \union Ids \union Row

VARIABLES
  conns,   \* tenant_db_connections: the row of each id, None for no row
  issued,  \* the uuids given out
  calls,   \* what each client's call is doing
  tested   \* history: what testers answered, per connection

connVars == <<conns, issued, calls, tested>>

Rows(tenant) == {i \in Ids : conns[i] # None /\ conns[i].tenant = tenant}
Named(tenant, name) == {i \in Rows(tenant) : conns[i].name = name}

(* The row a DAO method finds: the id alone is not enough.                 *)
Owned_ById(tenant, id) == id \in Ids /\ conns[id] # None  \* variant: no tenant filter
Owned(tenant, id) == id \in Rows(tenant)

Idle == [pc |-> "idle", tenant |-> None, id |-> None, name |-> None, cred |-> None]
Call(pc, tenant, id, name, cred) ==
  [pc |-> pc, tenant |-> tenant, id |-> id, name |-> name, cred |-> cred]
Goto(c, call) == calls' = [calls EXCEPT ![c] = call]
Return(c) == Goto(c, Idle)

ConnInit ==
  /\ conns = [i \in Ids |-> None]
  /\ issued = {}
  /\ calls = [c \in Clients |-> Idle]
  /\ tested = [i \in Ids |-> {}]

(* -------------------------------- create -------------------------------- *)

(* A name in use is refused with a 409, which changes nothing.             *)
CreateCheck(c) ==
  /\ calls[c].pc = "idle"
  /\ \E tenant \in Tenants, name \in Names :
       /\ Named(tenant, name) = {}
       /\ Goto(c, Call("insert", tenant, None, name, 0))
  /\ UNCHANGED <<conns, issued, tested>>

Free_Always(tenant, name, id) == TRUE  \* variant: no unique constraint
(* uq_tenant_db_connections_tenant_name: the name is free for this row.    *)
Free(tenant, name, id) == Named(tenant, name) \subseteq {id}

(* The table's unique constraint has the last word on the name.  The new   *)
(* row is read back; if it is gone by then, the call raises.               *)
CreateInsert(c) ==
  LET call == calls[c] IN
  /\ call.pc = "insert"
  /\ \/ /\ ~Free(call.tenant, call.name, None)
        /\ UNCHANGED <<conns, issued>>
     \/ /\ Free(call.tenant, call.name, None)
        /\ \E id \in Ids \ issued :
             /\ conns' = [conns EXCEPT ![id] =
                  [tenant |-> call.tenant, name |-> call.name, cred |-> 0,
                   status |-> "untested"]]
             /\ issued' = issued \union {id}
  /\ Return(c)
  /\ UNCHANGED tested

(* -------------------------------- update -------------------------------- *)

(* A new name is compared with the tenant's others; new credentials make a *)
(* new version.                                                            *)
UpdateCheck(c) ==
  /\ calls[c].pc = "idle"
  /\ \E tenant \in Tenants, id \in issued, name \in Names \union {None}, new \in {0, 1} :
       /\ name # None \/ new = 1
       /\ name # None => Named(tenant, name) \subseteq {id}
       /\ Goto(c, Call("update", tenant, id, name, new))
  /\ UNCHANGED <<conns, issued, tested>>

(* One UPDATE writes what was given, and leaves the test's status alone.   *)
(* No row is a 404; a name another call has taken meanwhile, an error.     *)
UpdateWrite(c) ==
  LET call == calls[c]
      old == conns[call.id]
      name == IF call.name = None THEN old.name ELSE call.name
  IN
  /\ call.pc = "update"
  /\ \/ /\ ~Owned(call.tenant, call.id)
        /\ UNCHANGED conns
     \/ /\ Owned(call.tenant, call.id) /\ ~Free(call.tenant, name, call.id)
        /\ UNCHANGED conns
     \/ /\ Owned(call.tenant, call.id) /\ Free(call.tenant, name, call.id)
        /\ old.cred + call.cred <= MaxCred
        /\ conns' = [conns EXCEPT ![call.id] =
             [tenant |-> old.tenant, name |-> name, cred |-> old.cred + call.cred,
              status |-> old.status]]
  /\ Return(c)
  /\ UNCHANGED <<issued, tested>>

(* -------------------------------- delete -------------------------------- *)

Delete(c) ==
  /\ calls[c].pc = "idle"
  /\ \E tenant \in Tenants : \E id \in Rows(tenant) : conns' = [conns EXCEPT ![id] = None]
  /\ UNCHANGED <<issued, calls, tested>>

(* ---------------------------------- test -------------------------------- *)

(* The row is read and decrypted, and the tester awaited with it.  An      *)
(* adapter kind without a tester changes nothing.                          *)
TestRead(c) ==
  /\ calls[c].pc = "idle"
  /\ \E tenant \in Tenants : \E id \in issued :
       /\ Owned(tenant, id)
       /\ Goto(c, Call("test", tenant, id, None, conns[id].cred))
  /\ UNCHANGED <<conns, issued, tested>>

Stored_Ok(row, call, status) == [row EXCEPT !.status = "ok"]  \* variant: result.ok ignored
Stored(row, call, status) == [row EXCEPT !.status = status]

(* The result is recorded for the connection, whatever its credentials are *)
(* by now; a deleted row is not found.                                     *)
TestRecord(c) ==
  LET call == calls[c] IN
  /\ call.pc = "test"
  /\ \E status \in {"ok", "error"} :
       /\ tested' = [tested EXCEPT ![call.id] = @ \union {status}]
       /\ conns' = IF Owned(call.tenant, call.id)
                     THEN [conns EXCEPT ![call.id] = Stored(@, call, status)] ELSE conns
  /\ Return(c)
  /\ UNCHANGED issued

(* A statement or the tester of any call raises: an error, nothing written *)
(* (a commit that went through unseen leaves what the step that succeeds   *)
(* leaves).                                                                *)
CallRaises(c) ==
  /\ calls[c].pc # "idle"
  /\ Return(c)
  /\ UNCHANGED <<conns, issued, tested>>

(* Everything but Delete, whose cascade other tables see.                  *)
CallStep(c) ==
  \/ CreateCheck(c) \/ CreateInsert(c)
  \/ UpdateCheck(c) \/ UpdateWrite(c)
  \/ TestRead(c) \/ TestRecord(c)
  \/ CallRaises(c)

ConnNext == \E c \in Clients : CallStep(c) \/ Delete(c)
ConnSpec == ConnInit /\ [][ConnNext]_connVars
-----------------------------------------------------------------------------
(* Every variable has its type, a row's id has been given out, and a       *)
(* tenant's connection names differ, although two calls may both have      *)
(* found the name free.                                                    *)
ConnTypeOK ==
  /\ conns \in [Ids -> Row \union {None}]
  /\ issued \subseteq Ids
  /\ \A i \in Ids : conns[i] # None => i \in issued
  /\ tested \in [Ids -> SUBSET {"ok", "error"}]
  /\ \A i, j \in Ids : conns[i] # None /\ conns[j] # None =>
       (conns[i].tenant = conns[j].tenant /\ conns[i].name = conns[j].name => i = j)

(* A connection's status is what a tester answered for this connection,    *)
(* whatever was renamed, deleted or tested meanwhile.                      *)
StatusComesFromTest ==
  \A i \in Ids : conns[i] # None => conns[i].status \in tested[i] \union {"untested"}

(* "Cross-tenant access is impossible by construction": a row is changed   *)
(* by a call made for its own tenant only; and new credentials are never   *)
(* lost to a call that read the row before.                                *)
RowsChangeForTheirTenant ==
  [][\A i \in Ids : conns[i] # None /\ conns'[i] \notin {None, conns[i]} =>
       /\ conns[i].cred <= conns'[i].cred
       /\ \E c \in Clients : /\ calls[c].pc \in {"update", "test"}
                             /\ calls'[c].pc = "idle"
                             /\ calls[c].id = i /\ calls[c].tenant = conns[i].tenant]_connVars
=============================================================================
