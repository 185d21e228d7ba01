------------------------------ MODULE Requests ------------------------------
(***************************************************************************)
(* The HTTP requests of the workspace: who makes them and where the        *)
(* coroutine of each stands.  A client makes one request at a time; a      *)
(* request belongs to a user in one tenant (get_current_context).  The     *)
(* modules of the tables extend this one and cut a handler at its awaits.  *)
(***************************************************************************)
EXTENDS Naturals, FiniteSets

CONSTANTS
  Clients,   \* coroutines that may be under way at once
  Contexts,  \* AuthContext: records of a user and a tenant
  MaxCalls,  \* bound: how many requests are made
  None       \* null

ASSUME RequestsAssumption ==
  /\ MaxCalls \in Nat
  /\ \A ctx \in Contexts : DOMAIN ctx = {"user", "tenant"}
  /\ None \notin Contexts

VARIABLES
  calls,  \* what each client's request is doing and holds in its locals
  made,   \* how many requests have been made
  by      \* history: the context of the request that took the last step

reqVars == <<calls, made, by>>

Users == {ctx.user : ctx \in Contexts}
Tenants == {ctx.tenant : ctx \in Contexts}

(* A request: its next step, its context, the row it is about and what it  *)
(* carries from one await to the next.                                     *)
Call(pc, ctx, id, arg) == [pc |-> pc, ctx |-> ctx, id |-> id, arg |-> arg]
Idle == Call("idle", None, None, None)

RequestsInit ==
  /\ calls = [c \in Clients |-> Idle]
  /\ made = 0
  /\ by = None

Goto(c, call) ==
  calls' = [calls EXCEPT ![c] = call] /\ by' = calls[c].ctx /\ UNCHANGED made
Return(c) == Goto(c, Idle)

(* A new request, once the client has read the answer of the last one: it  *)
(* leaves call to be done, nothing if it had but one await (Once).         *)
Resting(c) == calls[c].pc \in {"idle", "answered", "previewed", "executed"}
BeginAs(c, ctx, call) ==
  /\ Resting(c)
  /\ made < MaxCalls
  /\ made' = made + 1 /\ by' = ctx
  /\ calls' = [calls EXCEPT ![c] = call]
Begin(c, call) == BeginAs(c, call.ctx, call)
Once(c, ctx) == BeginAs(c, ctx, Idle)

(* The answer of a request that shows saved views: which, whether it calls *)
(* the view stale, and what was known of its drift when it was read.       *)
Answered(ctx, ids, stale, known) ==
  Call("answered", ctx, None, [ids |-> ids, stale |-> stale, known |-> known])
Shows(ctx, ids) == Answered(ctx, ids, FALSE, FALSE)

(* A column of an UPDATE: what the request gives for it, or what it held.  *)
Given(new, old) == IF new = None THEN old ELSE new

(* The process stops: no request is left, every row stays.                 *)
StopRequests == calls' = [c \in Clients |-> Idle] /\ by' = None /\ UNCHANGED made
=============================================================================
