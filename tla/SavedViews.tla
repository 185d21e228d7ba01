----------------------------- MODULE SavedViews -----------------------------
(***************************************************************************)
(* Saved views: a plan kept under a name, private to its owner or shared   *)
(* with the tenant, with the hash of the skills it was saved under.        *)
(* Executing a view whose skills have changed marks it stale.              *)
(***************************************************************************)
EXTENDS Requests

CONSTANTS
  ViewIds,    \* uuids of rows, each used once
  ViewNames,
  Skills,     \* hashes of skill registries
  MaxDeploys  \* bound: how often the process restarts with other skills

View == [owner : Users, tenant : Tenants, name : ViewNames, shared : BOOLEAN,
         hash : Skills, stale : BOOLEAN]

ASSUME SavedViewsAssumption == MaxDeploys \in Nat /\ None \notin View

VARIABLES
  views,       \* dui_saved_view: the row of each id, None for no row
  viewsUsed,   \* the uuids given out
  skills,      \* compute_skill_hash of the running process
  deploys,
  everShared,  \* history: views that were shared at some time
  drifted      \* history: views whose drift an execution has recorded

viewVars == <<views, viewsUsed, skills, deploys, everShared, drifted>>

SavedViewsInit ==
  /\ views = [v \in ViewIds |-> None]
  /\ viewsUsed = {} /\ everShared = {} /\ drifted = {}
  /\ skills \in Skills
  /\ deploys = 0

(* get: the row of this tenant, when it is the caller's or shared.         *)
Visible_AnyRow(ctx, v) == views[v] # None  \* variant: by id and tenant only
                          /\ views[v].tenant = ctx.tenant
Visible(ctx, v) ==
  /\ views[v] # None
  /\ views[v].tenant = ctx.tenant
  /\ views[v].owner = ctx.user \/ views[v].shared

OwnView_AnyRow(ctx, v) == views[v] # None  \* variant: by id and tenant only
                          /\ views[v].tenant = ctx.tenant
(* The WHERE clause of the writes.                                         *)
OwnView(ctx, v) ==
  views[v] # None /\ views[v].owner = ctx.user /\ views[v].tenant = ctx.tenant

(* uq_dui_saved_view_owner_name: one name per owner, whatever the tenant.  *)
FreeViewName(user, name, v) ==
  \A w \in ViewIds \ {v} :
    views[w] # None => <<views[w].owner, views[w].name>> # <<user, name>>

(* An INSERT or UPDATE that meets the constraint raises, and the request   *)
(* ends with the rows as they were.                                        *)
WriteView(v, row) ==
  /\ views' = [views EXCEPT ![v] = row]
  /\ everShared' = everShared \union (IF row.shared THEN {v} ELSE {})

(* create: the row is committed under the current skills; the read-back    *)
(* that follows lacks its tenant and raises, so no creation is answered.   *)
CreateView(c) ==
  \E ctx \in Contexts : \E v \in ViewIds \ viewsUsed :
    \E name \in ViewNames : \E shared \in BOOLEAN :
      /\ Once(c, ctx)
      /\ viewsUsed' = viewsUsed \union {v}
      /\ IF FreeViewName(ctx.user, name, v)
         THEN WriteView(v, [owner |-> ctx.user, tenant |-> ctx.tenant, name |-> name,
                            shared |-> shared, hash |-> skills, stale |-> FALSE])
         ELSE UNCHANGED <<views, everShared>>
      /\ UNCHANGED <<skills, deploys, drifted>>

(* get, list and home: 404 is no answer.                                   *)
GetView(c) ==
  \E ctx \in Contexts : \E v \in viewsUsed :
    /\ Visible(ctx, v)
    /\ Begin(c, Shows(ctx, {v}))
    /\ UNCHANGED viewVars

Listed(ctx, shared) ==
  {v \in ViewIds : /\ views[v] # None /\ views[v].tenant = ctx.tenant
                   /\ views[v].owner = ctx.user \/ (shared /\ views[v].shared)}
ListViews(c) ==
  \E ctx \in Contexts : \E shared \in BOOLEAN :
    /\ Begin(c, Shows(ctx, Listed(ctx, shared)))
    /\ UNCHANGED viewVars

(* update: only the columns that are given, only in the owner's row; then  *)
(* get, whose 404 nothing catches.  No such row is not an error of the     *)
(* UPDATE, so who may see a view gets it back unchanged.                   *)
UpdateView(c) ==
  \E ctx \in Contexts : \E v \in viewsUsed :
    \E name \in ViewNames \union {None} : \E shared \in BOOLEAN \union {None} :
      LET row == views[v]
          new == [owner |-> row.owner, tenant |-> row.tenant, name |-> Given(name, row.name),
                  shared |-> Given(shared, row.shared), hash |-> row.hash,
                  stale |-> row.stale]
      IN
      /\ \/ /\ OwnView(ctx, v) /\ FreeViewName(ctx.user, new.name, v)
            /\ WriteView(v, new)
            /\ Begin(c, Call("view_get", ctx, v, None))
         \/ /\ OwnView(ctx, v) /\ ~FreeViewName(ctx.user, new.name, v)
            /\ Once(c, ctx)
            /\ UNCHANGED <<views, everShared>>
         \/ /\ ~OwnView(ctx, v)
            /\ Begin(c, Call("view_get", ctx, v, None))
            /\ UNCHANGED <<views, everShared>>
      /\ UNCHANGED <<viewsUsed, skills, deploys, drifted>>

UpdateViewGet(c) ==
  LET call == calls[c] IN
  /\ call.pc = "view_get"
  /\ IF Visible(call.ctx, call.id) THEN Goto(c, Shows(call.ctx, {call.id})) ELSE Return(c)
  /\ UNCHANGED viewVars

(* delete: 204 whether or not the caller has such a row.                   *)
DeleteView(c) ==
  \E ctx \in Contexts : \E v \in viewsUsed :
    /\ Once(c, ctx)
    /\ views' = IF OwnView(ctx, v) THEN [views EXCEPT ![v] = None] ELSE views
    /\ UNCHANGED <<viewsUsed, skills, deploys, everShared, drifted>>

(* ------------------------------- execute -------------------------------- *)

(* execute: get, then compare the hashes.  arg is the row's flag as it was *)
(* read, and whether its drift was on record by then.  A plan of an entity *)
(* the registry does not have (nothing checks it before) is a 404.         *)
ExecuteRead(c) ==
  \E ctx \in Contexts : \E v \in viewsUsed :
    /\ Visible(ctx, v)
    /\ \/ Begin(c, Call(IF views[v].hash # skills THEN "view_mark" ELSE "view_run",
                        ctx, v, [stale |-> views[v].stale, known |-> v \in drifted]))
       \/ Once(c, ctx)
    /\ UNCHANGED viewVars

ExecuteMark_Forget(c) ==  \* variant: the flag reaches only the owner's row
  LET call == calls[c] IN
  /\ call.pc = "view_mark"
  /\ views' = IF OwnView(call.ctx, call.id)
              THEN [views EXCEPT ![call.id] = [@ EXCEPT !.stale = TRUE]] ELSE views
  /\ drifted' = drifted \union {call.id}
  /\ Goto(c, [call EXCEPT !.pc = "view_run"])
  /\ UNCHANGED <<viewsUsed, skills, deploys, everShared>>
(* _mark_stale: by id, whoever owns the row by now; nothing if it is gone. *)
ExecuteMark(c) ==
  LET call == calls[c] IN
  /\ call.pc = "view_mark"
  /\ views' = IF views[call.id] = None THEN views
              ELSE [views EXCEPT ![call.id] = [@ EXCEPT !.stale = TRUE]]
  /\ drifted' = drifted \union {call.id}
  /\ Goto(c, [call EXCEPT !.pc = "view_run"])
  /\ UNCHANGED <<viewsUsed, skills, deploys, everShared>>

(* Verification (ResolvePipeline has its parts) and execution: a failed    *)
(* execution is answered without the flag, a verification that raises is   *)
(* not answered; a result carries the flag as it was read at the start.    *)
ExecuteAnswer(c) ==
  LET call == calls[c] IN
  /\ call.pc = "view_run"
  /\ \/ Goto(c, Answered(call.ctx, {call.id}, call.arg.stale, call.arg.known))
     \/ Return(c)
  /\ UNCHANGED viewVars

ViewStep(c) ==
  \/ CreateView(c) \/ GetView(c) \/ ListViews(c) \/ UpdateView(c) \/ UpdateViewGet(c)
  \/ DeleteView(c) \/ ExecuteRead(c) \/ ExecuteMark(c) \/ ExecuteAnswer(c)

(* A new process, with the skill files as they are now.                    *)
Deploy ==
  /\ deploys < MaxDeploys
  /\ deploys' = deploys + 1
  /\ skills' \in Skills
  /\ StopRequests
  /\ UNCHANGED <<views, viewsUsed, everShared, drifted>>
-----------------------------------------------------------------------------
ViewsTypeOK ==
  /\ views \in [ViewIds -> View \union {None}]
  /\ viewsUsed \subseteq ViewIds
  /\ skills \in Skills /\ deploys \in 0..MaxDeploys
  /\ everShared \subseteq viewsUsed /\ drifted \subseteq viewsUsed

(* What is answered to a user is a view of the user's own, or one that was *)
(* shared at some time: an execution, an edit or a list that overlaps a    *)
(* change of is_shared shows nobody a view that was always private.        *)
AnswersVisible ==
  \A c \in Clients : calls[c].pc = "answered" =>
    \A v \in calls[c].arg.ids : views[v] # None =>
      /\ views[v].tenant = calls[c].ctx.tenant
      /\ v \in everShared \/ views[v].owner = calls[c].ctx.user

(* "Schema changed: mark stale and surface to UI": the execution that      *)
(* finds the drift still answers with the old flag, but every result of an *)
(* execution that starts after it was recorded says stale, whatever was    *)
(* edited, and whichever skills run, in between.  An execution that fails  *)
(* has no result and says nothing of the view.                             *)
DriftSurfaces ==
  \A c \in Clients : calls[c].pc = "answered" => (calls[c].arg.known => calls[c].arg.stale)
=============================================================================
