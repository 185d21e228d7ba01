------------------------------ MODULE Workspace ------------------------------
(***************************************************************************)
(* The workspace of the users of some tenants: saved views, dashboards,    *)
(* share tokens, schedules, alerts and the records of an entity, used by   *)
(* the same concurrent requests, in a process that may be redeployed.      *)
(***************************************************************************)
EXTENDS SavedViews, Dashboards, ShareTokens, Schedules, Mutations

Services == {"views", "dashboards", "shares", "schedules", "records"}

CONSTANT Bounds  \* bounds: up to which number of requests one of a service is made

ASSUME WorkspaceAssumption == Bounds \subseteq [Services -> Nat]

VARIABLE bound  \* the one of this behaviour

vars == <<bound, reqVars, viewVars, dashVars, tokenVars, schedVars, recordVars>>

Init ==
  /\ bound \in Bounds
  /\ RequestsInit /\ SavedViewsInit /\ DashboardsInit /\ ShareTokensInit /\ SchedulesInit
  /\ MutationsInit

Within(c, service) == Resting(c) => made < bound[service]

(* A request touches the tables of its own service only.                   *)
ViewRequest(c) ==
  /\ Within(c, "views")
  /\ ViewStep(c) /\ UNCHANGED <<dashVars, tokenVars, schedVars, recordVars>>
DashRequest(c) ==
  /\ Within(c, "dashboards")
  /\ DashStep(c) /\ UNCHANGED <<viewVars, tokenVars, schedVars, recordVars>>
TokenRequest(c) ==
  /\ Within(c, "shares")
  /\ TokenStep(c) /\ UNCHANGED <<viewVars, dashVars, schedVars, recordVars>>
SchedRequest(c) ==
  /\ Within(c, "schedules")
  /\ SchedStep(c) /\ UNCHANGED <<viewVars, dashVars, tokenVars, recordVars>>
RecordRequest(c) ==
  /\ Within(c, "records")
  /\ MutationStep(c) /\ UNCHANGED <<viewVars, dashVars, tokenVars, schedVars>>

(* home: the pins, the dashboards and the views, each in a read of its     *)
(* own, of which only the last shows views.                                *)
HomeRead(c) ==
  /\ Within(c, "views")
  /\ \E ctx \in Contexts : Begin(c, Call("home", ctx, None, None))
  /\ UNCHANGED <<viewVars, dashVars, tokenVars, schedVars, recordVars>>
HomeViews(c) ==
  /\ calls[c].pc = "home"
  /\ Goto(c, Shows(calls[c].ctx, Listed(calls[c].ctx, FALSE)))
  /\ UNCHANGED <<viewVars, dashVars, tokenVars, schedVars, recordVars>>

Next ==
  /\ \/ \E c \in Clients : \/ ViewRequest(c) \/ DashRequest(c) \/ TokenRequest(c)
                           \/ SchedRequest(c) \/ RecordRequest(c)
                           \/ HomeRead(c) \/ HomeViews(c)
     \/ Expire /\ UNCHANGED <<viewVars, dashVars, schedVars, recordVars>>
     \/ Deploy /\ UNCHANGED <<dashVars, tokenVars, schedVars, recordVars>>
  /\ UNCHANGED bound

Spec == Init /\ [][Next]_vars
-----------------------------------------------------------------------------
(* Every variable has its type.                                            *)
TypeOK ==
  /\ ViewsTypeOK /\ DashboardsTypeOK /\ TokensTypeOK /\ SchedulesTypeOK
  /\ MutationsTypeOK
  /\ bound \in Bounds
  /\ made \in 0..MaxCalls /\ by \in Contexts \union {None}
  /\ \A c \in Clients : calls[c].ctx \in Contexts \union {None}

(* No two rows of one user share a name, no two pins a source, although    *)
(* creations race and one that raises has left its row behind.             *)
NamesUnique ==
  /\ \A v, w \in ViewIds : v # w /\ views[v] # None /\ views[w] # None =>
       <<views[v].owner, views[v].name>> # <<views[w].owner, views[w].name>>
  /\ \A d, e \in DashIds : d # e /\ dashes[d] # None /\ dashes[e] # None =>
       <<dashes[d].owner, dashes[d].name>> # <<dashes[e].owner, dashes[e].name>>
  /\ \A p, q \in PinIds : p # q /\ pins[p] # None => pins[p] # pins[q]

(* A run that was fired is one of a schedule its user owned.               *)
RunsOfOwners ==
  \A r \in RunIds : runs[r] # None =>
    LET s == schedules[runs[r].schedule] IN s # None => s.owner = runs[r].by

(* The tables agree with each other: names, tiles and their dashboards,    *)
(* layouts, runs and their schedules.                                      *)
TablesConsistent == NamesUnique /\ TilesHaveDashboards /\ ArrangedLayoutsFit /\ RunsOfOwners

Acts(user) == by' # None /\ by'.user = user
RowOf(old, new) == IF old = None THEN new ELSE old
(* The row comes, goes or changes only in a step of its owner, who stays.  *)
ChangesForOwner(old, new) ==
  old # new => Acts(RowOf(old, new).owner) /\ (old # None /\ new # None => new.owner = old.owner)

(* A tile stays where it is, and changes for the owner of its dashboard;   *)
(* or all the tiles of the dashboard go at once, for anybody.              *)
TileChanges(t) ==
  LET old == tiles[t]
      dash == RowOf(old, tiles'[t]).dash
  IN
  \/ /\ dashes[dash] # None /\ Acts(dashes[dash].owner)
     /\ old # None /\ tiles'[t] # None => tiles'[t].dash = dash
  \/ old # None /\ \A s \in TileIds : tiles[s] # None /\ tiles[s].dash = dash => tiles'[s] = None

(* A pin comes and goes for its user, and a share token too; an access and *)
(* the clock change nothing but its count and its expiry.                  *)
ComesOrGoes(old, new) == (old = None \/ new = None) /\ Acts(RowOf(old, new).user)
TokenChanges(old, new) ==
  \/ ComesOrGoes(old, new)
  \/ /\ old # None /\ new # None /\ (old.expired => new.expired)
     /\ new = [old EXCEPT !.count = new.count, !.expired = new.expired]

(* However requests interleave, a row changes in a step of its owner only. *)
(* Three exceptions are in the code: an execution marks a view stale, the  *)
(* deletion of a dashboard removes its tiles even if the dashboard stays,  *)
(* and a resolve counts an access, all of them for anybody.                *)
RowsChangeForTheirOwner ==
  [][/\ \A v \in ViewIds :
          \/ ChangesForOwner(views[v], views'[v])
          \/ /\ views[v] # None
             /\ views'[v] = [views[v] EXCEPT !.stale = TRUE]
     /\ \A d \in DashIds : ChangesForOwner(dashes[d], dashes'[d])
     /\ \A t \in TileIds : tiles'[t] # tiles[t] => TileChanges(t)
     /\ \A p \in PinIds : pins'[p] # pins[p] => ComesOrGoes(pins[p], pins'[p])
     /\ \A k \in TokenIds : tokens'[k] # tokens[k] => TokenChanges(tokens[k], tokens'[k])
     /\ \A s \in ScheduleIds : ChangesForOwner(schedules[s], schedules'[s])
     /\ \A a \in AlertIds : ChangesForOwner(alerts[a], alerts'[a])]_vars
=============================================================================
