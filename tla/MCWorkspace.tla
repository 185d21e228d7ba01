----------------------------- MODULE MCWorkspace -----------------------------
(* Workspace for TLC: two users of one tenant, one of them in two tenants, *)
(* three layouts and two cron expressions.                                 *)
EXTENDS Workspace, TLC

CONSTANTS u1, u2, t1, t2, pk1, pk2

MCContexts == {[user |-> u1, tenant |-> t1], [user |-> u2, tenant |-> t1],
               [user |-> u2, tenant |-> t2]}
Rect(x, y, w, h) == [x |-> x, y |-> y, w |-> w, h |-> h]
(* Two tiles side by side in whole cells, that overlap by a fraction, and  *)
(* two that overlap.                                                       *)
MCLayouts == {<<Rect(0, 0, 49, 20), Rect(40, 0, 80, 10)>>,
              <<Rect(0, 0, 40, 20), Rect(25, 10, 30, 30)>>}
MCCrons == {[fields |-> 5, minute |-> "at", step |-> 0],
            [fields |-> 5, minute |-> "step", step |-> 5]}
MCChanges == {"f1" :> "new", "f2" :> "new", "pk" :> pk2}

(* Two requests of any services, or more of one: no step reads the tables  *)
(* of two services.                                                        *)
Only(service, n) == [s \in Services |-> IF s = service THEN n ELSE 0]
MCBounds == {[s \in Services |-> 2], Only("views", 4), Only("dashboards", 4),
             Only("shares", 4), Only("schedules", 3), Only("records", 3)}

Symmetry == Permutations(Clients) \union Permutations(ViewIds) \union Permutations(Skills)
=============================================================================
