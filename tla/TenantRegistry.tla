--------------------------- MODULE TenantRegistry ---------------------------
(***************************************************************************)
(* The tenant YAML registry: the four resource tables of every tenant, the *)
(* bounded LRU cache of parsed views in front of them, and concurrent      *)
(* clients that edit entries and read views.  A view is loaded outside the *)
(* cache lock, one query per resource type; an edit commits, reads its row *)
(* back and then invalidates the tenant's view.  Every statement runs at   *)
(* READ COMMITTED and every await ends an action; the lock sections of the *)
(* cache hold no await, so each is one action.                             *)
(***************************************************************************)
EXTENDS Integers, Sequences, SequencesExt

CONSTANTS
  Tenants, Names,
  Types,        \* the resource types, in the order RESOURCE_TABLES lists them
  Clients,      \* concurrent requests
  MaxSize,      \* registry_cache_size
  MaxEdits,     \* bound: writes committed in a behaviour
  MayFail,      \* whether a query may fail and the process may restart
  NoRow, NoTenant, NoView

TypeSet == {Types[i] : i \in 1..Len(Types)}

ASSUME RegistryAssumption ==
  /\ Types \in Seq(STRING)
  /\ MaxSize \in Nat \ {0} /\ MaxEdits \in Nat /\ MayFail \in BOOLEAN
  /\ NoRow \notin [id : Nat, content : Nat] /\ NoRow \notin Nat
  /\ NoTenant \notin Tenants
  /\ NoView \notin [TypeSet -> [Names -> Nat \union {NoRow}]]

VARIABLES
  db,       \* db[t][type][name]: the row, its id and its parsed content
  order,    \* OrderedDict keys, least recently used first
  views,    \* OrderedDict values
  recency,  \* history: every tenant accessed, most recent last
  tainted,  \* history: the cached view missed an edit, or its invalidation
  req,      \* what each client is doing
  edits     \* writes committed; numbers contents and row ids

vars == <<db, order, views, recency, tainted, req, edits>>

Rows  == [id : Nat, content : Nat]
Views == [TypeSet -> [Names -> Nat \union {NoRow}]]

ListForTenant_Sparse(t, type) ==  \* variant: a view without its missing entries
  [n \in {m \in Names : db[t][type][m] # NoRow} |-> db[t][type][n].content]

(* list_for_tenant: the parsed contents of one resource type of a tenant.  *)
ListForTenant(t, type) ==
  [n \in Names |-> IF db[t][type][n] = NoRow THEN NoRow
                                             ELSE db[t][type][n].content]
CurrentView(t) == [type \in TypeSet |-> ListForTenant(t, type)]

EmptyView == [type \in TypeSet |-> [n \in Names |-> NoRow]]

(* A client: the tenant it works on; of an edit the entry and the row id   *)
(* its SELECT found; of a load the view so far, the next type to query and *)
(* whether the tenant was edited meanwhile (history).                      *)
Phases == {"idle", "write", "readback", "invalidate", "load", "insert"}
Request == [pc : Phases, tenant : Tenants \union {NoTenant},
            type : TypeSet \union {NoRow}, name : Names \union {NoRow}, found : Nat \union {NoRow},
            view : Views, next : Nat, dirty : BOOLEAN]
Idle == [pc |-> "idle", tenant |-> NoTenant, type |-> NoRow, name |-> NoRow,
         found |-> NoRow, view |-> EmptyView, next |-> 1, dirty |-> FALSE]

Init ==
  /\ db = [t \in Tenants |-> [type \in TypeSet |-> [n \in Names |-> NoRow]]]
  /\ order = <<>> /\ recency = <<>>
  /\ views = [t \in Tenants |-> NoView]
  /\ tainted = [t \in Tenants |-> FALSE]
  /\ req = [c \in Clients |-> Idle]
  /\ edits = 0

(* ------------------------- TenantRegistryCache ------------------------- *)

Without(s, t) ==
  IF t \in ToSet(s) THEN RemoveAt(s, CHOOSE i \in 1..Len(s) : s[i] = t) ELSE s

MoveToEnd_Stays(s, t) == IF t \in ToSet(s) THEN s ELSE Append(s, t)  \* variant: FIFO
MoveToEnd(s, t) == Append(Without(s, t), t)

(* get, first section: a hit is answered from the cache.                   *)
GetHit(c, t) ==
  /\ req[c].pc = "idle" /\ views[t] # NoView
  /\ order' = MoveToEnd(order, t)
  /\ recency' = Append(Without(recency, t), t)
  /\ UNCHANGED <<db, views, tainted, req, edits>>

(* A miss starts build_view, outside the lock.                             *)
GetMiss(c, t) ==
  /\ req[c].pc = "idle" /\ views[t] = NoView
  /\ req' = [req EXCEPT ![c] = [Idle EXCEPT !.pc = "load", !.tenant = t]]
  /\ UNCHANGED <<db, order, views, recency, tainted, edits>>

(* build_view lists one resource type after the other.                     *)
LoadType(c) ==
  LET q == req[c] IN
  /\ q.pc = "load" /\ q.next <= Len(Types)
  /\ req' = [req EXCEPT ![c] =
       [q EXCEPT !.view[Types[q.next]] = ListForTenant(q.tenant, Types[q.next]),
                 !.next = q.next + 1,
                 !.pc = IF q.next = Len(Types) THEN "insert" ELSE "load"]]
  /\ UNCHANGED <<db, order, views, recency, tainted, edits>>

(* At most one view has to go, since one is inserted at a time.            *)
Evict_Never(s) == s  \* variant: the bound is not enforced
Evict(s) == IF Len(s) > MaxSize THEN Tail(s) ELSE s

(* get, second section: the loaded view replaces whatever the cache holds  *)
(* and the least recently used views go while it is too large.             *)
Insert(c) ==
  LET t    == req[c].tenant
      kept == Evict(MoveToEnd(order, t))
  IN
  /\ req[c].pc = "insert"
  /\ order' = kept
  /\ views' = [u \in Tenants |-> IF u \notin ToSet(kept) THEN NoView
                                 ELSE IF u = t THEN req[c].view ELSE views[u]]
  /\ recency' = Append(Without(recency, t), t)
  /\ tainted' = [tainted EXCEPT ![t] = req[c].dirty]
  /\ req' = [req EXCEPT ![c] = Idle]
  /\ UNCHANGED <<db, edits>>

(* ---------------------- RegistryService edits --------------------------- *)

(* Loads of the tenant under way miss an edit committed now.               *)
Dirtied(r, t) ==
  [c \in Clients |-> IF r[c].tenant = t /\ r[c].pc \in {"load", "insert"}
                       THEN [r[c] EXCEPT !.dirty = TRUE] ELSE r[c]]

(* dao.upsert: the transaction's SELECT of the row id.                     *)
UpsertSelect(c, t, type, n) ==
  /\ req[c].pc = "idle" /\ edits < MaxEdits
  /\ req' = [req EXCEPT ![c] =
       [Idle EXCEPT !.pc = "write", !.tenant = t, !.type = type, !.name = n,
          !.found = IF db[t][type][n] = NoRow THEN NoRow ELSE db[t][type][n].id]]
  /\ UNCHANGED <<db, order, views, recency, tainted, edits>>

(* Its INSERT or UPDATE, and the commit.  An INSERT of a name that another *)
(* request has inserted meanwhile fails on the unique constraint; an       *)
(* UPDATE of a row that is gone matches nothing.                           *)
UpsertWrite(c) ==
  LET q == req[c]
      row == db[q.tenant][q.type][q.name]
      id  == IF row = NoRow THEN NoRow ELSE row.id
      written == [id |-> IF id = NoRow THEN edits + 1 ELSE id, content |-> edits + 1]
  IN
  /\ q.pc = "write"
  /\ \/ /\ id = q.found
        /\ db' = [db EXCEPT ![q.tenant][q.type][q.name] = written]
        /\ edits' = edits + 1
        /\ req' = [Dirtied(req, q.tenant) EXCEPT ![c].pc = "readback"]
     \/ /\ id # q.found /\ q.found = NoRow
        /\ req' = [req EXCEPT ![c] = Idle]
        /\ UNCHANGED <<db, edits>>
     \/ /\ id # q.found /\ q.found # NoRow
        /\ req' = [req EXCEPT ![c].pc = "readback"]
        /\ UNCHANGED <<db, edits>>
  /\ UNCHANGED <<order, views, recency, tainted>>

(* The row is read back after the commit; if it is gone, or the query      *)
(* fails, the request ends with an error and nothing is invalidated.       *)
UpsertReadback(c) ==
  LET t == req[c].tenant IN
  /\ req[c].pc = "readback"
  /\ \/ /\ db[t][req[c].type][req[c].name] # NoRow
        /\ req' = [req EXCEPT ![c].pc = "invalidate"]
        /\ UNCHANGED tainted
     \/ /\ db[t][req[c].type][req[c].name] = NoRow \/ MayFail
        /\ req' = [req EXCEPT ![c] = Idle]
        /\ tainted' = [tainted EXCEPT ![t] = TRUE]
  /\ UNCHANGED <<db, order, views, recency, edits>>

(* dao.delete commits; a delete that matches no row ends with not found.   *)
Delete(c, t, type, n) ==
  /\ req[c].pc = "idle" /\ edits < MaxEdits
  /\ db[t][type][n] # NoRow
  /\ db' = [db EXCEPT ![t][type][n] = NoRow]
  /\ edits' = edits + 1
  /\ req' = [Dirtied(req, t) EXCEPT ![c] =
               [Idle EXCEPT !.pc = "invalidate", !.tenant = t]]
  /\ UNCHANGED <<order, views, recency, tainted>>

Invalidate_Other(c) ==  \* variant: drops the least recently used view instead
  /\ req[c].pc = "invalidate"
  /\ order' = IF order = <<>> THEN order ELSE Tail(order)
  /\ views' = [t \in Tenants |-> IF t \in ToSet(order') THEN views[t] ELSE NoView]
  /\ req' = [req EXCEPT ![c] = Idle]
  /\ UNCHANGED <<db, recency, tainted, edits>>

(* cache.invalidate drops the tenant's view.                               *)
Invalidate(c) ==
  LET t == req[c].tenant IN
  /\ req[c].pc = "invalidate"
  /\ order' = Without(order, t)
  /\ views' = [views EXCEPT ![t] = NoView]
  /\ req' = [req EXCEPT ![c] = Idle]
  /\ UNCHANGED <<db, recency, tainted, edits>>

(* The process restarts: the cache and every request are gone.             *)
Restart ==
  /\ MayFail
  /\ order' = <<>> /\ recency' = <<>>
  /\ views' = [t \in Tenants |-> NoView]
  /\ tainted' = [t \in Tenants |-> FALSE]
  /\ req' = [c \in Clients |-> Idle]
  /\ UNCHANGED <<db, edits>>

CacheStep(c) == \/ \E t \in Tenants : GetHit(c, t) \/ GetMiss(c, t)
                \/ LoadType(c) \/ Insert(c)
EditStep(c) ==
  \/ \E t \in Tenants, type \in TypeSet, n \in Names :
       UpsertSelect(c, t, type, n) \/ Delete(c, t, type, n)
  \/ UpsertWrite(c) \/ UpsertReadback(c) \/ Invalidate(c)

Next == (\E c \in Clients : CacheStep(c) \/ EditStep(c)) \/ Restart

Spec == Init /\ [][Next]_vars
-----------------------------------------------------------------------------
(* Every variable has its type, and the two halves of the OrderedDict      *)
(* agree.                                                                  *)
TypeOK ==
  /\ db \in [Tenants -> [TypeSet -> [Names -> Rows \union {NoRow}]]]
  /\ order \in Seq(Tenants) /\ recency \in Seq(Tenants)
  /\ views \in [Tenants -> Views \union {NoView}]
  /\ tainted \in [Tenants -> BOOLEAN]
  /\ req \in [Clients -> Request]
  /\ edits \in Nat

(* The cache never holds more views than registry_cache_size, although     *)
(* loads of many tenants finish in any order.                              *)
CacheBounded == Len(order) <= MaxSize

(* The keys and the views of the OrderedDict are the same tenants, once    *)
(* each.                                                                   *)
KeysAreViews ==
  /\ \A t \in Tenants : views[t] # NoView <=> t \in ToSet(order)
  /\ \A i, j \in 1..Len(order) : order[i] = order[j] => i = j

(* What the cache keeps is in order of last access, so that what it evicts *)
(* is always the least recently accessed view.                             *)
LeastRecentlyUsedOrder ==
  \A i, j \in 1..Len(order) : i < j =>
    \E k, l \in 1..Len(recency) :
      k < l /\ recency[k] = order[i] /\ recency[l] = order[j]

(* A cached view shows the tenant's current entries unless an edit of the  *)
(* tenant has yet to invalidate it, the view was loaded while an edit      *)
(* committed, or an edit failed between its commit and its invalidation.   *)
InvalidationDue(t) ==
  \E c \in Clients : req[c].tenant = t /\ req[c].pc \in {"readback", "invalidate"}
FreshUnlessOverlapped ==
  \A t \in Tenants : views[t] # NoView /\ ~tainted[t] /\ ~InvalidationDue(t)
                       => views[t] = CurrentView(t)

(* "The cache is invalidated immediately on every mutation so the next     *)
(* read always reflects the latest state": with no edit under way, what a  *)
(* read would be answered from the cache is the latest state.              *)
NextReadReflectsLatestState ==
  \A t \in Tenants :
    views[t] # NoView /\ (\A c \in Clients : req[c].pc = "idle")
      => views[t] = CurrentView(t)
=============================================================================
