--------------------------- MODULE WorkspaceProofs ---------------------------
(***************************************************************************)
(* For any clients, contexts and rows: the tables of the workspace keep    *)
(* their types and agree with each other, a row changes in a step of its   *)
(* owner only, answers show what was visible, recorded drift surfaces, and *)
(* accesses are counted.  The invariant has one part per service, about    *)
(* its tables and the calls under way in it; a step of another service     *)
(* leaves both alone.                                                      *)
(***************************************************************************)
EXTENDS Workspace, TLAPS

(* Null is no row and no context.                                          *)
LEMMA NullIsNoRow ==
  /\ None \notin Contexts /\ None \notin View /\ None \notin Dash /\ None \notin Tile
  /\ None \notin Token /\ None \notin Schedule /\ None \notin Alert /\ None \notin Run
  /\ None \notin Row /\ None \notin Pin
  /\ MaxCalls \in Nat /\ MaxDeploys \in Nat
BY RequestsAssumption, SavedViewsAssumption, DashboardsAssumption, ShareTokensAssumption,
   SchedulesAssumption, MutationsAssumption

USE NullIsNoRow

-----------------------------------------------------------------------------
(* What a call of each service holds.                                      *)
ViewPcs == {"answered", "view_get", "view_mark", "view_run"}
DashPcs == {"tile_add", "tile_update", "tile_delete"}
RecordPcs == {"previewed", "executed"}

Flags == [stale : BOOLEAN, known : BOOLEAN]
Answers == [ids : SUBSET ViewIds, stale : BOOLEAN, known : BOOLEAN]
AnsweredCall == [pc : {"answered"}, ctx : Contexts, id : {None}, arg : Answers]
GetCall == [pc : {"view_get"}, ctx : Contexts, id : ViewIds, arg : {None}]
ExecuteCall == [pc : {"view_mark", "view_run"}, ctx : Contexts, id : ViewIds, arg : Flags]
ViewCalls == AnsweredCall \union GetCall \union ExecuteCall
HomeCalls == [pc : {"home"}, ctx : Contexts, id : {None}, arg : {None}]
DashCalls == [pc : DashPcs, ctx : Contexts, id : DashIds, arg : TileIds \union {None}]
TokenCalls == [pc : {"resolve"}, ctx : {None}, id : TokenIds, arg : Nat]
SchedCalls == [pc : {"fire"}, ctx : Contexts, id : ScheduleIds, arg : {None}]
Dialogs == [plan : Plans, before : Row \union {None}, diff : SUBSET (Fields \union {Key})]
PreviewedCall ==
  [pc : {"previewed"}, ctx : {None}, id : Pks \union {None}, arg : Dialogs]
ExecutedCall == [pc : {"executed"}, ctx : {None}, id : Pks, arg : Plans]
RecordCalls == PreviewedCall \union ExecutedCall

CallType ==
  {Idle} \union ViewCalls \union HomeCalls \union DashCalls \union TokenCalls
    \union SchedCalls \union RecordCalls

ReqInv ==
  /\ calls \in [Clients -> CallType]
  /\ made \in 0..MaxCalls /\ by \in Contexts \union {None}

LEMMA IdleCall == Idle \in CallType /\ Idle.pc = "idle"
BY DEF CallType, Idle, Call

LEMMA CallKinds ==
  ASSUME NEW q \in CallType
  PROVE  /\ q.pc = "answered" => q \in AnsweredCall
         /\ q.pc = "view_get" => q \in GetCall
         /\ q.pc \in {"view_mark", "view_run"} => q \in ExecuteCall
         /\ q.pc = "home" => q \in HomeCalls
         /\ q.pc \in DashPcs => q \in DashCalls
         /\ q.pc = "resolve" => q \in TokenCalls
         /\ q.pc = "fire" => q \in SchedCalls
         /\ q.pc = "previewed" => q \in PreviewedCall
         /\ q.pc = "executed" => q \in ExecutedCall
BY DEF CallType, Idle, Call, ViewCalls, AnsweredCall, GetCall, ExecuteCall, HomeCalls, DashCalls,
       DashPcs, TokenCalls, SchedCalls, RecordCalls, PreviewedCall, ExecutedCall

LEMMA CallContexts ==
  ASSUME NEW q \in CallType
  PROVE  q.ctx \in Contexts \union {None}
BY DEF CallType, Idle, Call, ViewCalls, AnsweredCall, GetCall, ExecuteCall, HomeCalls, DashCalls,
       DashPcs, TokenCalls, SchedCalls, RecordCalls, PreviewedCall, ExecutedCall

(* The calls that are in some of the phases are as they were.              *)
CallsKept(pcs) == \A d \in Clients : calls'[d] = calls[d] \/ calls'[d].pc \notin pcs

(* A step of one call, which leaves it with q.                             *)
Moves(c, q) ==
  /\ calls' \in [Clients -> CallType] /\ calls'[c] = q
  /\ \A d \in Clients \ {c} : calls'[d] = calls[d]

LEMMA BeginMoves ==
  ASSUME ReqInv, NEW c \in Clients, NEW ctx \in Contexts \union {None}, NEW q \in CallType,
         BeginAs(c, ctx, q)
  PROVE  ReqInv' /\ Moves(c, q) /\ by' = ctx
         /\ calls[c].pc \in {"idle", "answered", "previewed", "executed"}
<1>1. calls' = [calls EXCEPT ![c] = q]
  BY DEF BeginAs
<1>2. Moves(c, q)
  BY <1>1 DEF Moves, ReqInv
<1>3. by' = ctx /\ made' \in 0..MaxCalls
      /\ calls[c].pc \in {"idle", "answered", "previewed", "executed"}
  BY DEF BeginAs, Resting, ReqInv
<1> QED BY <1>2, <1>3 DEF ReqInv, Moves

LEMMA OnceMoves ==
  ASSUME ReqInv, NEW c \in Clients, NEW ctx \in Contexts, Once(c, ctx)
  PROVE  ReqInv' /\ Moves(c, Idle) /\ by' = ctx /\ by' # None
BY BeginMoves, IdleCall DEF Once

LEMMA GotoMoves ==
  ASSUME ReqInv, NEW c \in Clients, NEW q \in CallType, Goto(c, q)
  PROVE  ReqInv' /\ Moves(c, q) /\ by' = calls[c].ctx
<1>1. calls' = [calls EXCEPT ![c] = q] /\ by' = calls[c].ctx /\ made' = made
  BY DEF Goto
<1>2. Moves(c, q)
  BY <1>1 DEF Moves, ReqInv
<1>3. calls[c].ctx \in Contexts \union {None}
  BY CallContexts DEF ReqInv
<1> QED BY <1>1, <1>2, <1>3 DEF ReqInv, Moves

LEMMA ReturnMoves ==
  ASSUME ReqInv, NEW c \in Clients, Return(c)
  PROVE  ReqInv' /\ Moves(c, Idle) /\ by' = calls[c].ctx
BY GotoMoves, IdleCall DEF Return

(* A step of one service leaves the calls of the others.                   *)
LEMMA MovesKeep ==
  ASSUME NEW c \in Clients, NEW q, Moves(c, q), NEW pcs, q.pc \notin pcs
  PROVE  CallsKept(pcs)
BY DEF Moves, CallsKept

-----------------------------------------------------------------------------
(* Saved views: the rows, and what a call may show of them.                *)
ViewRowsOK(vs, used, shared, marked) ==
  /\ vs \in [ViewIds -> View \union {None}]
  /\ used \subseteq ViewIds /\ shared \subseteq used /\ marked \subseteq used
  /\ \A v \in ViewIds : vs[v] # None => /\ v \in used /\ (vs[v].shared => v \in shared)
                                        /\ (v \in marked => vs[v].stale)
ViewNamesUnique(vs) ==
  \A v, w \in ViewIds : v # w /\ vs[v] # None /\ vs[w] # None =>
    <<vs[v].owner, vs[v].name>> # <<vs[w].owner, vs[w].name>>
Shown(ctx, v, vs, shared) ==
  vs[v] # None => vs[v].tenant = ctx.tenant /\ (v \in shared \/ vs[v].owner = ctx.user)
ViewCallOK(q, vs, used, shared) ==
  /\ q.pc \in {"view_get", "view_mark", "view_run"} => q.id \in used
  /\ q.pc \in {"view_mark", "view_run"} =>
       Shown(q.ctx, q.id, vs, shared) /\ (q.arg.known => q.arg.stale)
  /\ q.pc = "answered" => /\ \A v \in q.arg.ids : v \in used /\ Shown(q.ctx, v, vs, shared)
                          /\ (q.arg.known => q.arg.stale)
ViewTables ==
  /\ ViewRowsOK(views, viewsUsed, everShared, drifted) /\ ViewNamesUnique(views)
  /\ skills \in Skills /\ deploys \in 0..MaxDeploys
ViewCallsOK == \A c \in Clients : ViewCallOK(calls[c], views, viewsUsed, everShared)
ViewsInv == ViewTables /\ ViewCallsOK

(* What every step does with the rows.                                     *)
ViewsStay ==
  /\ viewsUsed \subseteq viewsUsed' /\ everShared \subseteq everShared'
  /\ \A v \in viewsUsed : views'[v] # None =>
       /\ views[v] # None
       /\ views'[v].owner = views[v].owner /\ views'[v].tenant = views[v].tenant
ViewsForOwner ==
  \A v \in ViewIds : \/ ChangesForOwner(views[v], views'[v])
                     \/ views[v] # None /\ views'[v] = [views[v] EXCEPT !.stale = TRUE]
OtherThanViews == DashPcs \union RecordPcs \union {"resolve", "fire"}
ViewsDone == ReqInv' /\ ViewsInv' /\ ViewsForOwner /\ CallsKept(OtherThanViews)

LEMMA SameForOwner == ASSUME NEW old, NEW new, old = new PROVE ChangesForOwner(old, new)
BY DEF ChangesForOwner

LEMMA ViewCallsStay ==
  ASSUME ViewTables, ViewsStay, NEW q, ViewCallOK(q, views, viewsUsed, everShared)
  PROVE  ViewCallOK(q, views', viewsUsed', everShared')
BY DEF ViewTables, ViewRowsOK, ViewsStay, ViewCallOK, Shown

LEMMA ViewsFollow ==
  ASSUME ReqInv, ViewsInv, NEW c \in Clients, NEW q, Moves(c, q), ReqInv',
         ViewTables', ViewsStay, ViewsForOwner, q.pc \notin OtherThanViews,
         ViewCallOK(q, views', viewsUsed', everShared')
  PROVE  ViewsDone
<1>1. ASSUME NEW d \in Clients \ {c}
      PROVE  ViewCallOK(calls'[d], views', viewsUsed', everShared')
  <2>1. ViewCallOK(calls[d], views, viewsUsed, everShared) /\ ViewTables
    BY DEF ViewsInv, ViewCallsOK
  <2>2. ViewCallOK(calls[d], views', viewsUsed', everShared')
    BY <2>1, ViewCallsStay
  <2>3. calls'[d] = calls[d]
    BY DEF Moves
  <2> QED BY <2>2, <2>3
<1>2. ViewCallsOK'
  BY <1>1 DEF ViewCallsOK, Moves
<1> QED BY <1>2, MovesKeep DEF ViewsDone, ViewsInv

(* Idle calls, and those of other services, show nothing.                  *)
LEMMA IdleShows ==
  ASSUME NEW q, q.pc \notin ViewPcs, NEW vs, NEW used, NEW shared
  PROVE  ViewCallOK(q, vs, used, shared)
BY DEF ViewCallOK, ViewPcs

LEMMA ViewsRead ==
  ASSUME ReqInv, ViewsInv, NEW c \in Clients, NEW q, Moves(c, q), ReqInv', UNCHANGED viewVars,
         q.pc \notin OtherThanViews, ViewCallOK(q, views, viewsUsed, everShared)
  PROVE  ViewsDone
<1>1. ViewTables' /\ ViewsStay /\ ViewsForOwner
  BY SameForOwner DEF viewVars, ViewsInv, ViewTables, ViewsStay, ViewsForOwner
<1>2. ViewCallOK(q, views', viewsUsed', everShared')
  BY DEF viewVars
<1> QED BY <1>1, <1>2, ViewsFollow

(* A row is written whose name is free for it.                             *)
LEMMA ViewWritten ==
  ASSUME ViewsInv, NEW v \in ViewIds, NEW row \in View, WriteView(v, row),
         FreeViewName(row.owner, row.name, v),
         viewsUsed \subseteq viewsUsed', viewsUsed' \subseteq ViewIds, v \in viewsUsed',
         UNCHANGED <<skills, deploys, drifted>>,
         \/ v \notin viewsUsed
         \/ /\ views[v] # None
            /\ row.owner = views[v].owner /\ row.tenant = views[v].tenant
            /\ row.stale = views[v].stale,
         Acts(row.owner)
  PROVE  ViewTables' /\ ViewsStay /\ ViewsForOwner
<1>1. ViewRowsOK(views, viewsUsed, everShared, drifted) /\ ViewNamesUnique(views)
      /\ skills \in Skills /\ deploys \in 0..MaxDeploys
  BY DEF ViewsInv, ViewTables
<1>2. /\ views' \in [ViewIds -> View \union {None}] /\ views'[v] = row
      /\ \A w \in ViewIds \ {v} : views'[w] = views[w]
      /\ everShared \subseteq everShared' /\ everShared' \subseteq everShared \union {v}
      /\ row.shared => v \in everShared'
  BY <1>1 DEF WriteView, ViewRowsOK
<1>3. row # None
  OBVIOUS
<1>4. ViewRowsOK(views', viewsUsed', everShared', drifted')
  <2>1. v \in drifted => row.stale
    BY <1>1 DEF ViewRowsOK
  <2> QED BY <1>1, <1>2, <2>1 DEF ViewRowsOK
<1>5. ViewNamesUnique(views')
  <2>1. \A w \in ViewIds \ {v} :
          views[w] # None => <<views[w].owner, views[w].name>> # <<row.owner, row.name>>
    BY DEF FreeViewName
  <2>2. ASSUME NEW a \in ViewIds, NEW b \in ViewIds, a # b, views'[a] # None, views'[b] # None
        PROVE  <<views'[a].owner, views'[a].name>> # <<views'[b].owner, views'[b].name>>
    <3>1. CASE a = v
      BY <1>2, <2>1, <2>2, <3>1
    <3>2. CASE b = v
      BY <1>2, <2>1, <2>2, <3>2
    <3>3. CASE a # v /\ b # v
      BY <1>1, <1>2, <2>2, <3>3 DEF ViewNamesUnique
    <3> QED BY <3>1, <3>2, <3>3
  <2> QED BY <2>2 DEF ViewNamesUnique
<1>6. v \notin viewsUsed => views[v] = None
  BY <1>1 DEF ViewRowsOK
<1>7. ViewsStay
  BY <1>1, <1>2, <1>6 DEF ViewsStay, ViewRowsOK
<1>8. ViewsForOwner
  <2>1. ChangesForOwner(views[v], views'[v])
    BY <1>2, <1>3, <1>6 DEF ChangesForOwner, RowOf
  <2> QED BY <1>2, <2>1, SameForOwner DEF ViewsForOwner
<1> QED BY <1>1, <1>4, <1>5, <1>7, <1>8 DEF ViewTables

LEMMA ContextOf ==
  ASSUME NEW ctx \in Contexts
  PROVE  ctx.user \in Users /\ ctx.tenant \in Tenants /\ ctx # None
BY DEF Users, Tenants

LEMMA CreateViewDone ==
  ASSUME ReqInv, ViewsInv, NEW c \in Clients, CreateView(c)
  PROVE  ViewsDone
<1>1. PICK ctx \in Contexts, v \in ViewIds \ viewsUsed, name \in ViewNames, shared \in BOOLEAN :
        /\ Once(c, ctx)
        /\ viewsUsed' = viewsUsed \union {v}
        /\ IF FreeViewName(ctx.user, name, v)
           THEN WriteView(v, [owner |-> ctx.user, tenant |-> ctx.tenant, name |-> name,
                              shared |-> shared, hash |-> skills, stale |-> FALSE])
           ELSE UNCHANGED <<views, everShared>>
        /\ UNCHANGED <<skills, deploys, drifted>>
  BY DEF CreateView
<1>2. ReqInv' /\ Moves(c, Idle) /\ by' = ctx /\ by' # None
  BY <1>1, OnceMoves
<1>3. ViewTables /\ viewsUsed \subseteq ViewIds
  BY DEF ViewsInv, ViewTables, ViewRowsOK
<1>4. ViewTables' /\ ViewsStay /\ ViewsForOwner
  <2>1. CASE FreeViewName(ctx.user, name, v)
    <3> DEFINE row == [owner |-> ctx.user, tenant |-> ctx.tenant, name |-> name,
                       shared |-> shared, hash |-> skills, stale |-> FALSE]
    <3>1. row \in View /\ row.owner = ctx.user /\ row.name = name
      BY <1>3, ContextOf DEF View, ViewTables
    <3>2. WriteView(v, row)
      BY <1>1, <2>1
    <3> HIDE DEF row
    <3>3. Acts(row.owner) /\ FreeViewName(row.owner, row.name, v)
      BY <1>2, <2>1, <3>1 DEF Acts
    <3>4. viewsUsed \subseteq viewsUsed' /\ viewsUsed' \subseteq ViewIds /\ v \in viewsUsed'
      BY <1>1, <1>3
    <3> QED BY <1>1, <3>1, <3>2, <3>3, <3>4, ViewWritten
  <2>2. CASE ~FreeViewName(ctx.user, name, v)
    <3>1. UNCHANGED <<views, everShared, skills, deploys, drifted>>
      BY <1>1, <2>2
    <3>2. ViewTables'
      BY <1>1, <1>3, <3>1 DEF ViewTables, ViewRowsOK, ViewNamesUnique
    <3> QED BY <1>1, <3>1, <3>2, SameForOwner DEF ViewsStay, ViewsForOwner
  <2> QED BY <2>1, <2>2
<1>5. Idle.pc \notin OtherThanViews \union ViewPcs
  BY IdleCall DEF OtherThanViews, DashPcs, RecordPcs, ViewPcs
<1> QED BY <1>2, <1>4, <1>5, IdleShows, ViewsFollow

(* A request that shows the views of S.                                    *)
LEMMA ShowsCall ==
  ASSUME NEW ctx \in Contexts, NEW S \in SUBSET ViewIds
  PROVE  /\ Shows(ctx, S) \in AnsweredCall /\ Shows(ctx, S) \in CallType
         /\ Shows(ctx, S).pc = "answered" /\ Shows(ctx, S).ctx = ctx
         /\ Shows(ctx, S).arg.ids = S /\ ~Shows(ctx, S).arg.known
<1> DEFINE arg == [ids |-> S, stale |-> FALSE, known |-> FALSE]
<1>1. arg \in Answers /\ arg.ids = S /\ ~arg.known
  BY DEF Answers
<1>2. Shows(ctx, S) = [pc |-> "answered", ctx |-> ctx, id |-> None, arg |-> arg]
  BY DEF Shows, Answered, Call
<1> HIDE DEF arg
<1> QED BY <1>1, <1>2 DEF AnsweredCall, CallType, ViewCalls

LEMMA ShowsOK ==
  ASSUME ViewsInv, NEW ctx \in Contexts, NEW S \in SUBSET ViewIds,
         \A v \in S : views[v] # None /\ views[v].tenant = ctx.tenant
                      /\ (views[v].owner = ctx.user \/ views[v].shared)
  PROVE  ViewCallOK(Shows(ctx, S), views, viewsUsed, everShared)
<1>1. \A v \in S : v \in viewsUsed /\ Shown(ctx, v, views, everShared)
  BY DEF ViewsInv, ViewTables, ViewRowsOK, Shown
<1> QED BY <1>1, ShowsCall DEF ViewCallOK

LEMMA ShowDone ==
  ASSUME ReqInv, ViewsInv, NEW c \in Clients, NEW ctx \in Contexts, NEW S \in SUBSET ViewIds,
         \A v \in S : views[v] # None /\ views[v].tenant = ctx.tenant
                      /\ (views[v].owner = ctx.user \/ views[v].shared),
         BeginAs(c, ctx, Shows(ctx, S)) \/ Goto(c, Shows(ctx, S)), UNCHANGED viewVars
  PROVE  ViewsDone
<1> DEFINE q == Shows(ctx, S)
<1>1. q \in CallType /\ q.pc = "answered"
  BY ShowsCall
<1>2. ViewCallOK(q, views, viewsUsed, everShared)
  BY ShowsOK
<1> HIDE DEF q
<1>3. ReqInv' /\ Moves(c, q)
  BY <1>1, BeginMoves, GotoMoves DEF q
<1>4. q.pc \notin OtherThanViews
  BY <1>1 DEF OtherThanViews, DashPcs, RecordPcs
<1> QED BY <1>2, <1>3, <1>4, ViewsRead

LEMMA ReadViewsDone ==
  ASSUME ReqInv, ViewsInv, NEW c \in Clients, GetView(c) \/ ListViews(c) \/ UpdateViewGet(c)
  PROVE  ViewsDone
<1>1. viewsUsed \subseteq ViewIds
  BY DEF ViewsInv, ViewTables, ViewRowsOK
<1>2. CASE GetView(c)
  <2>1. PICK ctx \in Contexts, v \in viewsUsed :
          Visible(ctx, v) /\ Begin(c, Shows(ctx, {v})) /\ UNCHANGED viewVars
    BY <1>2 DEF GetView
  <2>2. {v} \in SUBSET ViewIds
    BY <1>1
  <2>3. BeginAs(c, ctx, Shows(ctx, {v}))
    BY <2>1, <2>2, ShowsCall DEF Begin
  <2> QED BY <2>1, <2>2, <2>3, ShowDone DEF Visible
<1>3. CASE ListViews(c)
  <2>1. PICK ctx \in Contexts, shared \in BOOLEAN :
          Begin(c, Shows(ctx, Listed(ctx, shared))) /\ UNCHANGED viewVars
    BY <1>3 DEF ListViews
  <2> DEFINE S == Listed(ctx, shared)
  <2>2. /\ S \in SUBSET ViewIds
        /\ \A v \in S : views[v] # None /\ views[v].tenant = ctx.tenant
                        /\ (views[v].owner = ctx.user \/ views[v].shared)
    BY DEF Listed
  <2> HIDE DEF S
  <2>3. BeginAs(c, ctx, Shows(ctx, S))
    BY <2>1, <2>2, ShowsCall DEF Begin, S
  <2> QED BY <2>1, <2>2, <2>3, ShowDone
<1>4. CASE UpdateViewGet(c)
  <2> DEFINE call == calls[c]
  <2>1. call.pc = "view_get" /\ UNCHANGED viewVars
    BY <1>4 DEF UpdateViewGet
  <2>2. call.ctx \in Contexts /\ call.id \in ViewIds
    BY <2>1, CallKinds DEF ReqInv, GetCall
  <2>3. CASE Visible(call.ctx, call.id)
    <3>1. Goto(c, Shows(call.ctx, {call.id}))
      BY <1>4, <2>3 DEF UpdateViewGet
    <3>2. {call.id} \in SUBSET ViewIds
      BY <2>2
    <3> QED BY <2>1, <2>2, <2>3, <3>1, <3>2, ShowDone DEF Visible
  <2>4. CASE ~Visible(call.ctx, call.id)
    <3>1. ReqInv' /\ Moves(c, Idle)
      BY <1>4, <2>4, ReturnMoves DEF UpdateViewGet
    <3>2. Idle.pc \notin OtherThanViews \union ViewPcs
      BY IdleCall DEF OtherThanViews, DashPcs, RecordPcs, ViewPcs
    <3> QED BY <2>1, <3>1, <3>2, IdleShows, ViewsRead
  <2> QED BY <2>3, <2>4
<1> QED BY <1>2, <1>3, <1>4

LEMMA IdleApart == Idle.pc \notin ViewPcs \union OtherThanViews
BY IdleCall DEF OtherThanViews, DashPcs, RecordPcs, ViewPcs

(* A view that is fetched again when the update is done.                   *)
LEMMA GetAgain ==
  ASSUME NEW ctx \in Contexts, NEW v \in ViewIds, NEW used, v \in used, NEW vs, NEW shared
  PROVE  LET q == Call("view_get", ctx, v, None) IN
         q \in CallType /\ q.pc \notin OtherThanViews /\ ViewCallOK(q, vs, used, shared)
<1> DEFINE q == Call("view_get", ctx, v, None)
<1>1. q \in GetCall /\ q.pc = "view_get" /\ q.id = v
  BY DEF GetCall, Call
<1> HIDE DEF q
<1>2. q \in CallType /\ q.pc \notin OtherThanViews
  BY <1>1 DEF CallType, ViewCalls, OtherThanViews, DashPcs, RecordPcs
<1>3. ViewCallOK(q, vs, used, shared)
  BY <1>1 DEF ViewCallOK
<1> QED BY <1>2, <1>3 DEF q

LEMMA UpdateViewDone ==
  ASSUME ReqInv, ViewsInv, NEW c \in Clients, UpdateView(c)
  PROVE  ViewsDone
<1>1. PICK ctx \in Contexts, v \in viewsUsed :
        \E name \in ViewNames \union {None}, shared \in BOOLEAN \union {None} :
          LET row == views[v]
              new == [owner |-> row.owner, tenant |-> row.tenant,
                      name |-> Given(name, row.name), shared |-> Given(shared, row.shared),
                      hash |-> row.hash, stale |-> row.stale]
          IN
          /\ \/ /\ OwnView(ctx, v) /\ FreeViewName(ctx.user, new.name, v)
                /\ WriteView(v, new)
                /\ Begin(c, Call("view_get", ctx, v, None))
             \/ /\ OwnView(ctx, v) /\ ~FreeViewName(ctx.user, new.name, v)
                /\ Once(c, ctx)
                /\ UNCHANGED <<views, everShared>>
             \/ /\ ~OwnView(ctx, v)
                /\ Begin(c, Call("view_get", ctx, v, None))
                /\ UNCHANGED <<views, everShared>>
          /\ UNCHANGED <<viewsUsed, skills, deploys, drifted>>
  BY DEF UpdateView
<1>2. PICK name \in ViewNames \union {None}, shared \in BOOLEAN \union {None} :
          LET row == views[v]
              new == [owner |-> row.owner, tenant |-> row.tenant,
                      name |-> Given(name, row.name), shared |-> Given(shared, row.shared),
                      hash |-> row.hash, stale |-> row.stale]
          IN
          /\ \/ /\ OwnView(ctx, v) /\ FreeViewName(ctx.user, new.name, v)
                /\ WriteView(v, new)
                /\ Begin(c, Call("view_get", ctx, v, None))
             \/ /\ OwnView(ctx, v) /\ ~FreeViewName(ctx.user, new.name, v)
                /\ Once(c, ctx)
                /\ UNCHANGED <<views, everShared>>
             \/ /\ ~OwnView(ctx, v)
                /\ Begin(c, Call("view_get", ctx, v, None))
                /\ UNCHANGED <<views, everShared>>
          /\ UNCHANGED <<viewsUsed, skills, deploys, drifted>>
  BY <1>1
<1> DEFINE row == views[v]
           new == [owner |-> row.owner, tenant |-> row.tenant, name |-> Given(name, row.name),
                   shared |-> Given(shared, row.shared), hash |-> row.hash, stale |-> row.stale]
           q == Call("view_get", ctx, v, None)
<1>3. ViewTables /\ viewsUsed \subseteq ViewIds /\ views \in [ViewIds -> View \union {None}]
  BY DEF ViewsInv, ViewTables, ViewRowsOK
<1>4. v \in ViewIds /\ UNCHANGED <<viewsUsed, skills, deploys, drifted>>
  BY <1>2, <1>3
<1>5. q \in CallType /\ q.pc \notin OtherThanViews
      /\ ViewCallOK(q, views', viewsUsed', everShared')
  BY <1>4, GetAgain
<1>6. CASE OwnView(ctx, v) /\ WriteView(v, new) /\ Begin(c, q)
           /\ FreeViewName(ctx.user, new.name, v)
  <2>1. /\ new \in View /\ new.owner = ctx.user /\ new.owner = row.owner
        /\ new.tenant = row.tenant /\ new.stale = row.stale /\ row # None
    BY <1>3, <1>4, <1>6 DEF View, OwnView, Given
  <2>2. q.ctx = ctx
    BY DEF Call
  <2> HIDE DEF new, q, row
  <2>3. ReqInv' /\ Moves(c, q) /\ by' = ctx
    BY <1>5, <1>6, <2>2, BeginMoves DEF Begin
  <2>4. Acts(new.owner)
    BY <2>1, <2>3 DEF Acts
  <2>5. ViewTables' /\ ViewsStay /\ ViewsForOwner
    BY <1>3, <1>4, <1>6, <2>1, <2>4, ViewWritten DEF row
  <2> QED BY <1>5, <2>3, <2>5, ViewsFollow
<1>7. CASE Once(c, ctx) /\ UNCHANGED <<views, everShared>>
  <2>1. ReqInv' /\ Moves(c, Idle) /\ UNCHANGED viewVars
    BY <1>4, <1>7, OnceMoves DEF viewVars
  <2> QED BY <2>1, IdleApart, IdleShows, ViewsRead
<1>8. CASE Begin(c, q) /\ UNCHANGED <<views, everShared>>
  <2>1. q.ctx = ctx /\ UNCHANGED viewVars
    BY <1>4, <1>8 DEF Call, viewVars
  <2> HIDE DEF q
  <2>2. ReqInv' /\ Moves(c, q)
    BY <1>5, <1>8, <2>1, BeginMoves DEF Begin
  <2>3. ViewCallOK(q, views, viewsUsed, everShared)
    BY <1>5, <2>1 DEF viewVars
  <2> QED BY <1>5, <2>1, <2>2, <2>3, ViewsRead
<1> QED BY <1>2, <1>6, <1>7, <1>8

LEMMA DeleteViewDone ==
  ASSUME ReqInv, ViewsInv, NEW c \in Clients, DeleteView(c)
  PROVE  ViewsDone
<1>1. PICK ctx \in Contexts, v \in viewsUsed :
        /\ Once(c, ctx)
        /\ views' = IF OwnView(ctx, v) THEN [views EXCEPT ![v] = None] ELSE views
        /\ UNCHANGED <<viewsUsed, skills, deploys, everShared, drifted>>
  BY DEF DeleteView
<1>2. ReqInv' /\ Moves(c, Idle) /\ by' = ctx /\ by' # None
  BY <1>1, OnceMoves
<1>3. CASE ~OwnView(ctx, v)
  <2>1. UNCHANGED viewVars
    BY <1>1, <1>3 DEF viewVars
  <2> QED BY <1>2, <2>1, IdleApart, IdleShows, ViewsRead
<1>4. CASE OwnView(ctx, v)
  <2>1. ViewTables /\ viewsUsed \subseteq ViewIds /\ views \in [ViewIds -> View \union {None}]
    BY DEF ViewsInv, ViewTables, ViewRowsOK
  <2>2. /\ views' \in [ViewIds -> View \union {None}] /\ views'[v] = None
        /\ \A w \in ViewIds \ {v} : views'[w] = views[w]
        /\ UNCHANGED <<viewsUsed, skills, deploys, everShared, drifted>> /\ v \in ViewIds
    BY <1>1, <1>4, <2>1
  <2>3. ViewTables'
    BY <2>1, <2>2 DEF ViewTables, ViewRowsOK, ViewNamesUnique
  <2>4. ViewsStay
    BY <2>1, <2>2 DEF ViewsStay
  <2>5. ChangesForOwner(views[v], views'[v])
    BY <1>2, <1>4, <2>2 DEF ChangesForOwner, RowOf, OwnView, Acts
  <2>6. ViewsForOwner
    BY <2>2, <2>5, SameForOwner DEF ViewsForOwner
  <2> QED BY <1>2, <2>3, <2>4, <2>6, IdleApart, IdleShows, ViewsFollow
<1> QED BY <1>3, <1>4

LEMMA ExecuteReadDone ==
  ASSUME ReqInv, ViewsInv, NEW c \in Clients, ExecuteRead(c)
  PROVE  ViewsDone
<1>1. PICK ctx \in Contexts, v \in viewsUsed :
        /\ Visible(ctx, v)
        /\ \/ Begin(c, Call(IF views[v].hash # skills THEN "view_mark" ELSE "view_run",
                            ctx, v, [stale |-> views[v].stale, known |-> v \in drifted]))
           \/ Once(c, ctx)
        /\ UNCHANGED viewVars
  BY DEF ExecuteRead
<1> DEFINE pc == IF views[v].hash # skills THEN "view_mark" ELSE "view_run"
           arg == [stale |-> views[v].stale, known |-> v \in drifted]
           q == Call(pc, ctx, v, arg)
<1>2. ViewRowsOK(views, viewsUsed, everShared, drifted) /\ v \in ViewIds
  BY <1>1 DEF ViewsInv, ViewTables, ViewRowsOK
<1>3. views[v] \in View /\ (v \in drifted => views[v].stale)
      /\ Shown(ctx, v, views, everShared)
  BY <1>1, <1>2 DEF ViewRowsOK, Visible, Shown
<1>4. arg \in Flags /\ (arg.known => arg.stale)
  BY <1>3 DEF Flags, View
<1>5. pc \in {"view_mark", "view_run"}
  OBVIOUS
<1>6. CASE Begin(c, q)
  <2> HIDE DEF arg, pc
  <2>1. q \in ExecuteCall /\ q.pc \in {"view_mark", "view_run"} /\ q.ctx = ctx /\ q.id = v
        /\ (q.arg.known => q.arg.stale)
    BY <1>2, <1>4, <1>5 DEF ExecuteCall, Call
  <2> HIDE DEF q
  <2>2. q \in CallType /\ q.pc \notin OtherThanViews
    BY <2>1 DEF CallType, ViewCalls, OtherThanViews, DashPcs, RecordPcs
  <2>3. ViewCallOK(q, views, viewsUsed, everShared)
    BY <1>1, <1>3, <2>1 DEF ViewCallOK
  <2>4. ReqInv' /\ Moves(c, q)
    BY <1>6, <2>1, <2>2, BeginMoves DEF Begin
  <2> QED BY <1>1, <2>2, <2>3, <2>4, ViewsRead
<1>7. CASE Once(c, ctx)
  BY <1>1, <1>7, OnceMoves, IdleApart, IdleShows, ViewsRead
<1> QED BY <1>1, <1>6, <1>7

(* What holds of a call that is marking or running a view.                 *)
LEMMA Executing ==
  ASSUME ReqInv, ViewsInv, NEW c \in Clients, calls[c].pc \in {"view_mark", "view_run"}
  PROVE  /\ calls[c].ctx \in Contexts /\ calls[c].id \in viewsUsed /\ calls[c].id \in ViewIds
         /\ calls[c].arg \in Flags /\ (calls[c].arg.known => calls[c].arg.stale)
         /\ Shown(calls[c].ctx, calls[c].id, views, everShared)
<1>1. calls[c] \in ExecuteCall
  BY CallKinds DEF ReqInv
<1>2. ViewCallOK(calls[c], views, viewsUsed, everShared)
  BY DEF ViewsInv, ViewCallsOK
<1> QED BY <1>1, <1>2 DEF ExecuteCall, ViewCallOK

LEMMA ExecuteMarkDone ==
  ASSUME ReqInv, ViewsInv, NEW c \in Clients, ExecuteMark(c)
  PROVE  ViewsDone
<1> DEFINE call == calls[c]
           v == call.id
           q == [call EXCEPT !.pc = "view_run"]
<1>1. /\ call.pc = "view_mark" /\ Goto(c, q)
      /\ views' = IF views[v] = None THEN views
                  ELSE [views EXCEPT ![v] = [@ EXCEPT !.stale = TRUE]]
      /\ drifted' = drifted \union {v}
      /\ UNCHANGED <<viewsUsed, skills, deploys, everShared>>
  BY DEF ExecuteMark
<1>2. /\ call.ctx \in Contexts /\ v \in viewsUsed /\ v \in ViewIds /\ call.arg \in Flags
      /\ (call.arg.known => call.arg.stale) /\ Shown(call.ctx, v, views, everShared)
  BY <1>1, Executing
<1>3. call \in ExecuteCall
  BY <1>1, CallKinds DEF ReqInv
<1>4. q \in ExecuteCall /\ q.pc = "view_run" /\ q.ctx = call.ctx /\ q.id = v
      /\ q.arg = call.arg
  BY <1>3 DEF ExecuteCall
<1> HIDE DEF q
<1>5. q \in CallType /\ q.pc \notin OtherThanViews
  BY <1>4 DEF CallType, ViewCalls, OtherThanViews, DashPcs, RecordPcs
<1>6. ReqInv' /\ Moves(c, q)
  BY <1>1, <1>5, GotoMoves
<1>7. ViewTables /\ ViewRowsOK(views, viewsUsed, everShared, drifted) /\ ViewNamesUnique(views)
  BY DEF ViewsInv, ViewTables
<1>8. /\ views' \in [ViewIds -> View \union {None}]
      /\ \A w \in ViewIds \ {v} : views'[w] = views[w]
      /\ views[v] = None => views'[v] = None
      /\ views[v] # None => /\ views'[v] = [views[v] EXCEPT !.stale = TRUE]
                            /\ views'[v] \in View /\ views'[v].stale
                            /\ views'[v].owner = views[v].owner
                            /\ views'[v].tenant = views[v].tenant
                            /\ views'[v].name = views[v].name
                            /\ views'[v].shared = views[v].shared
  <2>1. CASE views[v] = None
    BY <1>1, <1>2, <1>7, <2>1 DEF ViewRowsOK
  <2>2. CASE views[v] # None
    <3> DEFINE new == [views[v] EXCEPT !.stale = TRUE]
    <3>1. /\ new \in View /\ new.stale /\ new.owner = views[v].owner
          /\ new.tenant = views[v].tenant /\ new.name = views[v].name
          /\ new.shared = views[v].shared
      <4>1. views[v] \in View
        BY <1>2, <1>7, <2>2 DEF ViewRowsOK
      <4> QED BY <4>1 DEF View
    <3>2. views' = [views EXCEPT ![v] = new]
      BY <1>1, <2>2
    <3>3. views \in [ViewIds -> View \union {None}]
      BY <1>7 DEF ViewRowsOK
    <3>4. views'[v] = new /\ views' \in [ViewIds -> View \union {None}]
          /\ \A w \in ViewIds \ {v} : views'[w] = views[w]
      <4> HIDE DEF new
      <4> QED BY <1>2, <3>1, <3>2, <3>3
    <3> QED BY <2>2, <3>1, <3>4
  <2> QED BY <2>1, <2>2
<1>9. ViewRowsOK(views', viewsUsed', everShared', drifted')
  <2>1. \A w \in ViewIds : views'[w] # None =>
          /\ w \in viewsUsed /\ (views'[w].shared => w \in everShared)
          /\ (w \in drifted \union {v} => views'[w].stale)
    BY <1>7, <1>8 DEF ViewRowsOK
  <2> QED BY <1>1, <1>2, <1>7, <1>8, <2>1 DEF ViewRowsOK
<1>10. ViewNamesUnique(views')
  <2>1. \A w \in ViewIds : views'[w] # None =>
          views[w] # None /\ views'[w].owner = views[w].owner /\ views'[w].name = views[w].name
    BY <1>8
  <2> QED BY <1>7, <2>1 DEF ViewNamesUnique
<1>11. ViewsStay
  BY <1>1, <1>7, <1>8 DEF ViewsStay, ViewRowsOK
<1>12. ViewsForOwner
  <2>1. \/ ChangesForOwner(views[v], views'[v])
        \/ views[v] # None /\ views'[v] = [views[v] EXCEPT !.stale = TRUE]
    BY <1>8, SameForOwner
  <2>2. \A w \in ViewIds \ {v} : ChangesForOwner(views[w], views'[w])
    BY <1>8, SameForOwner
  <2> QED BY <2>1, <2>2 DEF ViewsForOwner
<1>13. ViewTables'
  BY <1>1, <1>7, <1>9, <1>10 DEF ViewTables
<1>14. Shown(q.ctx, q.id, views', everShared')
  BY <1>1, <1>2, <1>4, <1>8 DEF Shown
<1>15. ViewCallOK(q, views', viewsUsed', everShared')
  BY <1>1, <1>2, <1>4, <1>14 DEF ViewCallOK
<1> QED BY <1>5, <1>6, <1>11, <1>12, <1>13, <1>15, ViewsFollow

LEMMA ExecuteAnswerDone ==
  ASSUME ReqInv, ViewsInv, NEW c \in Clients, ExecuteAnswer(c)
  PROVE  ViewsDone
<1> DEFINE call == calls[c]
           q == Answered(call.ctx, {call.id}, call.arg.stale, call.arg.known)
<1>1. call.pc = "view_run" /\ UNCHANGED viewVars /\ (Goto(c, q) \/ Return(c))
  BY DEF ExecuteAnswer
<1>2. /\ call.ctx \in Contexts /\ call.id \in viewsUsed /\ call.id \in ViewIds
      /\ call.arg \in Flags /\ (call.arg.known => call.arg.stale)
      /\ Shown(call.ctx, call.id, views, everShared)
  BY <1>1, Executing
<1>3. CASE Goto(c, q)
  <2> DEFINE arg == [ids |-> {call.id}, stale |-> call.arg.stale, known |-> call.arg.known]
  <2>1. arg \in Answers /\ arg.ids = {call.id} /\ (arg.known => arg.stale)
    BY <1>2 DEF Answers, Flags
  <2>2. q = [pc |-> "answered", ctx |-> call.ctx, id |-> None, arg |-> arg]
    BY DEF Answered, Call
  <2> HIDE DEF arg, q
  <2>3. q \in AnsweredCall /\ q.pc = "answered" /\ q.ctx = call.ctx /\ q.arg = arg
    BY <1>2, <2>1, <2>2 DEF AnsweredCall
  <2>4. q \in CallType /\ q.pc \notin OtherThanViews
    BY <2>3 DEF CallType, ViewCalls, OtherThanViews, DashPcs, RecordPcs
  <2>5. ViewCallOK(q, views, viewsUsed, everShared)
    BY <1>2, <2>1, <2>3 DEF ViewCallOK
  <2>6. ReqInv' /\ Moves(c, q)
    BY <1>3, <2>4, GotoMoves
  <2> QED BY <1>1, <2>4, <2>5, <2>6, ViewsRead
<1>4. CASE Return(c)
  BY <1>1, <1>4, ReturnMoves, IdleApart, IdleShows, ViewsRead
<1> QED BY <1>1, <1>3, <1>4

(* A step of the service of saved views, or one that reads the home page.  *)
LEMMA ViewStepDone ==
  ASSUME ReqInv, ViewsInv, NEW c \in Clients, ViewStep(c)
  PROVE  ViewsDone
BY CreateViewDone, ReadViewsDone, UpdateViewDone, DeleteViewDone, ExecuteReadDone,
   ExecuteMarkDone, ExecuteAnswerDone DEF ViewStep

LEMMA HomeDone ==
  ASSUME ReqInv, ViewsInv, NEW c \in Clients, HomeRead(c) \/ HomeViews(c)
  PROVE  ViewsDone
<1>1. UNCHANGED viewVars
  BY DEF HomeRead, HomeViews
<1>2. CASE HomeRead(c)
  <2>1. PICK ctx \in Contexts : Begin(c, Call("home", ctx, None, None))
    BY <1>2 DEF HomeRead
  <2> DEFINE q == Call("home", ctx, None, None)
  <2>2. q \in HomeCalls /\ q.ctx = ctx /\ q.pc = "home"
    BY DEF HomeCalls, Call
  <2>3. Begin(c, q)
    BY <2>1
  <2> HIDE DEF q
  <2>4. q \in CallType /\ q.pc \notin OtherThanViews /\ q.pc \notin ViewPcs
    BY <2>2 DEF CallType, OtherThanViews, DashPcs, RecordPcs, ViewPcs
  <2>5. ReqInv' /\ Moves(c, q)
    BY <2>2, <2>3, <2>4, BeginMoves DEF Begin
  <2> QED BY <1>1, <2>4, <2>5, IdleShows, ViewsRead
<1>3. CASE HomeViews(c)
  <2> DEFINE ctx == calls[c].ctx
             S == Listed(ctx, FALSE)
  <2>1. Goto(c, Shows(ctx, S)) /\ calls[c].pc = "home"
    BY <1>3 DEF HomeViews
  <2>2. ctx \in Contexts
    BY <2>1, CallKinds DEF ReqInv, HomeCalls
  <2>3. /\ S \in SUBSET ViewIds
        /\ \A v \in S : views[v] # None /\ views[v].tenant = ctx.tenant
                        /\ (views[v].owner = ctx.user \/ views[v].shared)
    BY DEF Listed
  <2> HIDE DEF S, ctx
  <2> QED BY <1>1, <2>1, <2>2, <2>3, ShowDone
<1> QED BY <1>2, <1>3

(* A step of another service leaves the views and the calls about them.    *)
LEMMA ViewsFrame ==
  ASSUME ViewsInv, UNCHANGED viewVars, CallsKept(ViewPcs)
  PROVE  ViewsInv' /\ ViewsForOwner
<1>1. ViewTables' /\ ViewsForOwner
  BY SameForOwner DEF ViewsInv, ViewTables, viewVars, ViewsForOwner
<1>2. ASSUME NEW d \in Clients
      PROVE  ViewCallOK(calls'[d], views', viewsUsed', everShared')
  <2>1. CASE calls'[d] = calls[d]
    BY <2>1 DEF ViewsInv, ViewCallsOK, viewVars
  <2>2. CASE calls'[d].pc \notin ViewPcs
    BY <2>2, IdleShows
  <2> QED BY <2>1, <2>2 DEF CallsKept
<1> QED BY <1>1, <1>2 DEF ViewsInv, ViewCallsOK

(* A new process: its calls are gone, the rows stay.                       *)
LEMMA StopMoves ==
  ASSUME ReqInv, StopRequests
  PROVE  ReqInv' /\ by' = None /\ \A c \in Clients : calls'[c] = Idle
BY IdleCall DEF StopRequests, ReqInv

LEMMA DeployViewsDone ==
  ASSUME ReqInv, ViewsInv, Deploy
  PROVE  ReqInv' /\ ViewsInv' /\ ViewsForOwner /\ \A c \in Clients : calls'[c] = Idle
<1>1. ReqInv' /\ \A c \in Clients : calls'[c] = Idle
  BY StopMoves DEF Deploy
<1>2. ViewTables' /\ ViewsForOwner
  BY SameForOwner DEF Deploy, ViewsInv, ViewTables, ViewsForOwner
<1>3. ViewCallsOK'
  BY <1>1, IdleShows, IdleApart DEF ViewCallsOK
<1> QED BY <1>1, <1>2, <1>3 DEF ViewsInv

LEMMA ViewsInitially ==
  ASSUME RequestsInit, SavedViewsInit
  PROVE  ReqInv /\ ViewsInv
<1>1. ReqInv /\ \A c \in Clients : calls[c] = Idle
  BY IdleCall DEF RequestsInit, ReqInv
<1>2. ViewTables
  BY DEF SavedViewsInit, ViewTables, ViewRowsOK, ViewNamesUnique
<1>3. ViewCallsOK
  BY <1>1, IdleShows, IdleApart DEF ViewCallsOK
<1> QED BY <1>1, <1>2, <1>3 DEF ViewsInv

-----------------------------------------------------------------------------
(* Dashboards, tiles and pins: the rows, and what a tile handler knows of  *)
(* the dashboard it has looked at.                                         *)
DashRowsOK(ds, used, set) ==
  /\ ds \in [DashIds -> Dash \union {None}]
  /\ used \subseteq DashIds \union TileIds \union PinIds
  /\ set \subseteq used /\ set \subseteq DashIds
  /\ \A d \in DashIds : ds[d] # None => d \in used /\ (d \in set => ValidLayout(ds[d].layout))
DashNamesUnique(ds) ==
  \A d, e \in DashIds : d # e /\ ds[d] # None /\ ds[e] # None =>
    <<ds[d].owner, ds[d].name>> # <<ds[e].owner, ds[e].name>>
TileRowsOK(ts, ds, used) ==
  /\ ts \in [TileIds -> Tile \union {None}]
  /\ \A t \in TileIds : ts[t] # None => t \in used /\ ds[ts[t].dash] # None
PinRowsOK(ps, used) ==
  /\ ps \in [PinIds -> Pin \union {None}]
  /\ \A p \in PinIds : ps[p] # None => p \in used
  /\ \A p, q \in PinIds : p # q /\ ps[p] # None => ps[p] # ps[q]
DashCallOK(q, ds, used) ==
  q.pc \in DashPcs => /\ q.id \in used
                      /\ ds[q.id] # None => ds[q.id].owner = q.ctx.user
                      /\ q.pc # "tile_add" => q.arg \in TileIds
DashTables ==
  /\ DashRowsOK(dashes, dashIdsUsed, arranged) /\ DashNamesUnique(dashes)
  /\ TileRowsOK(tiles, dashes, dashIdsUsed) /\ PinRowsOK(pins, dashIdsUsed)
DashCallsOK == \A c \in Clients : DashCallOK(calls[c], dashes, dashIdsUsed)
DashInv == DashTables /\ DashCallsOK

(* What every step does with the rows.                                     *)
DashesStay ==
  /\ dashIdsUsed \subseteq dashIdsUsed'
  /\ \A d \in dashIdsUsed \intersect DashIds : dashes'[d] # None =>
       dashes[d] # None /\ dashes'[d].owner = dashes[d].owner
DashesForOwner ==
  /\ \A d \in DashIds : ChangesForOwner(dashes[d], dashes'[d])
  /\ \A t \in TileIds : tiles'[t] # tiles[t] => TileChanges(t)
  /\ \A p \in PinIds : pins'[p] # pins[p] => ComesOrGoes(pins[p], pins'[p])
OtherThanDashes == ViewPcs \union RecordPcs \union {"resolve", "fire"}
DashesDone == ReqInv' /\ DashInv' /\ DashesForOwner /\ CallsKept(OtherThanDashes)

LEMMA IdleOfNobody ==
  Idle.pc \notin ViewPcs \union DashPcs \union RecordPcs \union {"resolve", "fire"}
BY IdleCall DEF DashPcs, RecordPcs, ViewPcs

LEMMA DashesFollow ==
  ASSUME ReqInv, DashInv, NEW c \in Clients, NEW q, Moves(c, q), ReqInv',
         DashTables', DashesStay, DashesForOwner, q.pc \notin OtherThanDashes,
         DashCallOK(q, dashes', dashIdsUsed')
  PROVE  DashesDone
<1>1. ASSUME NEW e \in Clients \ {c}
      PROVE  DashCallOK(calls'[e], dashes', dashIdsUsed')
  <2>1. DashCallOK(calls[e], dashes, dashIdsUsed) /\ calls'[e] = calls[e]
        /\ calls[e] \in CallType
    BY DEF DashInv, DashCallsOK, Moves, ReqInv
  <2>2. calls[e].pc \in DashPcs => calls[e].id \in DashIds
    BY <2>1, CallKinds DEF DashCalls
  <2> QED BY <2>1, <2>2 DEF DashCallOK, DashesStay
<1>2. DashCallsOK'
  BY <1>1 DEF DashCallsOK, Moves
<1> QED BY <1>2, MovesKeep DEF DashesDone, DashInv

LEMMA DashesAnswered ==
  ASSUME ReqInv, DashInv, NEW c \in Clients, Moves(c, Idle), ReqInv',
         DashTables', DashesStay, DashesForOwner
  PROVE  DashesDone
<1>1. Idle.pc \notin OtherThanDashes /\ DashCallOK(Idle, dashes', dashIdsUsed')
  BY IdleOfNobody DEF OtherThanDashes, DashCallOK
<1> QED BY <1>1, DashesFollow

LEMMA DashesSame ==
  ASSUME DashInv, UNCHANGED dashVars
  PROVE  DashTables' /\ DashesStay /\ DashesForOwner
BY SameForOwner DEF DashInv, DashTables, dashVars, DashesStay, DashesForOwner

(* The dashboards are as they were, and of the tiles and pins none is      *)
(* without its dashboard or twice.                                         *)
LEMMA DashesUntouched ==
  ASSUME DashInv, dashes' = dashes, arranged' = arranged, dashIdsUsed \subseteq dashIdsUsed',
         dashIdsUsed' \subseteq DashIds \union TileIds \union PinIds,
         TileRowsOK(tiles', dashes', dashIdsUsed'), PinRowsOK(pins', dashIdsUsed'),
         \A t \in TileIds : tiles'[t] # tiles[t] => TileChanges(t),
         \A p \in PinIds : pins'[p] # pins[p] => ComesOrGoes(pins[p], pins'[p])
  PROVE  DashTables' /\ DashesStay /\ DashesForOwner
BY SameForOwner DEF DashInv, DashTables, DashRowsOK, DashNamesUnique, DashesStay, DashesForOwner

(* A row is written whose name is free for it.                             *)
LEMMA DashWritten ==
  ASSUME DashInv, NEW d \in DashIds, NEW row \in Dash, dashes' = [dashes EXCEPT ![d] = row],
         UNCHANGED <<tiles, pins>>, FreeDashName(row.owner, row.name, d),
         dashIdsUsed \subseteq dashIdsUsed', d \in dashIdsUsed',
         dashIdsUsed' \subseteq DashIds \union TileIds \union PinIds,
         \/ d \notin dashIdsUsed
         \/ dashes[d] # None /\ row.owner = dashes[d].owner,
         arranged \subseteq arranged', arranged' \subseteq arranged \union {d},
         d \in arranged' => ValidLayout(row.layout), Acts(row.owner)
  PROVE  DashTables' /\ DashesStay /\ DashesForOwner
<1>1. DashRowsOK(dashes, dashIdsUsed, arranged) /\ DashNamesUnique(dashes)
      /\ TileRowsOK(tiles, dashes, dashIdsUsed) /\ PinRowsOK(pins, dashIdsUsed)
  BY DEF DashInv, DashTables
<1>2. /\ dashes' \in [DashIds -> Dash \union {None}] /\ dashes'[d] = row /\ row # None
      /\ \A e \in DashIds \ {d} : dashes'[e] = dashes[e]
  BY <1>1 DEF DashRowsOK
<1>3. DashRowsOK(dashes', dashIdsUsed', arranged')
  BY <1>1, <1>2 DEF DashRowsOK
<1>4. DashNamesUnique(dashes')
  <2>1. \A e \in DashIds \ {d} :
          dashes[e] # None => <<dashes[e].owner, dashes[e].name>> # <<row.owner, row.name>>
    BY DEF FreeDashName
  <2>2. ASSUME NEW a \in DashIds, NEW b \in DashIds, a # b,
               dashes'[a] # None, dashes'[b] # None
        PROVE  <<dashes'[a].owner, dashes'[a].name>> # <<dashes'[b].owner, dashes'[b].name>>
    <3>1. CASE a = d
      BY <1>2, <2>1, <2>2, <3>1
    <3>2. CASE b = d
      BY <1>2, <2>1, <2>2, <3>2
    <3>3. CASE a # d /\ b # d
      BY <1>1, <1>2, <2>2, <3>3 DEF DashNamesUnique
    <3> QED BY <3>1, <3>2, <3>3
  <2> QED BY <2>2 DEF DashNamesUnique
<1>5. TileRowsOK(tiles', dashes', dashIdsUsed')
  <2>1. \A t \in TileIds : tiles[t] # None => tiles[t].dash \in DashIds
    BY <1>1 DEF TileRowsOK, Tile
  <2> QED BY <1>1, <1>2, <2>1 DEF TileRowsOK
<1>6. d \notin dashIdsUsed => dashes[d] = None
  BY <1>1 DEF DashRowsOK
<1>7. DashesStay
  BY <1>2, <1>6 DEF DashesStay
<1>8. ChangesForOwner(dashes[d], dashes'[d])
  BY <1>2, <1>6 DEF ChangesForOwner, RowOf
<1>9. DashesForOwner
  BY <1>2, <1>8, SameForOwner DEF DashesForOwner
<1>10. PinRowsOK(pins', dashIdsUsed')
  BY <1>1 DEF PinRowsOK
<1> QED BY <1>1, <1>3, <1>4, <1>5, <1>7, <1>9, <1>10 DEF DashTables

LEMMA CreateDashDone ==
  ASSUME ReqInv, DashInv, NEW c \in Clients, CreateDash(c)
  PROVE  DashesDone
<1>1. PICK ctx \in Contexts, d \in DashIds \ dashIdsUsed, name \in DashNames,
           layout \in Layouts :
        /\ Once(c, ctx)
        /\ dashIdsUsed' = dashIdsUsed \union {d}
        /\ dashes' = IF FreeDashName(ctx.user, name, d)
                     THEN [dashes EXCEPT ![d] = [owner |-> ctx.user, tenant |-> ctx.tenant,
                                                 name |-> name, layout |-> layout]]
                     ELSE dashes
        /\ UNCHANGED <<tiles, pins, arranged>>
  BY DEF CreateDash
<1>2. ReqInv' /\ Moves(c, Idle) /\ by' = ctx /\ by' # None
  BY <1>1, OnceMoves
<1>3. /\ DashTables /\ dashIdsUsed \subseteq DashIds \union TileIds \union PinIds
      /\ arranged \subseteq dashIdsUsed /\ PinRowsOK(pins, dashIdsUsed)
      /\ TileRowsOK(tiles, dashes, dashIdsUsed)
  BY DEF DashInv, DashTables, DashRowsOK
<1>4. /\ dashIdsUsed \subseteq dashIdsUsed' /\ d \in dashIdsUsed' /\ d \notin arranged'
      /\ dashIdsUsed' \subseteq DashIds \union TileIds \union PinIds
  BY <1>1, <1>3
<1>5. DashTables' /\ DashesStay /\ DashesForOwner
  <2>1. CASE FreeDashName(ctx.user, name, d)
    <3> DEFINE row == [owner |-> ctx.user, tenant |-> ctx.tenant, name |-> name,
                       layout |-> layout]
    <3>1. row \in Dash /\ row.owner = ctx.user /\ row.name = name
      BY ContextOf DEF Dash
    <3>2. dashes' = [dashes EXCEPT ![d] = row]
      BY <1>1, <2>1
    <3> HIDE DEF row
    <3>3. Acts(row.owner) /\ FreeDashName(row.owner, row.name, d)
      BY <1>2, <2>1, <3>1 DEF Acts
    <3> QED BY <1>1, <1>4, <3>1, <3>2, <3>3, DashWritten
  <2>2. CASE ~FreeDashName(ctx.user, name, d)
    <3>1. UNCHANGED <<dashes, tiles, pins, arranged>>
      BY <1>1, <2>2
    <3>2. TileRowsOK(tiles', dashes', dashIdsUsed') /\ PinRowsOK(pins', dashIdsUsed')
      BY <1>3, <1>4, <3>1 DEF TileRowsOK, PinRowsOK
    <3> QED BY <1>4, <3>1, <3>2, DashesUntouched
  <2> QED BY <2>1, <2>2
<1> QED BY <1>2, <1>5, DashesAnswered

LEMMA UpdateDashDone ==
  ASSUME ReqInv, DashInv, NEW c \in Clients, UpdateDash(c)
  PROVE  DashesDone
<1>1. PICK ctx \in Contexts, d \in dashIdsUsed \intersect DashIds :
        \E name \in DashNames \union {None}, layout \in Layouts \union {None} :
          LET row == dashes[d]
              new == [owner |-> row.owner, tenant |-> row.tenant,
                      name |-> Given(name, row.name), layout |-> Given(layout, row.layout)]
              written == /\ layout # None => ValidLayout(layout)
                         /\ OwnDash(ctx, d)
                         /\ name # None => FreeDashName(ctx.user, name, d)
          IN
          /\ Once(c, ctx)
          /\ dashes' = IF written THEN [dashes EXCEPT ![d] = new] ELSE dashes
          /\ arranged' = IF written /\ layout # None THEN arranged \union {d} ELSE arranged
          /\ UNCHANGED <<tiles, pins, dashIdsUsed>>
  BY DEF UpdateDash
<1>2. PICK name \in DashNames \union {None}, layout \in Layouts \union {None} :
          LET row == dashes[d]
              new == [owner |-> row.owner, tenant |-> row.tenant,
                      name |-> Given(name, row.name), layout |-> Given(layout, row.layout)]
              written == /\ layout # None => ValidLayout(layout)
                         /\ OwnDash(ctx, d)
                         /\ name # None => FreeDashName(ctx.user, name, d)
          IN
          /\ Once(c, ctx)
          /\ dashes' = IF written THEN [dashes EXCEPT ![d] = new] ELSE dashes
          /\ arranged' = IF written /\ layout # None THEN arranged \union {d} ELSE arranged
          /\ UNCHANGED <<tiles, pins, dashIdsUsed>>
  BY <1>1
<1> DEFINE row == dashes[d]
           new == [owner |-> row.owner, tenant |-> row.tenant,
                   name |-> Given(name, row.name), layout |-> Given(layout, row.layout)]
           written == /\ layout # None => ValidLayout(layout)
                      /\ OwnDash(ctx, d)
                      /\ name # None => FreeDashName(ctx.user, name, d)
<1>3. ReqInv' /\ Moves(c, Idle) /\ by' = ctx /\ by' # None
  BY <1>2, OnceMoves
<1>4. UNCHANGED <<tiles, pins, dashIdsUsed>> /\ d \in DashIds /\ d \in dashIdsUsed
  BY <1>2
<1>5. DashTables' /\ DashesStay /\ DashesForOwner
  <2>1. CASE written
    <3>1. /\ dashes' = [dashes EXCEPT ![d] = new]
          /\ arranged' = IF layout # None THEN arranged \union {d} ELSE arranged
      BY <1>2, <2>1
    <3>2. /\ DashRowsOK(dashes, dashIdsUsed, arranged) /\ DashNamesUnique(dashes)
          /\ dashIdsUsed \subseteq DashIds \union TileIds \union PinIds
      BY DEF DashInv, DashTables, DashRowsOK
    <3>3. row \in Dash /\ row # None /\ row.owner = ctx.user
      BY <1>4, <2>1, <3>2 DEF DashRowsOK, OwnDash
    <3>4. /\ new \in Dash /\ new.owner = row.owner /\ new.name = Given(name, row.name)
          /\ new.layout = Given(layout, row.layout)
      BY <3>3 DEF Dash, Given
    <3>5. FreeDashName(ctx.user, new.name, d)
      BY <1>4, <2>1, <3>2, <3>3, <3>4 DEF FreeDashName, DashNamesUnique, Given
    <3>6. d \in arranged' => ValidLayout(new.layout)
      BY <1>4, <2>1, <3>1, <3>2, <3>3, <3>4 DEF DashRowsOK, Given
    <3>7. arranged \subseteq arranged' /\ arranged' \subseteq arranged \union {d}
      BY <3>1
    <3> HIDE DEF new, row, written
    <3>8. Acts(new.owner)
      BY <1>3, <3>3, <3>4 DEF Acts
    <3> QED BY <1>4, <3>1, <3>2, <3>3, <3>4, <3>5, <3>6, <3>7, <3>8, DashWritten DEF row
  <2>2. CASE ~written
    <3>1. UNCHANGED dashVars
      BY <1>2, <2>2 DEF dashVars
    <3> QED BY <3>1, DashesSame
  <2> QED BY <2>1, <2>2
<1> QED BY <1>3, <1>5, DashesAnswered

LEMMA DeleteDashDone ==
  ASSUME ReqInv, DashInv, NEW c \in Clients, DeleteDash(c)
  PROVE  DashesDone
<1>1. PICK ctx \in Contexts, d \in dashIdsUsed \intersect DashIds :
        /\ Once(c, ctx)
        /\ DropTiles(d)
        /\ dashes' = IF OwnDash(ctx, d) THEN [dashes EXCEPT ![d] = None] ELSE dashes
        /\ UNCHANGED <<pins, dashIdsUsed, arranged>>
  BY DEF DeleteDash
<1>2. ReqInv' /\ Moves(c, Idle) /\ by' = ctx /\ by' # None
  BY <1>1, OnceMoves
<1>3. DashRowsOK(dashes, dashIdsUsed, arranged) /\ DashNamesUnique(dashes)
      /\ TileRowsOK(tiles, dashes, dashIdsUsed) /\ PinRowsOK(pins, dashIdsUsed)
  BY DEF DashInv, DashTables
<1>4. /\ dashes' \in [DashIds -> Dash \union {None}]
      /\ \A e \in DashIds \ {d} : dashes'[e] = dashes[e]
      /\ dashes'[d] = dashes[d] \/ (dashes'[d] = None /\ OwnDash(ctx, d))
  BY <1>1, <1>3 DEF DashRowsOK
<1>5. /\ tiles' \in [TileIds -> Tile \union {None}]
      /\ \A t \in TileIds : tiles'[t] # None => tiles'[t] = tiles[t] /\ tiles[t].dash # d
      /\ \A t \in TileIds : tiles'[t] # tiles[t] =>
           /\ tiles[t] # None /\ tiles[t].dash = d
           /\ \A u \in TileIds : tiles[u] # None /\ tiles[u].dash = d => tiles'[u] = None
  BY <1>1, <1>3 DEF DropTiles, TileRowsOK
<1>6. TileRowsOK(tiles', dashes', dashIdsUsed')
  <2>1. \A t \in TileIds : tiles[t] # None => tiles[t].dash \in DashIds
    BY <1>3 DEF TileRowsOK, Tile
  <2> QED BY <1>1, <1>3, <1>4, <1>5, <2>1 DEF TileRowsOK
<1>7. DashRowsOK(dashes', dashIdsUsed', arranged')
  BY <1>1, <1>3, <1>4 DEF DashRowsOK
<1>8. DashNamesUnique(dashes')
  BY <1>3, <1>4 DEF DashNamesUnique
<1>9. DashesStay
  BY <1>1, <1>4 DEF DashesStay
<1>10. DashesForOwner
  <2>1. ChangesForOwner(dashes[d], dashes'[d])
    BY <1>2, <1>4 DEF ChangesForOwner, RowOf, OwnDash, Acts
  <2>2. \A t \in TileIds : tiles'[t] # tiles[t] => TileChanges(t)
    BY <1>5 DEF TileChanges, RowOf
  <2> QED BY <1>1, <1>4, <2>1, <2>2, SameForOwner DEF DashesForOwner
<1>11. DashTables'
  BY <1>1, <1>3, <1>6, <1>7, <1>8 DEF DashTables
<1> QED BY <1>2, <1>9, <1>10, <1>11, DashesAnswered

(* --------------------------------- tiles -------------------------------- *)

LEMMA TileCheckDone ==
  ASSUME ReqInv, DashInv, NEW c \in Clients, NEW pc \in DashPcs, NEW t \in TileIds \union {None},
         pc # "tile_add" => t \in TileIds, TileCheck(c, pc, t)
  PROVE  DashesDone
<1>1. PICK ctx \in Contexts, d \in DashIds :
        OwnDash(ctx, d) /\ Begin(c, Call(pc, ctx, d, t)) /\ UNCHANGED dashVars
  BY DEF TileCheck
<1> DEFINE q == Call(pc, ctx, d, t)
<1>2. q \in DashCalls /\ q.pc = pc /\ q.ctx = ctx /\ q.id = d /\ q.arg = t
  BY DEF DashCalls, Call
<1>3. Begin(c, q)
  BY <1>1
<1> HIDE DEF q
<1>4. q \in CallType /\ q.pc \notin OtherThanDashes
  BY <1>2 DEF CallType, OtherThanDashes, DashPcs, RecordPcs, ViewPcs
<1>5. ReqInv' /\ Moves(c, q)
  BY <1>2, <1>3, <1>4, BeginMoves DEF Begin
<1>6. d \in dashIdsUsed /\ dashes[d].owner = ctx.user
  BY <1>1 DEF DashInv, DashTables, DashRowsOK, OwnDash
<1>7. DashCallOK(q, dashes', dashIdsUsed')
  BY <1>1, <1>2, <1>6 DEF DashCallOK, dashVars
<1> QED BY <1>1, <1>4, <1>5, <1>7, DashesSame, DashesFollow

(* What holds of a call that is about to write a tile.                     *)
LEMMA Tiling ==
  ASSUME ReqInv, DashInv, NEW c \in Clients, calls[c].pc \in DashPcs
  PROVE  /\ calls[c].ctx \in Contexts /\ calls[c].id \in DashIds
         /\ dashes[calls[c].id] # None => dashes[calls[c].id].owner = calls[c].ctx.user
         /\ calls[c].pc # "tile_add" => calls[c].arg \in TileIds
<1>1. calls[c] \in DashCalls
  BY CallKinds DEF ReqInv
<1>2. DashCallOK(calls[c], dashes, dashIdsUsed)
  BY DEF DashInv, DashCallsOK
<1> QED BY <1>1, <1>2 DEF DashCalls, DashCallOK

LEMMA AddTileDone ==
  ASSUME ReqInv, DashInv, NEW c \in Clients, AddTileInsert(c)
  PROVE  DashesDone
<1> DEFINE d == calls[c].id
           ctx == calls[c].ctx
<1>1. PICK t \in TileIds \ dashIdsUsed :
        /\ calls[c].pc = "tile_add"
        /\ dashIdsUsed' = dashIdsUsed \union {t}
        /\ tiles' = IF dashes[d] = None THEN tiles
                    ELSE [tiles EXCEPT ![t] = [dash |-> d, at |-> 0]]
        /\ Return(c)
        /\ UNCHANGED <<dashes, pins, arranged>>
  BY DEF AddTileInsert
<1>2. /\ ctx \in Contexts /\ d \in DashIds
      /\ dashes[d] # None => dashes[d].owner = ctx.user
  BY <1>1, Tiling DEF DashPcs
<1>3. ReqInv' /\ Moves(c, Idle) /\ by' = ctx
  BY <1>1, ReturnMoves
<1>4. /\ dashIdsUsed \subseteq DashIds \union TileIds \union PinIds
      /\ PinRowsOK(pins, dashIdsUsed)
      /\ TileRowsOK(tiles, dashes, dashIdsUsed)
  BY DEF DashInv, DashTables, DashRowsOK
<1> HIDE DEF d, ctx
<1>5. /\ dashIdsUsed \subseteq dashIdsUsed'
      /\ dashIdsUsed' \subseteq DashIds \union TileIds \union PinIds
      /\ PinRowsOK(pins', dashIdsUsed')
  BY <1>1, <1>4 DEF PinRowsOK
<1>6. CASE dashes[d] = None
  <2>1. tiles' = tiles
    BY <1>1, <1>6
  <2>2. TileRowsOK(tiles', dashes', dashIdsUsed')
    BY <1>1, <1>4, <2>1 DEF TileRowsOK
  <2>3. DashTables' /\ DashesStay /\ DashesForOwner
    BY <1>1, <1>5, <2>1, <2>2, DashesUntouched
  <2> QED BY <1>3, <2>3, DashesAnswered
<1>7. CASE dashes[d] # None
  <2> DEFINE tile == [dash |-> d, at |-> 0]
  <2>1. tile \in Tile /\ tile.dash = d
    BY <1>2 DEF Tile
  <2>2. tiles' = [tiles EXCEPT ![t] = tile]
    BY <1>1, <1>7
  <2> HIDE DEF tile
  <2>3. /\ tiles' \in [TileIds -> Tile \union {None}] /\ tiles'[t] = tile
        /\ \A s \in TileIds \ {t} : tiles'[s] = tiles[s]
    BY <1>1, <1>4, <2>1, <2>2 DEF TileRowsOK
  <2>4. TileRowsOK(tiles', dashes', dashIdsUsed')
    BY <1>1, <1>4, <1>7, <2>1, <2>3 DEF TileRowsOK
  <2>5. TileChanges(t)
    <3>1. tiles[t] = None
      BY <1>1, <1>4 DEF TileRowsOK
    <3>2. RowOf(tiles[t], tiles'[t]).dash = d
      BY <2>1, <2>3, <3>1 DEF RowOf
    <3>3. Acts(dashes[d].owner)
      BY <1>2, <1>3, <1>7 DEF Acts
    <3> QED BY <1>7, <3>1, <3>2, <3>3 DEF TileChanges
  <2>6. DashTables' /\ DashesStay /\ DashesForOwner
    BY <1>1, <1>5, <2>3, <2>4, <2>5, DashesUntouched
  <2> QED BY <1>3, <2>6, DashesAnswered
<1> QED BY <1>6, <1>7

(* The tile is written or removed only if it is one of the dashboard that  *)
(* the handler has looked at.                                              *)
LEMMA WriteTileDone ==
  ASSUME ReqInv, DashInv, NEW c \in Clients, UpdateTileWrite(c) \/ DeleteTileWrite(c)
  PROVE  DashesDone
<1> DEFINE d == calls[c].id
           ctx == calls[c].ctx
           t == calls[c].arg
<1>1. /\ calls[c].pc \in {"tile_update", "tile_delete"} /\ Return(c)
      /\ UNCHANGED <<dashes, pins, dashIdsUsed, arranged>>
      /\ \/ tiles' = tiles
         \/ OfDash(t, d) /\ (\/ tiles' = [tiles EXCEPT ![t] = [@ EXCEPT !.at = 1]]
                             \/ tiles' = [tiles EXCEPT ![t] = None])
  BY DEF UpdateTileWrite, DeleteTileWrite
<1>2. /\ ctx \in Contexts /\ d \in DashIds /\ t \in TileIds
      /\ dashes[d] # None => dashes[d].owner = ctx.user
  BY <1>1, Tiling DEF DashPcs
<1>3. ReqInv' /\ Moves(c, Idle) /\ by' = ctx
  BY <1>1, ReturnMoves
<1>4. /\ dashIdsUsed \subseteq DashIds \union TileIds \union PinIds
      /\ PinRowsOK(pins, dashIdsUsed)
      /\ TileRowsOK(tiles, dashes, dashIdsUsed)
  BY DEF DashInv, DashTables, DashRowsOK
<1> HIDE DEF d, ctx, t
<1>5. CASE tiles' = tiles
  <2>1. UNCHANGED dashVars
    BY <1>1, <1>5 DEF dashVars
  <2> QED BY <1>3, <2>1, DashesSame, DashesAnswered
<1>6. ASSUME OfDash(t, d), NEW new \in Tile \union {None}, tiles' = [tiles EXCEPT ![t] = new],
             new # None => new.dash = d
      PROVE  DashesDone
  <2>1. /\ tiles' \in [TileIds -> Tile \union {None}] /\ tiles'[t] = new
        /\ \A s \in TileIds \ {t} : tiles'[s] = tiles[s]
    BY <1>2, <1>4, <1>6 DEF TileRowsOK
  <2>2. dashes[d] # None /\ t \in dashIdsUsed
    BY <1>2, <1>4, <1>6 DEF TileRowsOK, OfDash
  <2>3. TileRowsOK(tiles', dashes', dashIdsUsed')
    BY <1>1, <1>4, <1>6, <2>1, <2>2 DEF TileRowsOK
  <2>4. TileChanges(t)
    <3>1. RowOf(tiles[t], tiles'[t]).dash = d /\ tiles[t] # None
      BY <1>6 DEF RowOf, OfDash
    <3>2. Acts(dashes[d].owner)
      BY <1>2, <1>3, <2>2 DEF Acts
    <3> QED BY <1>6, <2>1, <2>2, <3>1, <3>2 DEF TileChanges
  <2>5. DashTables' /\ DashesStay /\ DashesForOwner
    BY <1>1, <1>4, <2>1, <2>3, <2>4, DashesUntouched
  <2> QED BY <1>3, <2>5, DashesAnswered
<1>7. ASSUME OfDash(t, d), tiles' = [tiles EXCEPT ![t] = [@ EXCEPT !.at = 1]]
      PROVE  DashesDone
  <2> DEFINE new == [tiles[t] EXCEPT !.at = 1]
  <2>1. tiles[t] \in Tile /\ tiles[t].dash = d
    BY <1>2, <1>4, <1>7 DEF TileRowsOK, OfDash
  <2>2. new \in Tile /\ new.dash = d
    BY <2>1 DEF Tile
  <2>3. tiles' = [tiles EXCEPT ![t] = new]
    BY <1>7
  <2> HIDE DEF new
  <2> QED BY <1>6, <1>7, <2>2, <2>3
<1>8. ASSUME OfDash(t, d), tiles' = [tiles EXCEPT ![t] = None]
      PROVE  DashesDone
  BY <1>6, <1>8
<1> QED BY <1>1, <1>5, <1>7, <1>8

(* --------------------------------- pins --------------------------------- *)

LEMMA PinDone ==
  ASSUME ReqInv, DashInv, NEW c \in Clients, CreatePin(c) \/ DeletePin(c)
  PROVE  DashesDone
<1>1. /\ dashIdsUsed \subseteq DashIds \union TileIds \union PinIds
      /\ PinRowsOK(pins, dashIdsUsed)
      /\ TileRowsOK(tiles, dashes, dashIdsUsed)
  BY DEF DashInv, DashTables, DashRowsOK
<1>2. CASE CreatePin(c)
  <2>1. PICK ctx \in Contexts, p \in PinIds \ dashIdsUsed, source \in Sources :
          LET pin == [user |-> ctx.user, source |-> source] IN
          /\ Once(c, ctx)
          /\ dashIdsUsed' = dashIdsUsed \union {p}
          /\ pins' = IF \E q \in PinIds : pins[q] = pin THEN pins
                     ELSE [pins EXCEPT ![p] = pin]
          /\ UNCHANGED <<dashes, tiles, arranged>>
    BY <1>2 DEF CreatePin
  <2> DEFINE pin == [user |-> ctx.user, source |-> source]
  <2>2. pin \in Pin
    BY ContextOf DEF Pin
  <2>3. /\ ReqInv' /\ Moves(c, Idle) /\ UNCHANGED <<dashes, tiles, arranged>>
        /\ Acts(pin.user)
        /\ dashIdsUsed' = dashIdsUsed \union {p}
        /\ pins' = IF \E q \in PinIds : pins[q] = pin THEN pins ELSE [pins EXCEPT ![p] = pin]
    BY <2>1, OnceMoves DEF Acts
  <2> HIDE DEF pin
  <2>4. PinRowsOK(pins', dashIdsUsed')
    <3>1. CASE \E q \in PinIds : pins[q] = pin
      BY <1>1, <2>3, <3>1 DEF PinRowsOK
    <3>2. CASE \A q \in PinIds : pins[q] # pin
      BY <1>1, <2>2, <2>3, <3>2 DEF PinRowsOK
    <3> QED BY <3>1, <3>2
  <2>5. TileRowsOK(tiles', dashes', dashIdsUsed')
    BY <1>1, <2>3 DEF TileRowsOK
  <2>6. dashIdsUsed \subseteq dashIdsUsed'
        /\ dashIdsUsed' \subseteq DashIds \union TileIds \union PinIds
    BY <1>1, <2>3
  <2>7. \A q \in PinIds : pins'[q] # pins[q] => ComesOrGoes(pins[q], pins'[q])
    <3>1. ASSUME NEW q \in PinIds, pins'[q] # pins[q]
          PROVE  pins'[q] = pin /\ pins[q] = None
      BY <1>1, <2>1, <2>3, <3>1 DEF PinRowsOK
    <3> QED BY <2>3, <3>1 DEF ComesOrGoes, RowOf
  <2> QED BY <2>3, <2>4, <2>5, <2>6, <2>7, DashesUntouched, DashesAnswered
<1>3. CASE DeletePin(c)
  <2>1. PICK ctx \in Contexts, p \in dashIdsUsed \intersect PinIds :
          /\ Once(c, ctx)
          /\ pins' = IF pins[p] # None /\ pins[p].user = ctx.user
                     THEN [pins EXCEPT ![p] = None] ELSE pins
          /\ UNCHANGED <<dashes, tiles, dashIdsUsed, arranged>>
    BY <1>3 DEF DeletePin
  <2>2. ReqInv' /\ Moves(c, Idle) /\ Acts(ctx.user)
    BY <2>1, OnceMoves DEF Acts
  <2>3. PinRowsOK(pins', dashIdsUsed')
    BY <1>1, <2>1 DEF PinRowsOK
  <2>4. TileRowsOK(tiles', dashes', dashIdsUsed')
    BY <1>1, <2>1 DEF TileRowsOK
  <2>5. \A q \in PinIds : pins'[q] # pins[q] => ComesOrGoes(pins[q], pins'[q])
    <3>1. ASSUME NEW q \in PinIds, pins'[q] # pins[q]
          PROVE  pins'[q] = None /\ pins[q] # None /\ pins[q].user = ctx.user
      BY <1>1, <2>1, <3>1 DEF PinRowsOK
    <3> QED BY <2>2, <3>1 DEF ComesOrGoes, RowOf
  <2> QED BY <1>1, <2>1, <2>2, <2>3, <2>4, <2>5, DashesUntouched, DashesAnswered
<1> QED BY <1>2, <1>3

LEMMA DashStepDone ==
  ASSUME ReqInv, DashInv, NEW c \in Clients, DashStep(c)
  PROVE  DashesDone
<1>1. ASSUME AddTileCheck(c) PROVE DashesDone
  BY <1>1, TileCheckDone DEF AddTileCheck, DashPcs
<1>2. ASSUME UpdateTileCheck(c) PROVE DashesDone
  BY <1>2, TileCheckDone DEF UpdateTileCheck, DashPcs, KnownTiles
<1>3. ASSUME DeleteTileCheck(c) PROVE DashesDone
  BY <1>3, TileCheckDone DEF DeleteTileCheck, DashPcs, KnownTiles
<1> QED BY <1>1, <1>2, <1>3, CreateDashDone, UpdateDashDone, DeleteDashDone, AddTileDone,
           WriteTileDone, PinDone DEF DashStep

(* A step of another service, or the start of a new process.               *)
LEMMA DashesFrame ==
  ASSUME DashInv, UNCHANGED dashVars, CallsKept(DashPcs)
  PROVE  DashInv' /\ DashesForOwner
<1>1. DashTables' /\ DashesForOwner
  BY DashesSame
<1>2. DashCallsOK'
  BY DEF DashInv, DashCallsOK, DashCallOK, CallsKept, dashVars
<1> QED BY <1>1, <1>2 DEF DashInv

LEMMA DashesInitially ==
  ASSUME RequestsInit, DashboardsInit
  PROVE  DashInv
<1>1. DashTables
  BY DEF DashboardsInit, DashTables, DashRowsOK, DashNamesUnique, TileRowsOK, PinRowsOK
<1>2. DashCallsOK
  BY IdleOfNobody DEF RequestsInit, DashCallsOK, DashCallOK
<1> QED BY <1>1, <1>2 DEF DashInv

LEMMA ElementsOf ==
  ASSUME NEW S, NEW s \in Seq(S)
  PROVE  DOMAIN s \subseteq Nat /\ DOMAIN s = 1..Len(s) /\ \A i \in DOMAIN s : s[i] \in S
<1>1. Len(s) \in Nat /\ DOMAIN s = 1..Len(s)
  OBVIOUS
<1>2. ASSUME NEW i \in 1..Len(s) PROVE s[i] \in S
  OBVIOUS
<1>3. \A i \in 1..Len(s) : i \in Nat
  BY <1>1
<1> QED BY <1>1, <1>2, <1>3

(* A layout that is valid has its cells within twelve columns, each in one *)
(* rectangle.                                                              *)
LEMMA ValidLayoutFits ==
  ASSUME NEW layout \in Layouts, ValidLayout(layout)
  PROVE  \A i, j \in DOMAIN layout :
           /\ \A cell \in Cells(Whole(layout[i])) : cell[1] < 12
           /\ i # j => Cells(Whole(layout[i])) \intersect Cells(Whole(layout[j])) = {}
<1> DEFINE Rects == [x : Int, y : Int, w : Int, h : Int]
<1>1. layout \in Seq(Rects)
  BY DashboardsAssumption
<1>0. \A r \in Rects : Whole(r) \in Rects
  <2>1. ASSUME NEW n \in Int PROVE Trunc(n) \in Int
    BY DEF Trunc
  <2> QED BY <2>1 DEF Whole
<1> HIDE DEF Rects
<1>2. /\ DOMAIN layout \subseteq Nat /\ DOMAIN layout = 1..Len(layout)
      /\ \A i \in DOMAIN layout : layout[i] \in Rects
  BY <1>1, ElementsOf
<1>3. ASSUME NEW r \in Rects, NEW s \in Rects, Apart(r, s)
      PROVE  Cells(r) \intersect Cells(s) = {}
  <2>1. r.x \in Int /\ r.y \in Int /\ r.w \in Int /\ r.h \in Int
    BY DEF Rects
  <2>2. s.x \in Int /\ s.y \in Int /\ s.w \in Int /\ s.h \in Int
    BY DEF Rects
  <2>3. ASSUME NEW a \in r.x .. (r.x + r.w - 1), a \in s.x .. (s.x + s.w - 1),
               NEW b \in r.y .. (r.y + r.h - 1), b \in s.y .. (s.y + s.h - 1)
        PROVE  FALSE
    BY <1>3, <2>1, <2>2, <2>3 DEF Apart
  <2>4. ASSUME NEW cell, cell \in Cells(r), cell \in Cells(s)
        PROVE  FALSE
    <3>1. cell[1] \in r.x .. (r.x + r.w - 1) /\ cell[2] \in r.y .. (r.y + r.h - 1)
      BY <2>4 DEF Cells
    <3>2. cell[1] \in s.x .. (s.x + s.w - 1) /\ cell[2] \in s.y .. (s.y + s.h - 1)
      BY <2>4 DEF Cells
    <3> QED BY <2>3, <3>1, <3>2
  <2> QED BY <2>4
<1>4. ASSUME NEW i \in DOMAIN layout, NEW j \in DOMAIN layout
      PROVE  /\ \A cell \in Cells(Whole(layout[i])) : cell[1] < 12
             /\ i # j => Cells(Whole(layout[i])) \intersect Cells(Whole(layout[j])) = {}
  <2>1. Whole(layout[i]) \in Rects /\ Whole(layout[j]) \in Rects /\ i \in Nat /\ j \in Nat
        /\ Whole(layout[i]).x + Whole(layout[i]).w <= 12 /\ Whole(layout[i]).w \in 1..12
    BY <1>0, <1>2 DEF ValidLayout
  <2>2. ASSUME NEW cell \in Cells(Whole(layout[i]))
        PROVE  cell[1] < 12
    <3> DEFINE r == Whole(layout[i])
    <3>1. r.x \in Int /\ r.w \in Int /\ r.x + r.w <= 12
      BY <2>1 DEF Rects
    <3>2. cell[1] \in r.x .. (r.x + r.w - 1)
      BY DEF Cells
    <3> HIDE DEF r
    <3> QED BY <3>1, <3>2
  <2>3. CASE j < i
    <3>1. j \in 1..(i - 1)
      BY <1>2, <2>1, <2>3
    <3>2. Apart(Whole(layout[i]), Whole(layout[j]))
      BY <3>1 DEF ValidLayout
    <3> QED BY <1>3, <2>1, <2>2, <3>2
  <2>4. CASE i < j
    <3>1. i \in 1..(j - 1)
      BY <1>2, <2>1, <2>4
    <3>2. Apart(Whole(layout[j]), Whole(layout[i]))
      BY <3>1 DEF ValidLayout
    <3> QED BY <1>3, <2>1, <2>2, <3>2
  <2>5. CASE i = j
    BY <2>2, <2>5
  <2> QED BY <2>1, <2>3, <2>4, <2>5
<1> QED BY <1>4

-----------------------------------------------------------------------------
(* Share tokens: the counts of a row, and what a resolve under way has     *)
(* read of it.                                                             *)
Counted(row, answers, both) ==
  /\ row.limit # None => row.count <= row.limit
  /\ ~both => answers <= row.count
TokenTables(ts, iss, acc, over) ==
  /\ ts \in [TokenIds -> Token \union {None}]
  /\ iss \subseteq TokenIds /\ over \subseteq iss
  /\ acc \in [TokenIds -> Nat]
  /\ \A t \in TokenIds : ts[t] # None => t \in iss /\ Counted(ts[t], acc[t], t \in over)
  /\ \A t \in TokenIds \ iss : acc[t] = 0
TokenCallOK(q, ts, iss, over) ==
  q.pc = "resolve" =>
    /\ q.id \in iss
    /\ ts[q.id] # None => /\ ts[q.id].limit # None => q.arg < ts[q.id].limit
                          /\ q.id \notin over => q.arg = ts[q.id].count
TokenCallsOK == \A c \in Clients : TokenCallOK(calls[c], tokens, issued, overlapped)
Together(p, q, over) ==
  p.pc = "resolve" /\ q.pc = "resolve" /\ p.id = q.id => p.id \in over
OthersOverlap == \A c, d \in Clients : c # d => Together(calls[c], calls[d], overlapped)
TokenInv ==
  TokenTables(tokens, issued, accepted, overlapped) /\ TokenCallsOK /\ OthersOverlap

(* What a step of c does with the rows.                                    *)
TokensStay(c) ==
  /\ issued \subseteq issued' /\ overlapped \subseteq overlapped'
  /\ \A t \in issued :
       tokens'[t] # None =>
         /\ tokens[t] # None /\ tokens'[t].limit = tokens[t].limit
         /\ \/ tokens'[t].count = tokens[t].count
            \/ \A d \in Clients \ {c} :
                 calls[d].pc = "resolve" /\ calls[d].id = t => t \in overlapped
TokensForOwner ==
  \A t \in TokenIds : tokens'[t] # tokens[t] => TokenChanges(tokens[t], tokens'[t])
OtherThanTokens == ViewPcs \union DashPcs \union RecordPcs \union {"fire"}
TokensDone == ReqInv' /\ TokenInv' /\ TokensForOwner /\ CallsKept(OtherThanTokens)

LEMMA TokenRow ==
  ASSUME NEW row \in Token
  PROVE  /\ row.count \in Nat /\ (row.limit # None => row.limit \in Nat \ {0})
         /\ row.limit \in Limits /\ row # None
BY ShareTokensAssumption DEF Token

LEMMA TokenCallsStay ==
  ASSUME TokenTables(tokens, issued, accepted, overlapped),
         TokenTables(tokens', issued', accepted', overlapped'),
         NEW c \in Clients, NEW d \in Clients \ {c}, TokensStay(c), calls[d] \in CallType,
         TokenCallOK(calls[d], tokens, issued, overlapped)
  PROVE  TokenCallOK(calls[d], tokens', issued', overlapped')
<1> DEFINE q == calls[d]
           t == q.id
<1> SUFFICES ASSUME q.pc = "resolve"
             PROVE  TokenCallOK(q, tokens', issued', overlapped')
  BY DEF TokenCallOK
<1>1. t \in issued /\ t \in TokenIds /\ q.arg \in Nat
  BY CallKinds DEF TokenCallOK, TokenCalls, TokenTables, TokensStay
<1>2. t \in issued'
  BY <1>1 DEF TokensStay
<1>3. ASSUME tokens'[t] # None
      PROVE  /\ tokens'[t].limit # None => q.arg < tokens'[t].limit
             /\ t \notin overlapped' => q.arg = tokens'[t].count
  <2>1. /\ tokens[t] # None /\ tokens'[t].limit = tokens[t].limit
        /\ tokens'[t].count = tokens[t].count \/ t \in overlapped
        /\ overlapped \subseteq overlapped'
    BY <1>1, <1>3 DEF TokensStay
  <2> QED BY <2>1 DEF TokenCallOK
<1> QED BY <1>2, <1>3 DEF TokenCallOK

LEMMA TokensFollow ==
  ASSUME ReqInv, TokenInv, NEW c \in Clients, NEW q, Moves(c, q), ReqInv',
         TokenTables(tokens', issued', accepted', overlapped'), TokensStay(c),
         TokensForOwner, q.pc \notin OtherThanTokens,
         TokenCallOK(q, tokens', issued', overlapped'),
         \A d \in Clients \ {c} : Together(q, calls[d], overlapped')
  PROVE  TokensDone
<1>1. ASSUME NEW d \in Clients \ {c}
      PROVE  TokenCallOK(calls'[d], tokens', issued', overlapped')
  <2>1. TokenCallOK(calls[d], tokens, issued, overlapped) /\ calls'[d] = calls[d]
        /\ calls[d] \in CallType
    BY DEF TokenInv, TokenCallsOK, Moves, ReqInv
  <2>2. TokenCallOK(calls[d], tokens', issued', overlapped')
    BY <2>1, TokenCallsStay DEF TokenInv
  <2> QED BY <2>1, <2>2
<1>2. TokenCallsOK'
  BY <1>1 DEF TokenCallsOK, Moves
<1>3. OthersOverlap'
  <2>1. overlapped \subseteq overlapped' /\ calls'[c] = q
        /\ \A d \in Clients \ {c} : calls'[d] = calls[d]
    BY DEF TokensStay, Moves
  <2>2. ASSUME NEW a \in Clients, NEW b \in Clients, a # b
        PROVE  Together(calls'[a], calls'[b], overlapped')
    <3>1. CASE a = c
      BY <2>1, <2>2, <3>1
    <3>2. CASE b = c
      BY <2>1, <2>2, <3>2 DEF Together
    <3>3. CASE a # c /\ b # c
      BY <2>1, <2>2, <3>3 DEF TokenInv, OthersOverlap, Together
    <3> QED BY <3>1, <3>2, <3>3
  <2> QED BY <2>2 DEF OthersOverlap
<1> QED BY <1>2, <1>3, MovesKeep DEF TokensDone, TokenInv

LEMMA TokensAnswered ==
  ASSUME ReqInv, TokenInv, NEW c \in Clients, Moves(c, Idle), ReqInv',
         TokenTables(tokens', issued', accepted', overlapped'), TokensStay(c), TokensForOwner
  PROVE  TokensDone
<1>1. /\ Idle.pc \notin OtherThanTokens
      /\ TokenCallOK(Idle, tokens', issued', overlapped')
      /\ \A d \in Clients : Together(Idle, calls[d], overlapped')
  BY IdleOfNobody DEF OtherThanTokens, TokenCallOK, Together
<1> QED BY <1>1, TokensFollow

(* A row is created, deleted or marked as expired: nothing is counted.     *)
LEMMA TokenChanged ==
  ASSUME TokenInv, NEW c, NEW t \in TokenIds, NEW new \in Token \union {None},
         tokens' = [tokens EXCEPT ![t] = new],
         UNCHANGED <<accepted, overlapped>>, issued' = issued \union {t},
         \/ t \notin issued /\ (new # None => new.count = 0)
         \/ new = None
         \/ tokens[t] # None /\ new.count = tokens[t].count /\ new.limit = tokens[t].limit,
         TokenChanges(tokens[t], new)
  PROVE  TokenTables(tokens', issued', accepted', overlapped') /\ TokensStay(c) /\ TokensForOwner
<1>1. TokenTables(tokens, issued, accepted, overlapped)
  BY DEF TokenInv
<1>2. /\ tokens' \in [TokenIds -> Token \union {None}] /\ tokens'[t] = new
      /\ \A s \in TokenIds \ {t} : tokens'[s] = tokens[s]
  BY <1>1 DEF TokenTables
<1>3. new # None => new.count \in Nat /\ (new.limit # None => new.limit \in Nat)
  BY TokenRow
<1>4. new # None => Counted(new, accepted[t], t \in overlapped)
  <2>1. CASE t \notin issued /\ (new # None => new.count = 0)
    <3>1. accepted[t] = 0
      BY <1>1, <2>1 DEF TokenTables
    <3> QED BY <1>3, <2>1, <3>1 DEF Counted
  <2>2. CASE tokens[t] # None /\ new.count = tokens[t].count /\ new.limit = tokens[t].limit
    <3>1. Counted(tokens[t], accepted[t], t \in overlapped)
      BY <1>1, <2>2 DEF TokenTables
    <3> QED BY <2>2, <3>1 DEF Counted
  <2> QED BY <2>1, <2>2
<1>5. TokenTables(tokens', issued', accepted', overlapped')
  BY <1>1, <1>2, <1>4 DEF TokenTables
<1>6. TokensStay(c)
  BY <1>1, <1>2 DEF TokensStay, TokenTables
<1>7. TokensForOwner
  BY <1>2 DEF TokensForOwner
<1> QED BY <1>5, <1>6, <1>7

LEMMA TokensSame ==
  ASSUME TokenInv, NEW c, UNCHANGED tokenVars
  PROVE  TokenTables(tokens', issued', accepted', overlapped') /\ TokensStay(c) /\ TokensForOwner
<1>1. TokenTables(tokens, issued, accepted, overlapped)
  BY DEF TokenInv
<1>2. \A s \in issued : tokens'[s] # None =>
        tokens[s] # None /\ tokens'[s].limit = tokens[s].limit
        /\ tokens'[s].count = tokens[s].count
  BY DEF tokenVars
<1>3. TokensStay(c) /\ TokensForOwner
  BY <1>2 DEF TokensStay, TokensForOwner, tokenVars
<1> QED BY <1>1, <1>3 DEF tokenVars

LEMMA CreateTokenDone ==
  ASSUME ReqInv, TokenInv, NEW c \in Clients, CreateToken(c)
  PROVE  TokensDone
<1>1. PICK ctx \in Contexts, t \in TokenIds \ issued, limit \in Limits, expiring \in BOOLEAN :
        /\ Once(c, ctx)
        /\ issued' = issued \union {t}
        /\ tokens' = [tokens EXCEPT ![t] = [user |-> ctx.user, limit |-> limit, count |-> 0,
                                            expiring |-> expiring, expired |-> FALSE]]
        /\ UNCHANGED <<accepted, overlapped>>
  BY DEF CreateToken
<1> DEFINE new == [user |-> ctx.user, limit |-> limit, count |-> 0,
                   expiring |-> expiring, expired |-> FALSE]
<1>2. new \in Token /\ new.count = 0 /\ new.user = ctx.user
  BY ContextOf DEF Token
<1>3. tokens' = [tokens EXCEPT ![t] = new]
  BY <1>1
<1> HIDE DEF new
<1>4. ReqInv' /\ Moves(c, Idle) /\ Acts(ctx.user)
  BY <1>1, OnceMoves DEF Acts
<1>5. TokenChanges(tokens[t], new)
  <2>1. tokens[t] = None
    BY <1>1 DEF TokenInv, TokenTables
  <2> QED BY <1>2, <1>4, <2>1 DEF TokenChanges, ComesOrGoes, RowOf
<1> QED BY <1>1, <1>2, <1>3, <1>4, <1>5, TokenChanged, TokensAnswered

LEMMA DeleteTokenDone ==
  ASSUME ReqInv, TokenInv, NEW c \in Clients, DeleteToken(c)
  PROVE  TokensDone
<1>1. PICK ctx \in Contexts, t \in issued :
        /\ Once(c, ctx)
        /\ tokens' = IF tokens[t] # None /\ tokens[t].user = ctx.user
                     THEN [tokens EXCEPT ![t] = None] ELSE tokens
        /\ UNCHANGED <<issued, accepted, overlapped>>
  BY DEF DeleteToken
<1>2. t \in TokenIds /\ issued' = issued \union {t} /\ ReqInv' /\ Moves(c, Idle)
      /\ Acts(ctx.user)
  BY <1>1, OnceMoves DEF TokenInv, TokenTables, Acts
<1>3. CASE tokens[t] # None /\ tokens[t].user = ctx.user
  <2>1. tokens' = [tokens EXCEPT ![t] = None]
    BY <1>1, <1>3
  <2>2. TokenChanges(tokens[t], None)
    BY <1>2, <1>3 DEF TokenChanges, ComesOrGoes, RowOf
  <2> QED BY <1>1, <1>2, <2>1, <2>2, TokenChanged, TokensAnswered
<1>4. CASE tokens' = tokens
  <2>1. UNCHANGED tokenVars
    BY <1>1, <1>4 DEF tokenVars
  <2> QED BY <1>2, <2>1, TokensSame, TokensAnswered
<1> QED BY <1>1, <1>3, <1>4

LEMMA ResolveReadDone ==
  ASSUME ReqInv, TokenInv, NEW c \in Clients, ResolveRead(c)
  PROVE  TokensDone
<1>1. PICK t \in issued :
        /\ Found(t) /\ ~tokens[t].expired /\ ~Exhausted(t)
        /\ Begin(c, Call("resolve", None, t, tokens[t].count))
        /\ overlapped' = IF Resolving(t) THEN overlapped \union {t} ELSE overlapped
        /\ UNCHANGED <<tokens, issued, accepted>>
  BY DEF ResolveRead
<1> DEFINE q == Call("resolve", None, t, tokens[t].count)
<1>2. TokenTables(tokens, issued, accepted, overlapped)
  BY DEF TokenInv
<1>3. /\ t \in TokenIds /\ tokens[t] # None /\ tokens[t] \in Token /\ accepted[t] \in Nat
      /\ Counted(tokens[t], accepted[t], t \in overlapped)
  BY <1>1, <1>2 DEF TokenTables, Found
<1>4. tokens[t].count \in Nat /\ (tokens[t].limit # None => tokens[t].limit \in Nat)
  BY <1>3, TokenRow
<1>5. q \in TokenCalls /\ q.pc = "resolve" /\ q.id = t /\ q.arg = tokens[t].count /\ q.ctx = None
  BY <1>3, <1>4 DEF TokenCalls, Call
<1>6. Begin(c, q)
  BY <1>1
<1> HIDE DEF q
<1>7. q \in CallType /\ q.pc \notin OtherThanTokens
  BY <1>5 DEF CallType, OtherThanTokens, DashPcs, RecordPcs, ViewPcs
<1>8. ReqInv' /\ Moves(c, q)
  BY <1>5, <1>6, <1>7, BeginMoves DEF Begin
<1>9. overlapped \subseteq overlapped' /\ overlapped' \subseteq issued
  BY <1>1, <1>2 DEF TokenTables
<1>10. TokenTables(tokens', issued', accepted', overlapped')
  BY <1>1, <1>2, <1>9 DEF TokenTables, Counted
<1>11. TokensStay(c) /\ TokensForOwner
  BY <1>1, <1>9 DEF TokensStay, TokensForOwner
<1>12. tokens[t].limit # None => q.arg < tokens[t].limit
  BY <1>1, <1>4, <1>5 DEF Exhausted
<1>13. TokenCallOK(q, tokens', issued', overlapped')
  BY <1>1, <1>5, <1>12 DEF TokenCallOK
<1>14. \A d \in Clients \ {c} : Together(q, calls[d], overlapped')
  BY <1>1, <1>5 DEF Together, Resolving
<1> QED BY <1>7, <1>8, <1>10, <1>11, <1>13, <1>14, TokensFollow

LEMMA ResolveWriteDone ==
  ASSUME ReqInv, TokenInv, NEW c \in Clients, ResolveWrite(c)
  PROVE  TokensDone
<1> DEFINE call == calls[c]
           t == call.id
           more == [accepted EXCEPT ![t] = @ + 1]
<1>1. /\ call.pc = "resolve" /\ Return(c) /\ UNCHANGED <<issued, overlapped>>
      /\ accepted' \in {accepted, more}
      /\ \/ tokens' = tokens /\ (accepted' = accepted \/ tokens[t] = None)
         \/ /\ tokens[t] # None
            /\ tokens' = [tokens EXCEPT ![t] = [@ EXCEPT !.count = call.arg + 1]]
  BY DEF ResolveWrite
<1>2. TokenTables(tokens, issued, accepted, overlapped) /\ ReqInv' /\ Moves(c, Idle)
  BY <1>1, ReturnMoves DEF TokenInv
<1>3. t \in TokenIds /\ call.arg \in Nat
  BY <1>1, CallKinds DEF ReqInv, TokenCalls
<1>4. /\ t \in issued /\ accepted[t] \in Nat
      /\ tokens[t] # None => /\ tokens[t].limit # None => call.arg < tokens[t].limit
                             /\ t \notin overlapped => call.arg = tokens[t].count
  BY <1>1, <1>2, <1>3 DEF TokenInv, TokenCallsOK, TokenCallOK, TokenTables
<1>5. \A d \in Clients \ {c} : calls[d].pc = "resolve" /\ calls[d].id = t => t \in overlapped
  BY <1>1 DEF TokenInv, OthersOverlap, Together
<1>6. /\ accepted' \in [TokenIds -> Nat] /\ accepted'[t] \in {accepted[t], accepted[t] + 1}
      /\ \A s \in TokenIds \ {t} : accepted'[s] = accepted[s]
  BY <1>1, <1>2, <1>3, <1>4 DEF TokenTables
<1> HIDE DEF t, call, more
<1>7. CASE UNCHANGED <<tokens, accepted>>
  <2>1. UNCHANGED tokenVars
    BY <1>1, <1>7 DEF tokenVars
  <2> QED BY <1>2, <2>1, TokensSame, TokensAnswered
<1>8. CASE tokens[t] = None /\ tokens' = tokens
  <2>1. TokenTables(tokens', issued', accepted', overlapped')
    BY <1>1, <1>2, <1>4, <1>6, <1>8 DEF TokenTables
  <2>2. TokensStay(c) /\ TokensForOwner
    BY <1>1, <1>8 DEF TokensStay, TokensForOwner
  <2> QED BY <1>2, <2>1, <2>2, TokensAnswered
<1>9. ASSUME tokens[t] # None,
             tokens' = [tokens EXCEPT ![t] = [@ EXCEPT !.count = call.arg + 1]]
      PROVE  TokensDone
  <2> DEFINE new == [tokens[t] EXCEPT !.count = call.arg + 1]
  <2>1. tokens[t] \in Token
    BY <1>2, <1>3, <1>9 DEF TokenTables
  <2>2. new \in Token /\ new.count = call.arg + 1 /\ new.limit = tokens[t].limit
        /\ new.expired = tokens[t].expired
    BY <1>3, <2>1 DEF Token
  <2>3. tokens' = [tokens EXCEPT ![t] = new]
    BY <1>9
  <2>4. new = [tokens[t] EXCEPT !.count = new.count, !.expired = new.expired]
    BY <2>1 DEF Token
  <2> HIDE DEF new
  <2>5. /\ tokens' \in [TokenIds -> Token \union {None}] /\ tokens'[t] = new
        /\ \A s \in TokenIds \ {t} : tokens'[s] = tokens[s]
    BY <1>2, <1>3, <1>9, <2>2, <2>3 DEF TokenTables
  <2>6. Counted(new, accepted'[t], t \in overlapped)
    <3>1. Counted(tokens[t], accepted[t], t \in overlapped)
      BY <1>2, <1>3, <1>9 DEF TokenTables
    <3>2. new.limit # None => new.limit \in Nat
      BY <2>2, TokenRow
    <3>3. new.limit # None => call.arg + 1 <= new.limit
      BY <1>3, <1>4, <1>9, <2>2, <3>2
    <3>4. t \notin overlapped => accepted[t] <= call.arg
      BY <1>4, <1>9, <3>1 DEF Counted
    <3>5. t \notin overlapped => accepted'[t] <= call.arg + 1
      BY <1>3, <1>4, <1>6, <3>4
    <3> QED BY <2>2, <3>3, <3>5 DEF Counted
  <2>7. TokenTables(tokens', issued', accepted', overlapped')
    BY <1>1, <1>2, <1>4, <1>6, <2>5, <2>6 DEF TokenTables
  <2>8. \A s \in issued : s \in TokenIds
    BY <1>2 DEF TokenTables
  <2>9. TokensStay(c)
    BY <1>1, <1>5, <1>9, <2>2, <2>5, <2>8 DEF TokensStay
  <2>10. TokenChanges(tokens[t], new)
    BY <1>9, <2>2, <2>4, TokenRow DEF TokenChanges
  <2>11. TokensForOwner
    BY <2>5, <2>10 DEF TokensForOwner
  <2> QED BY <1>2, <2>7, <2>9, <2>11, TokensAnswered
<1> QED BY <1>1, <1>7, <1>8, <1>9

LEMMA TokenStepDone ==
  ASSUME ReqInv, TokenInv, NEW c \in Clients, TokenStep(c)
  PROVE  TokensDone
BY CreateTokenDone, DeleteTokenDone, ResolveReadDone, ResolveWriteDone DEF TokenStep

(* A step of another service, or the start of a new process.               *)
LEMMA TokensFrame ==
  ASSUME TokenInv, UNCHANGED tokenVars, CallsKept({"resolve"})
  PROVE  TokenInv' /\ TokensForOwner
<1>1. TokenTables(tokens', issued', accepted', overlapped') /\ TokensForOwner
  BY DEF TokenInv, tokenVars, TokensForOwner
<1>2. TokenCallsOK'
  BY DEF TokenInv, TokenCallsOK, TokenCallOK, CallsKept, tokenVars
<1>3. OthersOverlap'
  BY DEF TokenInv, OthersOverlap, Together, CallsKept, tokenVars
<1> QED BY <1>1, <1>2, <1>3 DEF TokenInv

LEMMA ExpireDone ==
  ASSUME ReqInv, TokenInv, Expire
  PROVE  ReqInv' /\ TokenInv' /\ TokensForOwner /\ calls' = calls
<1>1. PICK t \in issued :
        /\ tokens[t] # None /\ tokens' = [tokens EXCEPT ![t] = [@ EXCEPT !.expired = TRUE]]
        /\ UNCHANGED <<issued, accepted, overlapped, reqVars>>
  BY DEF Expire
<1> DEFINE new == [tokens[t] EXCEPT !.expired = TRUE]
<1>2. t \in TokenIds /\ tokens[t] \in Token
  BY <1>1 DEF TokenInv, TokenTables
<1>3. new \in Token /\ new.count = tokens[t].count /\ new.limit = tokens[t].limit
      /\ new.expired
  BY <1>2 DEF Token
<1>4. tokens' = [tokens EXCEPT ![t] = new] /\ issued' = issued \union {t}
  BY <1>1
<1>9. new = [tokens[t] EXCEPT !.count = new.count, !.expired = new.expired]
  BY <1>2 DEF Token
<1> HIDE DEF new
<1>5. ReqInv' /\ calls' = calls
  BY <1>1 DEF ReqInv, reqVars
<1>10. TokenChanges(tokens[t], new)
  BY <1>1, <1>3, <1>9, TokenRow DEF TokenChanges
<1>6. /\ TokenTables(tokens', issued', accepted', overlapped') /\ TokensForOwner
      /\ \A c \in Clients : TokensStay(c)
  <2>1. ASSUME NEW c
        PROVE  /\ TokenTables(tokens', issued', accepted', overlapped') /\ TokensForOwner
               /\ TokensStay(c)
    BY <1>1, <1>2, <1>3, <1>4, <1>10, TokenChanged
  <2> QED BY <2>1
<1>7. TokenCallsOK'
  <2>1. ASSUME NEW d \in Clients
        PROVE  TokenCallOK(calls[d], tokens', issued', overlapped')
    <3>1. TokenCallOK(calls[d], tokens, issued, overlapped)
      BY DEF TokenInv, TokenCallsOK
    <3>2. tokens'[t] = new /\ tokens[t] # None
          /\ \A s \in TokenIds \ {t} : tokens'[s] = tokens[s]
      BY <1>1, <1>2, <1>4 DEF TokenInv, TokenTables
    <3>3. calls[d].pc = "resolve" => calls[d].id \in TokenIds
      BY CallKinds DEF ReqInv, TokenCalls
    <3> QED BY <1>1, <1>3, <3>1, <3>2, <3>3 DEF TokenCallOK
  <2> QED BY <1>5, <2>1 DEF TokenCallsOK
<1>8. OthersOverlap'
  BY <1>1, <1>5 DEF TokenInv, OthersOverlap
<1> QED BY <1>5, <1>6, <1>7, <1>8 DEF TokenInv

LEMMA TokensInitially ==
  ASSUME RequestsInit, ShareTokensInit
  PROVE  TokenInv
<1>1. TokenTables(tokens, issued, accepted, overlapped)
  BY DEF ShareTokensInit, TokenTables
<1>2. TokenCallsOK /\ OthersOverlap
  BY IdleOfNobody DEF RequestsInit, TokenCallsOK, TokenCallOK, OthersOverlap, Together
<1> QED BY <1>1, <1>2 DEF TokenInv

-----------------------------------------------------------------------------
(* Schedules, alerts and runs: the rows, and what a test fire knows of the *)
(* schedule it has looked at.                                              *)
SchedTables(ss, as, rs, used) ==
  /\ ss \in [ScheduleIds -> Schedule \union {None}]
  /\ as \in [AlertIds -> Alert \union {None}]
  /\ rs \in [RunIds -> Run \union {None}]
  /\ used \subseteq ScheduleIds \union AlertIds \union RunIds
  /\ \A s \in ScheduleIds : ss[s] # None => s \in used
  /\ \A a \in AlertIds : as[a] # None => a \in used
  /\ \A r \in RunIds : rs[r] # None =>
       /\ rs[r].schedule \in used
       /\ ss[rs[r].schedule] # None => ss[rs[r].schedule].owner = rs[r].by
SchedCallOK(q, ss, used) ==
  q.pc = "fire" => q.id \in used /\ (ss[q.id] # None => ss[q.id].owner = q.ctx.user)
SchedCallsOK == \A c \in Clients : SchedCallOK(calls[c], schedules, schedIdsUsed)
SchedInv == SchedTables(schedules, alerts, runs, schedIdsUsed) /\ SchedCallsOK

(* What every step does with the rows.                                     *)
SchedulesStay ==
  /\ schedIdsUsed \subseteq schedIdsUsed'
  /\ \A s \in schedIdsUsed \intersect ScheduleIds : schedules'[s] # None =>
       schedules[s] # None /\ schedules'[s].owner = schedules[s].owner
SchedulesForOwner ==
  /\ \A s \in ScheduleIds : ChangesForOwner(schedules[s], schedules'[s])
  /\ \A a \in AlertIds : ChangesForOwner(alerts[a], alerts'[a])
OtherThanSchedules == ViewPcs \union DashPcs \union RecordPcs \union {"resolve"}
SchedulesDone == ReqInv' /\ SchedInv' /\ SchedulesForOwner /\ CallsKept(OtherThanSchedules)

LEMMA SchedulesFollow ==
  ASSUME ReqInv, SchedInv, NEW c \in Clients, NEW q, Moves(c, q), ReqInv',
         SchedTables(schedules', alerts', runs', schedIdsUsed'), SchedulesStay,
         SchedulesForOwner, q.pc \notin OtherThanSchedules,
         SchedCallOK(q, schedules', schedIdsUsed')
  PROVE  SchedulesDone
<1>1. ASSUME NEW e \in Clients \ {c}
      PROVE  SchedCallOK(calls'[e], schedules', schedIdsUsed')
  <2>1. SchedCallOK(calls[e], schedules, schedIdsUsed) /\ calls'[e] = calls[e]
        /\ calls[e] \in CallType
    BY DEF SchedInv, SchedCallsOK, Moves, ReqInv
  <2>2. calls[e].pc = "fire" => calls[e].id \in ScheduleIds
    BY <2>1, CallKinds DEF SchedCalls
  <2> QED BY <2>1, <2>2 DEF SchedCallOK, SchedulesStay
<1>2. SchedCallsOK'
  BY <1>1 DEF SchedCallsOK, Moves
<1> QED BY <1>2, MovesKeep DEF SchedulesDone, SchedInv

LEMMA SchedulesAnswered ==
  ASSUME ReqInv, SchedInv, NEW c \in Clients, Moves(c, Idle), ReqInv',
         SchedTables(schedules', alerts', runs', schedIdsUsed'), SchedulesStay,
         SchedulesForOwner
  PROVE  SchedulesDone
<1>1. Idle.pc \notin OtherThanSchedules /\ SchedCallOK(Idle, schedules', schedIdsUsed')
  BY IdleOfNobody DEF OtherThanSchedules, SchedCallOK
<1> QED BY <1>1, SchedulesFollow

LEMMA SchedulesSame ==
  ASSUME SchedInv, UNCHANGED schedVars
  PROVE  /\ SchedTables(schedules', alerts', runs', schedIdsUsed') /\ SchedulesStay
         /\ SchedulesForOwner
BY SameForOwner DEF SchedInv, schedVars, SchedulesStay, SchedulesForOwner

(* A schedule is created, changed or deleted by its owner.                 *)
LEMMA ScheduleWritten ==
  ASSUME SchedInv, NEW s \in ScheduleIds, NEW new \in Schedule \union {None},
         schedules' = [schedules EXCEPT ![s] = new], UNCHANGED <<alerts, runs>>,
         schedIdsUsed' = schedIdsUsed \union {s},
         \/ s \notin schedIdsUsed /\ new # None /\ Acts(new.owner)
         \/ schedules[s] # None /\ Acts(schedules[s].owner)
            /\ (new # None => new.owner = schedules[s].owner)
  PROVE  /\ SchedTables(schedules', alerts', runs', schedIdsUsed') /\ SchedulesStay
         /\ SchedulesForOwner
<1>1. SchedTables(schedules, alerts, runs, schedIdsUsed)
  BY DEF SchedInv
<1>2. /\ schedules' \in [ScheduleIds -> Schedule \union {None}] /\ schedules'[s] = new
      /\ \A r \in ScheduleIds \ {s} : schedules'[r] = schedules[r]
  BY <1>1 DEF SchedTables
<1>3. s \notin schedIdsUsed => schedules[s] = None
  BY <1>1 DEF SchedTables
<1>4. \A r \in RunIds : runs[r] # None => runs[r].schedule \in ScheduleIds
  BY <1>1 DEF SchedTables, Run
<1>5. SchedTables(schedules', alerts', runs', schedIdsUsed')
  BY <1>1, <1>2, <1>3, <1>4 DEF SchedTables
<1>6. SchedulesStay
  BY <1>2, <1>3 DEF SchedulesStay
<1>7. ChangesForOwner(schedules[s], schedules'[s])
  BY <1>2, <1>3 DEF ChangesForOwner, RowOf
<1>8. SchedulesForOwner
  BY <1>2, <1>7, SameForOwner DEF SchedulesForOwner
<1> QED BY <1>5, <1>6, <1>8

LEMMA AlertWritten ==
  ASSUME SchedInv, NEW a \in AlertIds, NEW new \in Alert \union {None},
         alerts' = [alerts EXCEPT ![a] = new], UNCHANGED <<schedules, runs>>,
         schedIdsUsed' = schedIdsUsed \union {a},
         \/ a \notin schedIdsUsed /\ new # None /\ Acts(new.owner)
         \/ alerts[a] # None /\ Acts(alerts[a].owner)
            /\ (new # None => new.owner = alerts[a].owner)
  PROVE  /\ SchedTables(schedules', alerts', runs', schedIdsUsed') /\ SchedulesStay
         /\ SchedulesForOwner
<1>1. SchedTables(schedules, alerts, runs, schedIdsUsed)
  BY DEF SchedInv
<1>2. /\ alerts' \in [AlertIds -> Alert \union {None}] /\ alerts'[a] = new
      /\ \A b \in AlertIds \ {a} : alerts'[b] = alerts[b]
  BY <1>1 DEF SchedTables
<1>3. a \notin schedIdsUsed => alerts[a] = None
  BY <1>1 DEF SchedTables
<1>4. SchedTables(schedules', alerts', runs', schedIdsUsed')
  BY <1>1, <1>2 DEF SchedTables
<1>5. SchedulesStay
  BY DEF SchedulesStay
<1>6. ChangesForOwner(alerts[a], alerts'[a])
  BY <1>2, <1>3 DEF ChangesForOwner, RowOf
<1>7. SchedulesForOwner
  BY <1>2, <1>6, SameForOwner DEF SchedulesForOwner
<1> QED BY <1>4, <1>5, <1>7

LEMMA CreateScheduleDone ==
  ASSUME ReqInv, SchedInv, NEW c \in Clients, CreateSchedule(c)
  PROVE  SchedulesDone
<1>1. PICK ctx \in Contexts, s \in ScheduleIds \ schedIdsUsed, cron \in Crons :
        /\ Once(c, ctx)
        /\ IF ValidCron(cron)
           THEN /\ schedules' = [schedules EXCEPT ![s] =
                     [owner |-> ctx.user, cron |-> cron, next |-> cron, enabled |-> TRUE]]
                /\ schedIdsUsed' = schedIdsUsed \union {s}
           ELSE UNCHANGED <<schedules, schedIdsUsed>>
        /\ UNCHANGED <<alerts, runs>>
  BY DEF CreateSchedule
<1>2. ReqInv' /\ Moves(c, Idle) /\ by' = ctx /\ by' # None
  BY <1>1, OnceMoves
<1>3. CASE ValidCron(cron)
  <2> DEFINE new == [owner |-> ctx.user, cron |-> cron, next |-> cron, enabled |-> TRUE]
  <2>1. new \in Schedule /\ new.owner = ctx.user
    BY ContextOf DEF Schedule
  <2>2. schedules' = [schedules EXCEPT ![s] = new] /\ schedIdsUsed' = schedIdsUsed \union {s}
    BY <1>1, <1>3
  <2> HIDE DEF new
  <2>3. Acts(new.owner) /\ new # None
    BY <1>2, <2>1 DEF Acts
  <2> QED BY <1>1, <1>2, <2>1, <2>2, <2>3, ScheduleWritten, SchedulesAnswered
<1>4. CASE ~ValidCron(cron)
  <2>1. UNCHANGED schedVars
    BY <1>1, <1>4 DEF schedVars
  <2> QED BY <1>2, <2>1, SchedulesSame, SchedulesAnswered
<1> QED BY <1>3, <1>4

LEMMA UpdateScheduleDone ==
  ASSUME ReqInv, SchedInv, NEW c \in Clients, UpdateSchedule(c)
  PROVE  SchedulesDone
<1>1. PICK ctx \in Contexts, s \in ScheduleIds, cron \in Crons \union {None},
           enabled \in BOOLEAN \union {None} :
        /\ s \in schedIdsUsed
        /\ Once(c, ctx)
        /\ schedules' =
             IF OwnSchedule(ctx, s) /\ (cron # None => ValidCron(cron))
             THEN [schedules EXCEPT ![s] =
                    [owner |-> schedules[s].owner, cron |-> Given(cron, schedules[s].cron),
                     next |-> schedules[s].next,
                     enabled |-> Given(enabled, schedules[s].enabled)]]
             ELSE schedules
        /\ UNCHANGED <<alerts, runs, schedIdsUsed>>
  BY DEF UpdateSchedule
<1>2. ReqInv' /\ Moves(c, Idle) /\ by' = ctx /\ by' # None
  BY <1>1, OnceMoves
<1>3. CASE OwnSchedule(ctx, s) /\ (cron # None => ValidCron(cron))
  <2> DEFINE new == [owner |-> schedules[s].owner, cron |-> Given(cron, schedules[s].cron),
                     next |-> schedules[s].next,
                     enabled |-> Given(enabled, schedules[s].enabled)]
  <2>1. schedules[s] \in Schedule /\ schedules[s] # None /\ schedules[s].owner = ctx.user
    BY <1>3 DEF SchedInv, SchedTables, OwnSchedule
  <2>2. new \in Schedule /\ new.owner = schedules[s].owner
    BY <2>1 DEF Schedule, Given
  <2>3. schedules' = [schedules EXCEPT ![s] = new]
    BY <1>1, <1>3
  <2> HIDE DEF new
  <2>4. Acts(schedules[s].owner) /\ schedIdsUsed' = schedIdsUsed \union {s}
    BY <1>1, <1>2, <2>1 DEF Acts
  <2> QED BY <1>1, <1>2, <2>1, <2>2, <2>3, <2>4, ScheduleWritten, SchedulesAnswered
<1>4. CASE ~(OwnSchedule(ctx, s) /\ (cron # None => ValidCron(cron)))
  <2>1. UNCHANGED schedVars
    BY <1>1, <1>4 DEF schedVars
  <2> QED BY <1>2, <2>1, SchedulesSame, SchedulesAnswered
<1> QED BY <1>3, <1>4

LEMMA DeleteScheduleDone ==
  ASSUME ReqInv, SchedInv, NEW c \in Clients, DeleteSchedule(c)
  PROVE  SchedulesDone
<1>1. PICK ctx \in Contexts, s \in ScheduleIds :
        /\ s \in schedIdsUsed
        /\ Once(c, ctx)
        /\ schedules' = IF OwnSchedule(ctx, s) THEN [schedules EXCEPT ![s] = None]
                        ELSE schedules
        /\ UNCHANGED <<alerts, runs, schedIdsUsed>>
  BY DEF DeleteSchedule
<1>2. ReqInv' /\ Moves(c, Idle) /\ by' = ctx /\ by' # None
  BY <1>1, OnceMoves
<1>3. CASE OwnSchedule(ctx, s)
  <2>1. schedules' = [schedules EXCEPT ![s] = None] /\ schedules[s] # None
        /\ Acts(schedules[s].owner) /\ schedIdsUsed' = schedIdsUsed \union {s}
    BY <1>1, <1>2, <1>3 DEF OwnSchedule, Acts
  <2> QED BY <1>1, <1>2, <2>1, ScheduleWritten, SchedulesAnswered
<1>4. CASE ~OwnSchedule(ctx, s)
  <2>1. UNCHANGED schedVars
    BY <1>1, <1>4 DEF schedVars
  <2> QED BY <1>2, <2>1, SchedulesSame, SchedulesAnswered
<1> QED BY <1>3, <1>4

LEMMA FireReadDone ==
  ASSUME ReqInv, SchedInv, NEW c \in Clients, FireRead(c)
  PROVE  SchedulesDone
<1>1. PICK ctx \in Contexts, s \in ScheduleIds :
        OwnSchedule(ctx, s) /\ Begin(c, Call("fire", ctx, s, None)) /\ UNCHANGED schedVars
  BY DEF FireRead
<1> DEFINE q == Call("fire", ctx, s, None)
<1>2. q \in SchedCalls /\ q.pc = "fire" /\ q.ctx = ctx /\ q.id = s
  BY DEF SchedCalls, Call
<1>3. Begin(c, q)
  BY <1>1
<1> HIDE DEF q
<1>4. q \in CallType /\ q.pc \notin OtherThanSchedules
  BY <1>2 DEF CallType, OtherThanSchedules, DashPcs, RecordPcs, ViewPcs
<1>5. ReqInv' /\ Moves(c, q)
  BY <1>2, <1>3, <1>4, BeginMoves DEF Begin
<1>6. SchedCallOK(q, schedules', schedIdsUsed')
  BY <1>1, <1>2 DEF SchedCallOK, SchedInv, SchedTables, OwnSchedule, schedVars
<1> QED BY <1>1, <1>4, <1>5, <1>6, SchedulesSame, SchedulesFollow

LEMMA FireInsertDone ==
  ASSUME ReqInv, SchedInv, NEW c \in Clients, FireInsert(c)
  PROVE  SchedulesDone
<1> DEFINE s == calls[c].id
           user == calls[c].ctx.user
<1>1. PICK r \in RunIds \ schedIdsUsed :
        /\ calls[c].pc = "fire"
        /\ runs' = [runs EXCEPT ![r] = [schedule |-> s, by |-> user]]
        /\ schedIdsUsed' = schedIdsUsed \union {r}
        /\ Return(c)
        /\ UNCHANGED <<schedules, alerts>>
  BY DEF FireInsert
<1>2. /\ s \in ScheduleIds /\ user \in Users /\ s \in schedIdsUsed
      /\ schedules[s] # None => schedules[s].owner = user
  <2>1. calls[c] \in SchedCalls /\ SchedCallOK(calls[c], schedules, schedIdsUsed)
    BY <1>1, CallKinds DEF ReqInv, SchedInv, SchedCallsOK
  <2> QED BY <1>1, <2>1, ContextOf DEF SchedCalls, SchedCallOK
<1>3. ReqInv' /\ Moves(c, Idle)
  BY <1>1, ReturnMoves
<1> DEFINE run == [schedule |-> s, by |-> user]
<1> HIDE DEF s, user
<1>4. run \in Run /\ run.schedule = s /\ run.by = user
  BY <1>2 DEF Run
<1>5. runs' = [runs EXCEPT ![r] = run]
  BY <1>1
<1> HIDE DEF run
<1>6. SchedTables(schedules, alerts, runs, schedIdsUsed)
  BY DEF SchedInv
<1>7. /\ runs' \in [RunIds -> Run \union {None}] /\ runs'[r] = run
      /\ \A p \in RunIds \ {r} : runs'[p] = runs[p]
  BY <1>4, <1>5, <1>6 DEF SchedTables
<1>8. SchedTables(schedules', alerts', runs', schedIdsUsed')
  BY <1>1, <1>2, <1>4, <1>6, <1>7 DEF SchedTables
<1>9. SchedulesStay /\ SchedulesForOwner
  BY <1>1, SameForOwner DEF SchedulesStay, SchedulesForOwner
<1> QED BY <1>3, <1>8, <1>9, SchedulesAnswered

LEMMA CreateAlertDone ==
  ASSUME ReqInv, SchedInv, NEW c \in Clients, CreateAlert(c)
  PROVE  SchedulesDone
<1>1. PICK ctx \in Contexts, a \in AlertIds \ schedIdsUsed, cron \in Crons,
           view \in AlertViews :
        /\ Once(c, ctx)
        /\ IF ValidCron(cron)
           THEN /\ alerts' = [alerts EXCEPT ![a] =
                     [owner |-> ctx.user, view |-> view, cron |-> cron, enabled |-> TRUE]]
                /\ schedIdsUsed' = schedIdsUsed \union {a}
           ELSE UNCHANGED <<alerts, schedIdsUsed>>
        /\ UNCHANGED <<schedules, runs>>
  BY DEF CreateAlert
<1>2. ReqInv' /\ Moves(c, Idle) /\ by' = ctx /\ by' # None
  BY <1>1, OnceMoves
<1>3. CASE ValidCron(cron)
  <2> DEFINE new == [owner |-> ctx.user, view |-> view, cron |-> cron, enabled |-> TRUE]
  <2>1. new \in Alert /\ new.owner = ctx.user
    BY ContextOf DEF Alert
  <2>2. alerts' = [alerts EXCEPT ![a] = new] /\ schedIdsUsed' = schedIdsUsed \union {a}
    BY <1>1, <1>3
  <2> HIDE DEF new
  <2>3. Acts(new.owner) /\ new # None
    BY <1>2, <2>1 DEF Acts
  <2> QED BY <1>1, <1>2, <2>1, <2>2, <2>3, AlertWritten, SchedulesAnswered
<1>4. CASE ~ValidCron(cron)
  <2>1. UNCHANGED schedVars
    BY <1>1, <1>4 DEF schedVars
  <2> QED BY <1>2, <2>1, SchedulesSame, SchedulesAnswered
<1> QED BY <1>3, <1>4

LEMMA UpdateAlertDone ==
  ASSUME ReqInv, SchedInv, NEW c \in Clients, UpdateAlert(c)
  PROVE  SchedulesDone
<1>1. PICK ctx \in Contexts, a \in AlertIds, cron \in Crons \union {None},
           enabled \in BOOLEAN \union {None} :
        /\ a \in schedIdsUsed
        /\ Once(c, ctx)
        /\ alerts' =
             IF OwnAlert(ctx, a) /\ (cron # None => ValidCron(cron))
             THEN [alerts EXCEPT ![a] =
                    [owner |-> alerts[a].owner, view |-> alerts[a].view,
                     cron |-> Given(cron, alerts[a].cron),
                     enabled |-> Given(enabled, alerts[a].enabled)]]
             ELSE alerts
        /\ UNCHANGED <<schedules, runs, schedIdsUsed>>
  BY DEF UpdateAlert
<1>2. ReqInv' /\ Moves(c, Idle) /\ by' = ctx /\ by' # None
  BY <1>1, OnceMoves
<1>3. CASE OwnAlert(ctx, a) /\ (cron # None => ValidCron(cron))
  <2> DEFINE new == [owner |-> alerts[a].owner, view |-> alerts[a].view,
                     cron |-> Given(cron, alerts[a].cron),
                     enabled |-> Given(enabled, alerts[a].enabled)]
  <2>1. alerts[a] \in Alert /\ alerts[a] # None /\ alerts[a].owner = ctx.user
    BY <1>3 DEF SchedInv, SchedTables, OwnAlert
  <2>2. new \in Alert /\ new.owner = alerts[a].owner
    BY <2>1 DEF Alert, Given
  <2>3. alerts' = [alerts EXCEPT ![a] = new]
    BY <1>1, <1>3
  <2> HIDE DEF new
  <2>4. Acts(alerts[a].owner) /\ schedIdsUsed' = schedIdsUsed \union {a}
    BY <1>1, <1>2, <2>1 DEF Acts
  <2> QED BY <1>1, <1>2, <2>1, <2>2, <2>3, <2>4, AlertWritten, SchedulesAnswered
<1>4. CASE ~(OwnAlert(ctx, a) /\ (cron # None => ValidCron(cron)))
  <2>1. UNCHANGED schedVars
    BY <1>1, <1>4 DEF schedVars
  <2> QED BY <1>2, <2>1, SchedulesSame, SchedulesAnswered
<1> QED BY <1>3, <1>4

LEMMA DeleteAlertDone ==
  ASSUME ReqInv, SchedInv, NEW c \in Clients, DeleteAlert(c)
  PROVE  SchedulesDone
<1>1. PICK ctx \in Contexts, a \in AlertIds :
        /\ a \in schedIdsUsed
        /\ Once(c, ctx)
        /\ alerts' = IF OwnAlert(ctx, a) THEN [alerts EXCEPT ![a] = None] ELSE alerts
        /\ UNCHANGED <<schedules, runs, schedIdsUsed>>
  BY DEF DeleteAlert
<1>2. ReqInv' /\ Moves(c, Idle) /\ by' = ctx /\ by' # None
  BY <1>1, OnceMoves
<1>3. CASE OwnAlert(ctx, a)
  <2>1. alerts' = [alerts EXCEPT ![a] = None] /\ alerts[a] # None
        /\ Acts(alerts[a].owner) /\ schedIdsUsed' = schedIdsUsed \union {a}
    BY <1>1, <1>2, <1>3 DEF OwnAlert, Acts
  <2> QED BY <1>1, <1>2, <2>1, AlertWritten, SchedulesAnswered
<1>4. CASE ~OwnAlert(ctx, a)
  <2>1. UNCHANGED schedVars
    BY <1>1, <1>4 DEF schedVars
  <2> QED BY <1>2, <2>1, SchedulesSame, SchedulesAnswered
<1> QED BY <1>3, <1>4

LEMMA SchedStepDone ==
  ASSUME ReqInv, SchedInv, NEW c \in Clients, SchedStep(c)
  PROVE  SchedulesDone
BY CreateScheduleDone, UpdateScheduleDone, DeleteScheduleDone, FireReadDone, FireInsertDone,
   CreateAlertDone, UpdateAlertDone, DeleteAlertDone DEF SchedStep

(* A step of another service, or the start of a new process.               *)
LEMMA SchedulesFrame ==
  ASSUME SchedInv, UNCHANGED schedVars, CallsKept({"fire"})
  PROVE  SchedInv' /\ SchedulesForOwner
<1>1. SchedTables(schedules', alerts', runs', schedIdsUsed') /\ SchedulesForOwner
  BY SchedulesSame
<1>2. SchedCallsOK'
  BY DEF SchedInv, SchedCallsOK, SchedCallOK, CallsKept, schedVars
<1> QED BY <1>1, <1>2 DEF SchedInv

LEMMA SchedulesInitially ==
  ASSUME RequestsInit, SchedulesInit
  PROVE  SchedInv
<1>1. SchedTables(schedules, alerts, runs, schedIdsUsed)
  BY DEF SchedulesInit, SchedTables
<1>2. SchedCallsOK
  BY IdleOfNobody DEF RequestsInit, SchedCallsOK, SchedCallOK
<1> QED BY <1>1, <1>2 DEF SchedInv

-----------------------------------------------------------------------------
(* Records of an entity: the table, and what a dialog shows of a plan.     *)
DialogOK(q) ==
  q.pc = "previewed" =>
    q.id = q.arg.plan.record_pk /\ q.arg.diff = Diff(q.arg.plan, q.arg.before)
RecordCallsOK == \A c \in Clients : DialogOK(calls[c])
RecordInv == records \in [Pks -> Row \union {None}] /\ RecordCallsOK

(* What every step does with the table.                                    *)
TouchesWhatItNames ==
  /\ \A pk \in Pks : records'[pk] # records[pk] =>
       \E c \in Clients : calls'[c].pc = "executed" /\ Touches(calls'[c], pk)
  /\ \A c \in Clients : UnshownChangesAreOthers(c)
OtherThanRecords == ViewPcs \union DashPcs \union {"resolve", "fire"}
RecordsDone == ReqInv' /\ RecordInv' /\ TouchesWhatItNames /\ CallsKept(OtherThanRecords)

LEMMA PlanFacts ==
  ASSUME NEW plan \in Plans
  PROVE  /\ plan.operation \in {"create", "update", "delete"}
         /\ plan.record_pk \in Pks \union {None}
         /\ plan.operation # "create" => plan.record_pk \in Pks
         /\ DOMAIN plan.fields \subseteq Fields \union {Key}
         /\ \A f \in Fields : f \in DOMAIN plan.fields => plan.fields[f] \in Values
         /\ Key \in DOMAIN plan.fields => plan.fields[Key] \in Pks
<1>1. ASSUME NEW fields \in Changes
      PROVE  /\ DOMAIN fields \subseteq Fields \union {Key}
             /\ \A f \in Fields : f \in DOMAIN fields => fields[f] \in Values
             /\ Key \in DOMAIN fields => fields[Key] \in Pks
  BY MutationsAssumption
<1>2. CASE \E fields \in Changes : plan = Plan("create", None, fields)
  <2>1. PICK fields \in Changes : plan = Plan("create", None, fields)
    BY <1>2
  <2>2. plan.operation = "create" /\ plan.record_pk = None /\ plan.fields = fields
    BY <2>1 DEF Plan
  <2> QED BY <1>1, <2>2
<1>3. CASE \E pk \in Pks, fields \in Changes : plan = Plan("update", pk, fields)
  <2>1. PICK pk \in Pks, fields \in Changes : plan = Plan("update", pk, fields)
    BY <1>3
  <2>2. plan.operation = "update" /\ plan.record_pk = pk /\ plan.fields = fields
    BY <2>1 DEF Plan
  <2> QED BY <1>1, <2>2
<1>4. CASE \E pk \in Pks : plan = Plan("delete", pk, NoFields)
  <2>1. PICK pk \in Pks : plan = Plan("delete", pk, NoFields)
    BY <1>4
  <2>2. plan.operation = "delete" /\ plan.record_pk = pk /\ plan.fields = NoFields
    BY <2>1 DEF Plan
  <2>3. DOMAIN NoFields = {}
    BY DEF NoFields
  <2> QED BY <2>2, <2>3
<1> QED BY <1>2, <1>3, <1>4 DEF Plans

(* A written row is a row, with the given values in the given columns, and *)
(* its key is one of the keys.                                             *)
LEMMA WrittenRow ==
  ASSUME NEW plan \in Plans, NEW row \in Row
  PROVE  /\ Written(plan.fields, row) \in Row
         /\ \A f \in Fields : Written(plan.fields, row)[f] =
              IF f \in DOMAIN plan.fields THEN plan.fields[f] ELSE row[f]
BY PlanFacts DEF Written, Row

LEMMA KeyOfRow ==
  ASSUME NEW plan \in Plans, NEW pk \in Pks
  PROVE  KeyGiven(plan.fields, pk) \in Pks
BY PlanFacts DEF KeyGiven

LEMMA DiffOfFields ==
  ASSUME NEW plan \in Plans, NEW before
  PROVE  Diff(plan, before) \in SUBSET (Fields \union {Key})
<1>1. /\ plan.operation \in {"create", "update", "delete"}
      /\ DOMAIN plan.fields \subseteq Fields \union {Key}
  BY PlanFacts
<1>2. CASE plan.operation = "create"
  BY <1>1, <1>2 DEF Diff
<1>3. CASE plan.operation = "update"
  BY <1>1, <1>3 DEF Diff
<1>4. CASE plan.operation = "delete"
  BY <1>1, <1>4 DEF Diff
<1> QED BY <1>1, <1>2, <1>3, <1>4

LEMMA RecordsFollow ==
  ASSUME RecordInv, NEW c \in Clients, NEW q, Moves(c, q), DialogOK(q)
  PROVE  RecordCallsOK'
BY DEF RecordInv, RecordCallsOK, Moves

LEMMA PreviewDone ==
  ASSUME ReqInv, RecordInv, NEW c \in Clients, PreviewMutation(c)
  PROVE  RecordsDone
<1>1. PICK plan \in Plans :
        LET before == IF plan.operation = "create" THEN None ELSE records[plan.record_pk] IN
        /\ plan.operation = "create" \/ before # None
        /\ BeginAs(c, None, Previewed(plan, before))
        /\ UNCHANGED records
  BY DEF PreviewMutation
<1> DEFINE before == IF plan.operation = "create" THEN None ELSE records[plan.record_pk]
           dialog == [plan |-> plan, before |-> before, diff |-> Diff(plan, before)]
           q == Previewed(plan, before)
<1>2. BeginAs(c, None, q) /\ UNCHANGED records
  BY <1>1
<1>3. before \in Row \union {None}
  BY PlanFacts DEF RecordInv
<1> HIDE DEF before
<1>4. dialog \in Dialogs /\ dialog.plan = plan /\ dialog.before = before
      /\ dialog.diff = Diff(plan, before)
  BY <1>3, DiffOfFields DEF Dialogs
<1>5. q = [pc |-> "previewed", ctx |-> None, id |-> plan.record_pk, arg |-> dialog]
  BY DEF Previewed, Call
<1> HIDE DEF dialog, q
<1>6. q \in PreviewedCall /\ q.pc = "previewed" /\ q.id = plan.record_pk /\ q.arg = dialog
  BY <1>4, <1>5, PlanFacts DEF PreviewedCall
<1>7. q \in CallType
  BY <1>6 DEF CallType, RecordCalls
<1>8. ReqInv' /\ Moves(c, q)
  BY <1>2, <1>7, BeginMoves
<1>9. DialogOK(q)
  BY <1>4, <1>6 DEF DialogOK
<1>10. RecordInv'
  BY <1>2, <1>8, <1>9, RecordsFollow DEF RecordInv
<1>11. TouchesWhatItNames
  <2>1. \A d \in Clients : calls[d].pc = "previewed" => calls'[d].pc # "executed"
    BY <1>6, <1>8 DEF Moves
  <2>2. \A d \in Clients : UnshownChangesAreOthers(d)
    BY <2>1 DEF UnshownChangesAreOthers
  <2> QED BY <1>2, <2>2 DEF TouchesWhatItNames
<1>12. q.pc \notin OtherThanRecords
  BY <1>6 DEF OtherThanRecords, ViewPcs, DashPcs
<1> QED BY <1>8, <1>10, <1>11, <1>12, MovesKeep DEF RecordsDone

(* What an execution of plan makes of the table, pk being the record that  *)
(* its answer names.                                                       *)
Result(plan, pk) ==
  /\ records' \in [Pks -> Row \union {None}]
  /\ \A k \in Pks : records'[k] # records[k] => Touches(Call("executed", None, pk, plan), k)
  /\ plan.operation = "update" =>
       /\ pk = plan.record_pk
       /\ records[pk] # None =>
            records'[KeyGiven(plan.fields, pk)] = Written(plan.fields, records[pk])

LEMMA CreateResult ==
  ASSUME RecordInv, NEW c, NEW plan \in Plans, plan.operation = "create",
         ExecuteCreate(c, plan)
  PROVE  \E pk \in Pks : Result(plan, pk) /\ Executed(c, plan, pk)
<1> DEFINE row == Written(plan.fields, NoValues)
<1>1. PICK pk \in Pks : /\ records[pk] = None
                        /\ records' = [records EXCEPT ![pk] = row]
                        /\ Executed(c, plan, pk)
  BY DEF ExecuteCreate
<1>2. row \in Row
  <2>1. NoValues \in Row
    BY DEF NoValues, Row
  <2> QED BY <2>1, WrittenRow
<1> HIDE DEF row
<1>3. records' \in [Pks -> Row \union {None}] /\ \A k \in Pks \ {pk} : records'[k] = records[k]
  BY <1>1, <1>2 DEF RecordInv
<1>4. Touches(Call("executed", None, pk, plan), pk)
  BY <1>1 DEF Touches, Call
<1> QED BY <1>1, <1>3, <1>4 DEF Result

LEMMA UpdateResult ==
  ASSUME RecordInv, NEW c, NEW plan \in Plans, plan.operation = "update",
         ExecuteUpdate(c, plan)
  PROVE  \E pk \in Pks : Result(plan, pk) /\ Executed(c, plan, pk)
<1> DEFINE pk == plan.record_pk
           to == KeyGiven(plan.fields, pk)
           row == Written(plan.fields, records[pk])
<1>1. /\ records[pk] # None /\ to # pk => records[to] = None
      /\ records' = IF records[pk] = None THEN records
                    ELSE [records EXCEPT ![pk] = None, ![to] = row]
      /\ Executed(c, plan, pk)
  BY DEF ExecuteUpdate
<1>2. records \in [Pks -> Row \union {None}] /\ pk \in Pks /\ to \in Pks
  BY PlanFacts, KeyOfRow DEF RecordInv
<1>3. CASE records[pk] = None
  <2>1. records' = records
    BY <1>1, <1>3
  <2> QED BY <1>1, <1>2, <1>3, <2>1 DEF Result
<1>4. CASE records[pk] # None
  <2>1. row \in Row
    BY <1>2, <1>4, WrittenRow
  <2>2. records' = [records EXCEPT ![pk] = None, ![to] = row]
    BY <1>1, <1>4
  <2> DEFINE was == records[pk]
  <2>3. was # None /\ row = Written(plan.fields, was)
    BY <1>4
  <2>4. to = KeyGiven(plan.fields, pk) /\ pk = plan.record_pk
    OBVIOUS
  <2>5. records[pk] = was
    OBVIOUS
  <2> HIDE DEF row, to, pk, was
  <2>6. records' \in [Pks -> Row \union {None}] /\ records'[to] = row
        /\ \A k \in Pks \ {pk, to} : records'[k] = records[k]
    BY <1>2, <2>1, <2>2
  <2>7. to # pk => records[to] = None /\ records'[pk] = None
    BY <1>1, <1>2, <1>4, <2>2
  <2>8. ASSUME NEW k \in {pk, to}
        PROVE  Touches(Call("executed", None, pk, plan), k)
    BY <2>3, <2>4, <2>5, <2>6, <2>7 DEF Touches, Call
  <2>9. records'[KeyGiven(plan.fields, pk)] = Written(plan.fields, records[pk])
    BY <2>3, <2>4, <2>5, <2>6
  <2> QED BY <1>1, <1>2, <2>4, <2>6, <2>8, <2>9 DEF Result
<1> QED BY <1>3, <1>4

LEMMA DeleteResult ==
  ASSUME RecordInv, NEW c, NEW plan \in Plans, plan.operation = "delete",
         ExecuteDelete(c, plan)
  PROVE  \E pk \in Pks : Result(plan, pk) /\ Executed(c, plan, pk)
<1> DEFINE pk == plan.record_pk
<1>1. pk \in Pks /\ records' = [records EXCEPT ![pk] = None] /\ Executed(c, plan, pk)
  BY PlanFacts DEF ExecuteDelete
<1> HIDE DEF pk
<1>2. /\ records' \in [Pks -> Row \union {None}] /\ records'[pk] = None
      /\ \A k \in Pks \ {pk} : records'[k] = records[k]
  BY <1>1 DEF RecordInv
<1>3. Touches(Call("executed", None, pk, plan), pk)
  BY <1>2 DEF Touches, Call
<1> QED BY <1>1, <1>2, <1>3 DEF Result

LEMMA ExecuteDone ==
  ASSUME ReqInv, RecordInv, NEW c \in Clients, ExecuteMutation(c)
  PROVE  RecordsDone
<1>1. PICK plan \in Plans :
        \/ plan.operation = "create" /\ ExecuteCreate(c, plan)
        \/ plan.operation = "update" /\ ExecuteUpdate(c, plan)
        \/ plan.operation = "delete" /\ ExecuteDelete(c, plan)
  BY DEF ExecuteMutation
<1>2. PICK pk \in Pks : Result(plan, pk) /\ Executed(c, plan, pk)
  BY <1>1, CreateResult, UpdateResult, DeleteResult
<1> DEFINE q == Call("executed", None, pk, plan)
<1>3. q \in ExecutedCall /\ q.pc = "executed" /\ q.id = pk /\ q.arg = plan
  BY DEF ExecutedCall, Call
<1>4. BeginAs(c, None, q)
  BY <1>2 DEF Executed
<1>5. \A k \in Pks : records'[k] # records[k] => Touches(q, k)
  BY <1>2 DEF Result
<1> HIDE DEF q
<1>6. q \in CallType
  BY <1>3 DEF CallType, RecordCalls
<1>7. ReqInv' /\ Moves(c, q)
  BY <1>4, <1>6, BeginMoves
<1>8. DialogOK(q) /\ q.pc \notin OtherThanRecords
  BY <1>3 DEF DialogOK, OtherThanRecords, ViewPcs, DashPcs
<1>9. RecordInv'
  BY <1>2, <1>7, <1>8, RecordsFollow DEF RecordInv, Result
<1>10. ASSUME NEW k \in Pks, records'[k] # records[k]
       PROVE  \E d \in Clients : calls'[d].pc = "executed" /\ Touches(calls'[d], k)
  <2>1. calls'[c] = q /\ Touches(q, k)
    BY <1>5, <1>7, <1>10 DEF Moves
  <2>2. Touches(calls'[c], k)
    BY <2>1
  <2> QED BY <1>3, <2>1, <2>2
<1>11. ASSUME NEW d \in Clients
       PROVE  UnshownChangesAreOthers(d)
  <2> DEFINE dialog == calls[d].arg
             to == KeyGiven(dialog.plan.fields, calls[d].id)
  <2> SUFFICES ASSUME calls[d].pc = "previewed", calls'[d].pc = "executed",
                      calls'[d].arg = dialog.plan, dialog.plan.operation = "update",
                      records[calls[d].id] # None
               PROVE  /\ to # calls[d].id => Key \in dialog.diff
                      /\ \A f \in Fields \ dialog.diff :
                           records'[to][f] # records[calls[d].id][f] =>
                             records[calls[d].id][f] # dialog.before[f]
    BY DEF UnshownChangesAreOthers
  <2>1. d = c /\ dialog.plan = plan
    BY <1>3, <1>7 DEF Moves
  <2>2. calls[d].id = plan.record_pk /\ dialog.diff = Diff(plan, dialog.before)
    BY <2>1 DEF RecordInv, RecordCallsOK, DialogOK
  <2>3. plan.operation = "update" /\ pk = plan.record_pk /\ to = KeyGiven(plan.fields, pk)
    BY <1>2, <2>1, <2>2 DEF Result
  <2>4. records[pk] \in Row
    BY <2>2, <2>3 DEF RecordInv
  <2>5. records'[to] = Written(plan.fields, records[pk])
    BY <1>2, <2>2, <2>3 DEF Result
  <2>6. \A f \in DOMAIN plan.fields :
          f \in dialog.diff <=> Held(pk, dialog.before, f) # plan.fields[f]
    BY <2>2, <2>3 DEF Diff
  <2>7. to # pk => Key \in dialog.diff
    <3>1. to # pk => Key \in DOMAIN plan.fields /\ plan.fields[Key] # pk
      BY <2>3 DEF KeyGiven
    <3> QED BY <2>6, <3>1 DEF Held
  <2>8. ASSUME NEW f \in Fields \ dialog.diff, records'[to][f] # records[pk][f]
        PROVE  records[pk][f] # dialog.before[f]
    <3>1. f \in DOMAIN plan.fields /\ records[pk][f] # plan.fields[f]
      BY <2>4, <2>5, <2>8, WrittenRow
    <3>2. Held(pk, dialog.before, f) = dialog.before[f]
      BY MutationsAssumption DEF Held
    <3> QED BY <2>6, <2>8, <3>1, <3>2
  <2> QED BY <2>2, <2>3, <2>7, <2>8
<1> QED BY <1>7, <1>8, <1>9, <1>10, <1>11, MovesKeep DEF RecordsDone, TouchesWhatItNames

(* A step of another service, or the start of a new process.               *)
LEMMA RecordsFrame ==
  ASSUME RecordInv, UNCHANGED records, CallsKept(RecordPcs)
  PROVE  RecordInv' /\ TouchesWhatItNames
<1>1. RecordInv'
  BY DEF RecordInv, RecordCallsOK, DialogOK, CallsKept, RecordPcs
<1>2. \A d \in Clients : calls[d].pc = "previewed" => calls'[d].pc # "executed"
  BY DEF CallsKept, RecordPcs
<1>3. \A d \in Clients : UnshownChangesAreOthers(d)
  BY <1>2 DEF UnshownChangesAreOthers
<1> QED BY <1>1, <1>3 DEF TouchesWhatItNames

LEMMA RecordsInitially ==
  ASSUME RequestsInit, MutationsInit
  PROVE  RecordInv
<1>1. records \in [Pks -> Row \union {None}]
  BY MutationsAssumption DEF MutationsInit, Row
<1>2. RecordCallsOK
  BY IdleOfNobody DEF RequestsInit, RecordCallsOK, DialogOK, RecordPcs
<1> QED BY <1>1, <1>2 DEF RecordInv

-----------------------------------------------------------------------------
(* The invariant of the workspace, and that every step keeps it, changes   *)
(* rows for their owners only and records as its plan says.                *)
Inv == ReqInv /\ ViewsInv /\ DashInv /\ TokenInv /\ SchedInv /\ RecordInv
ForOwner == ViewsForOwner /\ DashesForOwner /\ TokensForOwner /\ SchedulesForOwner
Kept == Inv' /\ ForOwner /\ TouchesWhatItNames

LEMMA CallsKeptOf ==
  ASSUME NEW pcs, NEW part \in SUBSET pcs, CallsKept(pcs)
  PROVE  CallsKept(part)
BY DEF CallsKept

(* A step of one service keeps the parts of the others.                    *)
LEMMA ViewRequestKeeps ==
  ASSUME Inv, ViewsDone, UNCHANGED <<dashVars, tokenVars, schedVars, recordVars>>
  PROVE  Kept
<1>1. CallsKept(OtherThanViews)
  BY DEF ViewsDone
<1>2. CallsKept(DashPcs) /\ CallsKept({"resolve"}) /\ CallsKept({"fire"})
      /\ CallsKept(RecordPcs)
  BY <1>1, CallsKeptOf DEF OtherThanViews
<1>3. DashInv' /\ DashesForOwner
  BY <1>2, DashesFrame DEF Inv
<1>4. TokenInv' /\ TokensForOwner
  BY <1>2, TokensFrame DEF Inv
<1>5. SchedInv' /\ SchedulesForOwner
  BY <1>2, SchedulesFrame DEF Inv
<1>6. RecordInv' /\ TouchesWhatItNames
  BY <1>2, RecordsFrame DEF Inv, recordVars
<1> QED BY <1>3, <1>4, <1>5, <1>6 DEF Kept, Inv, ForOwner, ViewsDone

LEMMA DashRequestKeeps ==
  ASSUME Inv, DashesDone, UNCHANGED <<viewVars, tokenVars, schedVars, recordVars>>
  PROVE  Kept
<1>1. CallsKept(OtherThanDashes)
  BY DEF DashesDone
<1>2. CallsKept(ViewPcs) /\ CallsKept({"resolve"}) /\ CallsKept({"fire"})
      /\ CallsKept(RecordPcs)
  BY <1>1, CallsKeptOf DEF OtherThanDashes
<1>3. ViewsInv' /\ ViewsForOwner
  BY <1>2, ViewsFrame DEF Inv
<1>4. TokenInv' /\ TokensForOwner
  BY <1>2, TokensFrame DEF Inv
<1>5. SchedInv' /\ SchedulesForOwner
  BY <1>2, SchedulesFrame DEF Inv
<1>6. RecordInv' /\ TouchesWhatItNames
  BY <1>2, RecordsFrame DEF Inv, recordVars
<1> QED BY <1>3, <1>4, <1>5, <1>6 DEF Kept, Inv, ForOwner, DashesDone

LEMMA TokenRequestKeeps ==
  ASSUME Inv, TokensDone, UNCHANGED <<viewVars, dashVars, schedVars, recordVars>>
  PROVE  Kept
<1>1. CallsKept(OtherThanTokens)
  BY DEF TokensDone
<1>2. CallsKept(ViewPcs) /\ CallsKept(DashPcs) /\ CallsKept({"fire"}) /\ CallsKept(RecordPcs)
  BY <1>1, CallsKeptOf DEF OtherThanTokens
<1>3. ViewsInv' /\ ViewsForOwner
  BY <1>2, ViewsFrame DEF Inv
<1>4. DashInv' /\ DashesForOwner
  BY <1>2, DashesFrame DEF Inv
<1>5. SchedInv' /\ SchedulesForOwner
  BY <1>2, SchedulesFrame DEF Inv
<1>6. RecordInv' /\ TouchesWhatItNames
  BY <1>2, RecordsFrame DEF Inv, recordVars
<1> QED BY <1>3, <1>4, <1>5, <1>6 DEF Kept, Inv, ForOwner, TokensDone

LEMMA SchedRequestKeeps ==
  ASSUME Inv, SchedulesDone, UNCHANGED <<viewVars, dashVars, tokenVars, recordVars>>
  PROVE  Kept
<1>1. CallsKept(OtherThanSchedules)
  BY DEF SchedulesDone
<1>2. CallsKept(ViewPcs) /\ CallsKept(DashPcs) /\ CallsKept({"resolve"})
      /\ CallsKept(RecordPcs)
  BY <1>1, CallsKeptOf DEF OtherThanSchedules
<1>3. ViewsInv' /\ ViewsForOwner
  BY <1>2, ViewsFrame DEF Inv
<1>4. DashInv' /\ DashesForOwner
  BY <1>2, DashesFrame DEF Inv
<1>5. TokenInv' /\ TokensForOwner
  BY <1>2, TokensFrame DEF Inv
<1>6. RecordInv' /\ TouchesWhatItNames
  BY <1>2, RecordsFrame DEF Inv, recordVars
<1> QED BY <1>3, <1>4, <1>5, <1>6 DEF Kept, Inv, ForOwner, SchedulesDone

LEMMA RecordRequestKeeps ==
  ASSUME Inv, RecordsDone, UNCHANGED <<viewVars, dashVars, tokenVars, schedVars>>
  PROVE  Kept
<1>1. CallsKept(OtherThanRecords)
  BY DEF RecordsDone
<1>2. CallsKept(ViewPcs) /\ CallsKept(DashPcs) /\ CallsKept({"resolve"}) /\ CallsKept({"fire"})
  BY <1>1, CallsKeptOf DEF OtherThanRecords
<1>3. ViewsInv' /\ ViewsForOwner
  BY <1>2, ViewsFrame DEF Inv
<1>4. DashInv' /\ DashesForOwner
  BY <1>2, DashesFrame DEF Inv
<1>5. TokenInv' /\ TokensForOwner
  BY <1>2, TokensFrame DEF Inv
<1>6. SchedInv' /\ SchedulesForOwner
  BY <1>2, SchedulesFrame DEF Inv
<1> QED BY <1>3, <1>4, <1>5, <1>6 DEF Kept, Inv, ForOwner, RecordsDone

LEMMA ExpireKeeps ==
  ASSUME Inv, Expire, UNCHANGED <<viewVars, dashVars, schedVars, recordVars>>
  PROVE  Kept
<1>1. ReqInv' /\ TokenInv' /\ TokensForOwner /\ calls' = calls
  BY ExpireDone DEF Inv
<1>2. CallsKept(OtherThanTokens)
  BY <1>1 DEF CallsKept
<1> QED BY <1>1, <1>2, TokenRequestKeeps DEF TokensDone

LEMMA DeployKeeps ==
  ASSUME Inv, Deploy, UNCHANGED <<dashVars, tokenVars, schedVars, recordVars>>
  PROVE  Kept
<1>1. ReqInv' /\ ViewsInv' /\ ViewsForOwner /\ \A c \in Clients : calls'[c] = Idle
  BY DeployViewsDone DEF Inv
<1>2. CallsKept(OtherThanViews)
  BY <1>1, IdleApart DEF CallsKept
<1> QED BY <1>1, <1>2, ViewRequestKeeps DEF ViewsDone

(* A step that is none: the calls and the tables are as they were.         *)
LEMMA StutterKeeps ==
  ASSUME Inv, UNCHANGED vars
  PROVE  Kept
<1>1. UNCHANGED <<reqVars, viewVars, dashVars, tokenVars, schedVars, recordVars>>
  BY DEF vars
<1>2. ReqInv' /\ CallsKept(ViewPcs) /\ CallsKept(OtherThanViews)
  BY <1>1 DEF Inv, ReqInv, reqVars, CallsKept
<1>3. ViewsInv' /\ ViewsForOwner
  BY <1>1, <1>2, ViewsFrame DEF Inv
<1> QED BY <1>1, <1>2, <1>3, ViewRequestKeeps DEF ViewsDone

LEMMA NextKeeps ==
  ASSUME Inv, [Next]_vars
  PROVE  Kept
<1>1. ASSUME NEW c \in Clients, ViewRequest(c)
      PROVE  Kept
  BY <1>1, ViewStepDone, ViewRequestKeeps DEF ViewRequest, Inv
<1>2. ASSUME NEW c \in Clients, DashRequest(c)
      PROVE  Kept
  BY <1>2, DashStepDone, DashRequestKeeps DEF DashRequest, Inv
<1>3. ASSUME NEW c \in Clients, TokenRequest(c)
      PROVE  Kept
  BY <1>3, TokenStepDone, TokenRequestKeeps DEF TokenRequest, Inv
<1>4. ASSUME NEW c \in Clients, SchedRequest(c)
      PROVE  Kept
  BY <1>4, SchedStepDone, SchedRequestKeeps DEF SchedRequest, Inv
<1>5. ASSUME NEW c \in Clients, RecordRequest(c)
      PROVE  Kept
  BY <1>5, PreviewDone, ExecuteDone, RecordRequestKeeps DEF RecordRequest, MutationStep, Inv
<1>6. ASSUME NEW c \in Clients, HomeRead(c) \/ HomeViews(c)
      PROVE  Kept
  <2>1. UNCHANGED <<dashVars, tokenVars, schedVars, recordVars>>
    BY <1>6 DEF HomeRead, HomeViews
  <2> QED BY <1>6, <2>1, HomeDone, ViewRequestKeeps DEF Inv
<1>7. CASE Next
  BY <1>1, <1>2, <1>3, <1>4, <1>5, <1>6, <1>7, ExpireKeeps, DeployKeeps DEF Next
<1>8. CASE UNCHANGED vars
  BY <1>8, StutterKeeps
<1> QED BY <1>7, <1>8

LEMMA InitiallyInv == Init => Inv
BY ViewsInitially, DashesInitially, TokensInitially, SchedulesInitially, RecordsInitially
   DEF Init, Inv

LEMMA AlwaysInv == Spec => []Inv
<1>1. Inv /\ [Next]_vars => Inv'
  BY NextKeeps DEF Kept
<1> QED BY InitiallyInv, <1>1, PTL DEF Spec

-----------------------------------------------------------------------------
(* Every variable of every service has its type.                           *)
THEOREM WorkspaceTypeOK == Spec => []TypeOK
<1>1. Inv /\ bound \in Bounds => TypeOK
  <2> SUFFICES ASSUME Inv, bound \in Bounds PROVE TypeOK
    OBVIOUS
  <2>1. ViewsTypeOK
    BY DEF Inv, ViewsInv, ViewTables, ViewRowsOK, ViewsTypeOK
  <2>2. DashboardsTypeOK
    BY DEF Inv, DashInv, DashTables, DashRowsOK, TileRowsOK, PinRowsOK, DashboardsTypeOK
  <2>3. TokensTypeOK
    BY DEF Inv, TokenInv, TokenTables, TokensTypeOK
  <2>4. SchedulesTypeOK
    BY DEF Inv, SchedInv, SchedTables, SchedulesTypeOK
  <2>5. MutationsTypeOK
    <3>1. ASSUME NEW c \in Clients
          PROVE  /\ calls[c].pc \in {"previewed", "executed"} => calls[c].ctx = None
                 /\ calls[c].pc = "executed" => calls[c].id \in Pks
      BY CallKinds DEF Inv, ReqInv, PreviewedCall, ExecutedCall
    <3>2. \A c \in Clients : calls[c].pc = "previewed" => calls[c].id = calls[c].arg.plan.record_pk
      BY DEF Inv, RecordInv, RecordCallsOK, DialogOK
    <3> QED BY <3>1, <3>2 DEF Inv, RecordInv, MutationsTypeOK
  <2>6. \A c \in Clients : calls[c].ctx \in Contexts \union {None}
    BY CallContexts DEF Inv, ReqInv
  <2> QED BY <2>1, <2>2, <2>3, <2>4, <2>5, <2>6 DEF TypeOK, Inv, ReqInv
<1>2. Init => bound \in Bounds
  BY DEF Init
<1>3. bound \in Bounds /\ [Next]_vars => (bound \in Bounds)'
  BY DEF Next, vars
<1> QED BY <1>1, <1>2, <1>3, AlwaysInv, PTL DEF Spec

(* However the requests of the services interleave, no two rows of a user  *)
(* share a name, no two pins a source, every tile has its dashboard, every *)
(* layout an update has set fits in whole cells, and every run was fired by *)
(* the owner of its schedule.                                              *)
THEOREM TablesAlwaysConsistent == Spec => []TablesConsistent
<1>1. Inv => TablesConsistent
  <2> SUFFICES ASSUME Inv PROVE TablesConsistent
    OBVIOUS
  <2>1. NamesUnique
    BY DEF Inv, ViewsInv, ViewTables, ViewNamesUnique, DashInv, DashTables, DashNamesUnique,
           PinRowsOK, NamesUnique
  <2>2. TilesHaveDashboards
    BY DEF Inv, DashInv, DashTables, TileRowsOK, TilesHaveDashboards
  <2>3. ArrangedLayoutsFit
    <3>1. ASSUME NEW d \in arranged, dashes[d] # None
          PROVE  dashes[d].layout \in Layouts /\ ValidLayout(dashes[d].layout)
      BY <3>1 DEF Inv, DashInv, DashTables, DashRowsOK, Dash
    <3> QED BY <3>1, ValidLayoutFits DEF ArrangedLayoutsFit
  <2>4. RunsOfOwners
    BY DEF Inv, SchedInv, SchedTables, RunsOfOwners
  <2> QED BY <2>1, <2>2, <2>3, <2>4 DEF TablesConsistent
<1> QED BY <1>1, AlwaysInv, PTL

(* A token never records more accesses than its limit, and without two     *)
(* resolves of it at once it records each one that is answered.            *)
THEOREM AccessesAlwaysCounted == Spec => []AccessesCounted
<1>1. Inv => AccessesCounted
  BY DEF Inv, TokenInv, TokenTables, Counted, AccessesCounted
<1> QED BY <1>1, AlwaysInv, PTL

(* What is answered to a user is the user's, or was shared at some time.   *)
THEOREM AnswersAlwaysVisible == Spec => []AnswersVisible
<1>1. Inv => AnswersVisible
  BY DEF Inv, ViewsInv, ViewCallsOK, ViewCallOK, Shown, AnswersVisible
<1> QED BY <1>1, AlwaysInv, PTL

(* An execution that starts once a drift is on record says stale.          *)
THEOREM DriftAlwaysSurfaces == Spec => []DriftSurfaces
<1>1. Inv => DriftSurfaces
  BY DEF Inv, ViewsInv, ViewCallsOK, ViewCallOK, DriftSurfaces
<1> QED BY <1>1, AlwaysInv, PTL

(* A row comes, goes or changes in a step of its owner only, but for the   *)
(* stale mark of a view, the tiles of a dashboard, all of which a deletion *)
(* takes, and the count and the expiry of a share token.                   *)
THEOREM RowsAlwaysChangeForTheirOwner == Spec => RowsChangeForTheirOwner
<1>1. Inv /\ [Next]_vars =>
        [/\ \A v \in ViewIds :
              \/ ChangesForOwner(views[v], views'[v])
              \/ /\ views[v] # None
                 /\ views'[v] = [views[v] EXCEPT !.stale = TRUE]
         /\ \A d \in DashIds : ChangesForOwner(dashes[d], dashes'[d])
         /\ \A t \in TileIds : tiles'[t] # tiles[t] => TileChanges(t)
         /\ \A p \in PinIds : pins'[p] # pins[p] => ComesOrGoes(pins[p], pins'[p])
         /\ \A k \in TokenIds : tokens'[k] # tokens[k] => TokenChanges(tokens[k], tokens'[k])
         /\ \A s \in ScheduleIds : ChangesForOwner(schedules[s], schedules'[s])
         /\ \A a \in AlertIds : ChangesForOwner(alerts[a], alerts'[a])]_vars
  BY NextKeeps DEF Kept, ForOwner, ViewsForOwner, DashesForOwner, TokensForOwner,
                   SchedulesForOwner
<1> QED BY <1>1, AlwaysInv, PTL DEF Spec, RowsChangeForTheirOwner

(* A record changes in the execution of a plan that names it or the key it *)
(* is to have, as the plan says, and beyond what its dialog showed only if *)
(* others changed it; no update of a key overwrites the record that has it. *)
THEOREM MutationsAlwaysTouchWhatTheyName == Spec => MutationsTouchWhatTheyName
<1>1. Inv /\ [Next]_vars =>
        [/\ \A pk \in Pks : records'[pk] # records[pk] =>
              \E c \in Clients : calls'[c].pc = "executed" /\ Touches(calls'[c], pk)
         /\ \A c \in Clients : UnshownChangesAreOthers(c)]_<<records, calls>>
  BY NextKeeps DEF Kept, TouchesWhatItNames
<1> QED BY <1>1, AlwaysInv, PTL DEF Spec, MutationsTouchWhatTheyName
=============================================================================
