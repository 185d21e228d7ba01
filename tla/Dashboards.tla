----------------------------- MODULE Dashboards -----------------------------
(***************************************************************************)
(* Dashboards, their tiles and a user's pins.  A dashboard belongs to a    *)
(* user; its tiles point to it with a foreign key that cascades.  A tile   *)
(* handler checks the dashboard in one transaction and writes the tile in  *)
(* the next.                                                               *)
(***************************************************************************)
EXTENDS Requests, Integers, Sequences

CONSTANTS
  DashIds, TileIds, PinIds,  \* uuids of rows, each used once
  DashNames,
  Layouts,  \* sequences of rectangles [x, y, w, h] a client may send, in tenths
  Sources   \* what a pin may point to: source_type and source_id

Dash == [owner : Users, tenant : Tenants, name : DashNames, layout : Layouts]
Tile == [dash : DashIds, at : {0, 1}]  \* the position stands for every column
Pin == [user : Users, source : Sources]

ASSUME DashboardsAssumption ==
  /\ Layouts \subseteq Seq([x : Int, y : Int, w : Int, h : Int])
  /\ None \notin Dash \union Tile \union Pin

VARIABLES
  dashes,     \* dui_dashboard
  tiles,      \* dui_dashboard_tile
  pins,       \* dui_pin
  dashIdsUsed,  \* the uuids given out, of all three
  arranged    \* history: dashboards whose layout an update has set

dashVars == <<dashes, tiles, pins, dashIdsUsed, arranged>>

DashboardsInit ==
  /\ dashes = [d \in DashIds |-> None]
  /\ tiles = [t \in TileIds |-> None]
  /\ pins = [p \in PinIds |-> None]
  /\ dashIdsUsed = {} /\ arranged = {}

(* get: by id and owner; the tenant of the context plays no part.          *)
OwnDash(ctx, d) == dashes[d] # None /\ dashes[d].owner = ctx.user

(* uq_dui_dashboard_owner_name                                             *)
FreeDashName(user, name, d) ==
  \A e \in DashIds \ {d} :
    dashes[e] # None => <<dashes[e].owner, dashes[e].name>> # <<user, name>>

(* int(): the fraction is dropped, on either side of zero.                 *)
Trunc(n) == IF n >= 0 THEN n \div 10 ELSE -((-n) \div 10)
Whole(r) == [x |-> Trunc(r.x), y |-> Trunc(r.y), w |-> Trunc(r.w), h |-> Trunc(r.h)]

Apart(r, s) ==
  \/ r.x + r.w <= s.x \/ s.x + s.w <= r.x
  \/ r.y + r.h <= s.y \/ s.y + s.h <= r.y
(* _validate_layout, in whole cells: widths, the right edge, and every     *)
(* earlier tile.                                                           *)
ValidLayout(layout) ==
  \A i \in DOMAIN layout :
    LET r == Whole(layout[i]) IN
    /\ r.w \in 1..12
    /\ r.x + r.w <= 12
    /\ \A j \in 1..(i - 1) : Apart(r, Whole(layout[j]))

(* create: the layout is taken as it is; the read-back changes nothing.    *)
CreateDash(c) ==
  \E ctx \in Contexts : \E d \in DashIds \ dashIdsUsed :
    \E name \in DashNames : \E layout \in Layouts :
      /\ Once(c, ctx)
      /\ dashIdsUsed' = dashIdsUsed \union {d}
      /\ dashes' = IF FreeDashName(ctx.user, name, d)
                   THEN [dashes EXCEPT ![d] = [owner |-> ctx.user, tenant |-> ctx.tenant,
                                               name |-> name, layout |-> layout]]
                   ELSE dashes
      /\ UNCHANGED <<tiles, pins, arranged>>

(* update: a layout is validated before anything is written (422), and     *)
(* written as it was sent; the UPDATE misses a dashboard of someone else,  *)
(* and the read-back is a 404.                                             *)
UpdateDash(c) ==
  \E ctx \in Contexts : \E d \in dashIdsUsed \intersect DashIds :
    \E name \in DashNames \union {None} : \E layout \in Layouts \union {None} :
      LET row == dashes[d]
          new == [owner |-> row.owner, tenant |-> row.tenant, name |-> Given(name, row.name),
                  layout |-> Given(layout, row.layout)]
          written == /\ layout # None => ValidLayout(layout)
                     /\ OwnDash(ctx, d)
                     /\ name # None => FreeDashName(ctx.user, name, d)
      IN
      /\ Once(c, ctx)
      /\ dashes' = IF written THEN [dashes EXCEPT ![d] = new] ELSE dashes
      /\ arranged' = IF written /\ layout # None THEN arranged \union {d} ELSE arranged
      /\ UNCHANGED <<tiles, pins, dashIdsUsed>>

(* ON DELETE CASCADE                                                       *)
DropTiles(d) == tiles' = [t \in TileIds |->
                  IF tiles[t] # None /\ tiles[t].dash = d THEN None ELSE tiles[t]]

(* delete: one transaction, first the tiles of this dashboard, whoever     *)
(* owns it, then the dashboard, if it is the caller's.                     *)
DeleteDash(c) ==
  \E ctx \in Contexts : \E d \in dashIdsUsed \intersect DashIds :
    /\ Once(c, ctx)
    /\ DropTiles(d)
    /\ dashes' = IF OwnDash(ctx, d) THEN [dashes EXCEPT ![d] = None] ELSE dashes
    /\ UNCHANGED <<pins, dashIdsUsed, arranged>>

(* --------------------------------- tiles -------------------------------- *)

(* Every tile handler begins with get: not the owner's is a 404 (500, as   *)
(* nothing catches it) and ends the request.                               *)
TileCheck(c, pc, t) ==
  \E ctx \in Contexts : \E d \in DashIds :
    /\ OwnDash(ctx, d)
    /\ Begin(c, Call(pc, ctx, d, t))
    /\ UNCHANGED dashVars
KnownTiles == dashIdsUsed \intersect TileIds
AddTileCheck(c) == TileCheck(c, "tile_add", None)
UpdateTileCheck(c) == \E t \in KnownTiles : TileCheck(c, "tile_update", t)
DeleteTileCheck(c) == \E t \in KnownTiles : TileCheck(c, "tile_delete", t)

AddTileInsert_NoKey(c) ==  \* variant: the table without its foreign key
  \E t \in TileIds \ dashIdsUsed :
    /\ calls[c].pc = "tile_add"
    /\ dashIdsUsed' = dashIdsUsed \union {t}
    /\ tiles' = [tiles EXCEPT ![t] = [dash |-> calls[c].id, at |-> 0]]
    /\ Return(c)
    /\ UNCHANGED <<dashes, pins, arranged>>
(* The INSERT meets the foreign key if the dashboard is gone by now.       *)
AddTileInsert(c) ==
  \E t \in TileIds \ dashIdsUsed :
    /\ calls[c].pc = "tile_add"
    /\ dashIdsUsed' = dashIdsUsed \union {t}
    /\ tiles' = IF dashes[calls[c].id] = None THEN tiles
                ELSE [tiles EXCEPT ![t] = [dash |-> calls[c].id, at |-> 0]]
    /\ Return(c)
    /\ UNCHANGED <<dashes, pins, arranged>>

(* The writes name tile and dashboard: a tile of another dashboard stays,  *)
(* and one that is gone is no error of theirs.                             *)
OfDash(t, d) == tiles[t] # None /\ tiles[t].dash = d
UpdateTileWrite(c) ==
  LET call == calls[c] IN
  /\ call.pc = "tile_update"
  /\ tiles' = IF OfDash(call.arg, call.id)
              THEN [tiles EXCEPT ![call.arg] = [@ EXCEPT !.at = 1]] ELSE tiles
  /\ Return(c)
  /\ UNCHANGED <<dashes, pins, dashIdsUsed, arranged>>
DeleteTileWrite(c) ==
  LET call == calls[c] IN
  /\ call.pc = "tile_delete"
  /\ tiles' = IF OfDash(call.arg, call.id) THEN [tiles EXCEPT ![call.arg] = None] ELSE tiles
  /\ Return(c)
  /\ UNCHANGED <<dashes, pins, dashIdsUsed, arranged>>

(* --------------------------------- pins --------------------------------- *)

(* uq_dui_pin_user_source; the source itself is never looked up.           *)
CreatePin(c) ==
  \E ctx \in Contexts : \E p \in PinIds \ dashIdsUsed : \E source \in Sources :
    LET pin == [user |-> ctx.user, source |-> source] IN
    /\ Once(c, ctx)
    /\ dashIdsUsed' = dashIdsUsed \union {p}
    /\ pins' = IF \E q \in PinIds : pins[q] = pin THEN pins ELSE [pins EXCEPT ![p] = pin]
    /\ UNCHANGED <<dashes, tiles, arranged>>

DeletePin(c) ==
  \E ctx \in Contexts : \E p \in dashIdsUsed \intersect PinIds :
    /\ Once(c, ctx)
    /\ pins' = IF pins[p] # None /\ pins[p].user = ctx.user THEN [pins EXCEPT ![p] = None]
               ELSE pins
    /\ UNCHANGED <<dashes, tiles, dashIdsUsed, arranged>>

DashStep(c) ==
  \/ CreateDash(c) \/ UpdateDash(c) \/ DeleteDash(c)
  \/ AddTileCheck(c) \/ AddTileInsert(c) \/ UpdateTileCheck(c) \/ UpdateTileWrite(c)
  \/ DeleteTileCheck(c) \/ DeleteTileWrite(c) \/ CreatePin(c) \/ DeletePin(c)
-----------------------------------------------------------------------------
DashboardsTypeOK ==
  /\ dashes \in [DashIds -> Dash \union {None}]
  /\ tiles \in [TileIds -> Tile \union {None}]
  /\ pins \in [PinIds -> Pin \union {None}]
  /\ dashIdsUsed \subseteq DashIds \union TileIds \union PinIds
  /\ arranged \subseteq dashIdsUsed

(* Every tile is one of a dashboard that exists, although the handlers     *)
(* look at the dashboard in a transaction before that of the tile.         *)
TilesHaveDashboards ==
  \A t \in TileIds : tiles[t] # None => dashes[tiles[t].dash] # None

(* The cells of a tile.  A layout that was set by an update, its numbers   *)
(* taken as the check takes them, covers no cell twice and none beyond the *)
(* twelfth column.  As it is stored it keeps its fractions, which may      *)
(* still overlap; and one that was sent with the creation is not checked.  *)
Cells(r) == (r.x .. (r.x + r.w - 1)) \X (r.y .. (r.y + r.h - 1))
ArrangedLayoutsFit ==
  \A d \in arranged : dashes[d] # None =>
    LET layout == dashes[d].layout IN
    \A i, j \in DOMAIN layout :
      /\ \A cell \in Cells(Whole(layout[i])) : cell[1] < 12
      /\ i # j => Cells(Whole(layout[i])) \intersect Cells(Whole(layout[j])) = {}
=============================================================================
