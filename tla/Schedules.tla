------------------------------ MODULE Schedules -----------------------------
(***************************************************************************)
(* Schedules of deliveries, their recorded runs, and alerts on saved       *)
(* views.  The worker that would fire them is not part of the code: only   *)
(* a test fire records a run.                                              *)
(***************************************************************************)
EXTENDS Requests

CONSTANTS
  ScheduleIds, AlertIds, RunIds,  \* uuids of rows, each used once
  Crons,      \* expressions: number of fields, and the kind of the minute field
  AlertViews  \* what savedViewId may say

Schedule == [owner : Users, cron : Crons, next : Crons, enabled : BOOLEAN]
Alert == [owner : Users, view : AlertViews, cron : Crons, enabled : BOOLEAN]
Run == [schedule : ScheduleIds, by : Users]

ASSUME SchedulesAssumption ==
  /\ \A e \in Crons : e.fields \in Nat /\ e.minute \in {"star", "step", "at"} /\ e.step \in Nat
  /\ None \notin Schedule \union Alert \union Run

VARIABLES
  schedules,  \* dui_schedule
  alerts,     \* dui_alert
  runs,       \* dui_delivery_run
  schedIdsUsed

schedVars == <<schedules, alerts, runs, schedIdsUsed>>

MinInterval == 15
(* validate: five fields (a preset stands for its five), no "*" minute, no *)
(* step below the minimum.  A list of minutes is not looked into.          *)
ValidCron(e) ==
  /\ e.fields = 5
  /\ e.minute # "star"
  /\ e.minute = "step" => e.step >= MinInterval

SchedulesInit ==
  /\ schedules = [s \in ScheduleIds |-> None]
  /\ alerts = [a \in AlertIds |-> None]
  /\ runs = [r \in RunIds |-> None]
  /\ schedIdsUsed = {}

(* get: by id and owner.                                                   *)
OwnSchedule(ctx, s) == schedules[s] # None /\ schedules[s].owner = ctx.user
OwnAlert(ctx, a) == alerts[a] # None /\ alerts[a].owner = ctx.user

(* create: an invalid expression is a 400 before anything is written.  The *)
(* next run is computed from the expression.                               *)
CreateSchedule(c) ==
  \E ctx \in Contexts : \E s \in ScheduleIds \ schedIdsUsed : \E cron \in Crons :
    /\ Once(c, ctx)
    /\ IF ValidCron(cron)
       THEN /\ schedules' = [schedules EXCEPT ![s] =
                 [owner |-> ctx.user, cron |-> cron, next |-> cron, enabled |-> TRUE]]
            /\ schedIdsUsed' = schedIdsUsed \union {s}
       ELSE UNCHANGED <<schedules, schedIdsUsed>>
    /\ UNCHANGED <<alerts, runs>>

UpdateSchedule_Null(c) ==  \* variant: a column that is not given is written as null
  \E ctx \in Contexts : \E s \in ScheduleIds : \E cron \in Crons \union {None} :
    /\ s \in schedIdsUsed
    /\ Once(c, ctx)
    /\ schedules' = IF OwnSchedule(ctx, s) /\ (cron # None => ValidCron(cron))
                    THEN [schedules EXCEPT ![s] = [@ EXCEPT !.cron = cron]] ELSE schedules
    /\ UNCHANGED <<alerts, runs, schedIdsUsed>>
(* update: a new expression leaves the next run where it was.              *)
UpdateSchedule(c) ==
  \E ctx \in Contexts : \E s \in ScheduleIds :
    \E cron \in Crons \union {None} : \E enabled \in BOOLEAN \union {None} :
      /\ s \in schedIdsUsed
      /\ Once(c, ctx)
      /\ schedules' =
           IF OwnSchedule(ctx, s) /\ (cron # None => ValidCron(cron))
           THEN [schedules EXCEPT ![s] =
                  [owner |-> schedules[s].owner, cron |-> Given(cron, schedules[s].cron),
                   next |-> schedules[s].next,
                   enabled |-> Given(enabled, schedules[s].enabled)]]
           ELSE schedules
      /\ UNCHANGED <<alerts, runs, schedIdsUsed>>

(* delete: the runs stay.                                                  *)
DeleteSchedule(c) ==
  \E ctx \in Contexts : \E s \in ScheduleIds :
    /\ s \in schedIdsUsed
    /\ Once(c, ctx)
    /\ schedules' = IF OwnSchedule(ctx, s) THEN [schedules EXCEPT ![s] = None] ELSE schedules
    /\ UNCHANGED <<alerts, runs, schedIdsUsed>>

(* test_fire: get, then the INSERT of a run, in two transactions; the run  *)
(* has no foreign key, and the schedule may be gone by then.               *)
FireRead(c) ==
  \E ctx \in Contexts : \E s \in ScheduleIds :
    /\ OwnSchedule(ctx, s)
    /\ Begin(c, Call("fire", ctx, s, None))
    /\ UNCHANGED schedVars
FireInsert(c) ==
  \E r \in RunIds \ schedIdsUsed :
    /\ calls[c].pc = "fire"
    /\ runs' = [runs EXCEPT ![r] = [schedule |-> calls[c].id, by |-> calls[c].ctx.user]]
    /\ schedIdsUsed' = schedIdsUsed \union {r}
    /\ Return(c)
    /\ UNCHANGED <<schedules, alerts>>

(* Alerts: the same, over a view nothing looks up.                         *)
CreateAlert(c) ==
  \E ctx \in Contexts : \E a \in AlertIds \ schedIdsUsed :
    \E cron \in Crons : \E view \in AlertViews :
      /\ Once(c, ctx)
      /\ IF ValidCron(cron)
         THEN /\ alerts' = [alerts EXCEPT ![a] =
                   [owner |-> ctx.user, view |-> view, cron |-> cron, enabled |-> TRUE]]
              /\ schedIdsUsed' = schedIdsUsed \union {a}
         ELSE UNCHANGED <<alerts, schedIdsUsed>>
      /\ UNCHANGED <<schedules, runs>>

UpdateAlert(c) ==
  \E ctx \in Contexts : \E a \in AlertIds :
    \E cron \in Crons \union {None} : \E enabled \in BOOLEAN \union {None} :
      /\ a \in schedIdsUsed
      /\ Once(c, ctx)
      /\ alerts' =
           IF OwnAlert(ctx, a) /\ (cron # None => ValidCron(cron))
           THEN [alerts EXCEPT ![a] =
                  [owner |-> alerts[a].owner, view |-> alerts[a].view,
                   cron |-> Given(cron, alerts[a].cron),
                   enabled |-> Given(enabled, alerts[a].enabled)]]
           ELSE alerts
      /\ UNCHANGED <<schedules, runs, schedIdsUsed>>

DeleteAlert(c) ==
  \E ctx \in Contexts : \E a \in AlertIds :
    /\ a \in schedIdsUsed
    /\ Once(c, ctx)
    /\ alerts' = IF OwnAlert(ctx, a) THEN [alerts EXCEPT ![a] = None] ELSE alerts
    /\ UNCHANGED <<schedules, runs, schedIdsUsed>>

SchedStep(c) ==
  \/ CreateSchedule(c) \/ UpdateSchedule(c) \/ DeleteSchedule(c) \/ FireRead(c)
  \/ FireInsert(c) \/ CreateAlert(c) \/ UpdateAlert(c) \/ DeleteAlert(c)
-----------------------------------------------------------------------------
SchedulesTypeOK ==
  /\ schedules \in [ScheduleIds -> Schedule \union {None}]
  /\ alerts \in [AlertIds -> Alert \union {None}]
  /\ runs \in [RunIds -> Run \union {None}]
  /\ schedIdsUsed \subseteq ScheduleIds \union AlertIds \union RunIds
=============================================================================
