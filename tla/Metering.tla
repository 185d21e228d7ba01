------------------------------ MODULE Metering ------------------------------
(***************************************************************************)
(* Metering: what an operation asked of the language model is recorded     *)
(* with its price, which comes from a ledger of rates that are superseded  *)
(* and never removed.  Every write is best effort.  Days are numbered from *)
(* the seeded rate on, and there is one model: the rates of another never  *)
(* meet its own.                                                           *)
(***************************************************************************)
EXTENDS Naturals, Sequences, FiniteSets

CONSTANTS
  Clients,  \* coroutines that may be under way at once
  MaxDay,   \* bound: the days rates start at and operations run on
  MaxRates, MaxOps,  \* bounds: rows of the ledger, operations
  None      \* null

Days == 1 .. MaxDay
RateIds == 1 .. MaxRates
OpIds == 1 .. MaxOps
Rate == [from : Days, to : Days \union {None}]
Entry == [rate : RateIds \union {None}, cost : 0 .. MaxRates, day : Days]
Idle == [pc |-> "idle"]

ASSUME MeteringAssumption ==
  {MaxDay, MaxRates, MaxOps} \subseteq Nat \ {0} /\ None \notin Nat \union Entry

VARIABLES
  rates,     \* metering_cost_rates, in the order of their ids
  ops,       \* metering_operations, with the rows that could not be written
  entries,   \* metering_llm_interactions, one per operation at most
  told,      \* the llm_cost_usd each operation was answered with
  calls,     \* what each client is doing and holds in its locals
  today,
  unsure,    \* history: operations whose interaction was committed, but
             \* whose INSERT was seen to fail
  overlapped \* history: two supersessions were under way at once

ledgerVars == <<rates, overlapped>>
billVars == <<ops, entries, told, unsure>>
vars == <<ledgerVars, billVars, calls, today>>

Init ==
  /\ rates \in {<<>>, <<[from |-> 1, to |-> None]>>}  \* a model without a seed, and one with
  /\ ops = <<>> /\ entries = [o \in OpIds |-> None] /\ told = [o \in OpIds |-> None]
  /\ calls = [c \in Clients |-> Idle]
  /\ today = 1 /\ unsure = {} /\ overlapped = FALSE

Goto(c, call) == calls' = [calls EXCEPT ![c] = call]

-----------------------------------------------------------------------------
(* Operations *)

(* start_operation: a failed INSERT is logged, and the operation goes on   *)
(* under an id that has no row.                                            *)
StartOperation(c) ==
  /\ calls[c] = Idle /\ Len(ops) < MaxOps
  /\ \E row \in {"none", "started"} : ops' = Append(ops, row)
  /\ Goto(c, [pc |-> "open", op |-> Len(ops) + 1])
  /\ UNCHANGED <<ledgerVars, entries, told, unsure, today>>

(* get_active_rate: of the rates in force that day the one that began last.*)
InForce(r, day) == rates[r].from <= day /\ (rates[r].to = None \/ rates[r].to >= day)
Considered(day) == {r \in DOMAIN rates : InForce(r, day)}
ActiveRate(day) ==
  {r \in Considered(day) : \A s \in Considered(day) : rates[s].from <= rates[r].from}

(* CostCalculator: tokens at the price of the rate, here its id.  Prices   *)
(* are above 0 here; the code refuses no other rate, but nothing is said   *)
(* of one.                                                                 *)
Compute(rate, tokens) == IF rate = None THEN 0 ELSE rate * tokens

(* The model answers or fails (no tokens); either way the decorator looks  *)
(* the price up.  A look-up that fails leaves the call unrecorded.         *)
CallModel(c) ==
  /\ calls[c].pc = "open"
  /\ \/ \E rate \in IF Considered(today) = {} THEN {None} ELSE ActiveRate(today), tokens \in {0, 1} :
          Goto(c, [pc |-> "priced", op |-> calls[c].op,
                   entry |-> [rate |-> rate, cost |-> Compute(rate, tokens), day |-> today]])
     \/ Goto(c, [pc |-> "billed", op |-> calls[c].op, cost |-> 0])
  /\ UNCHANGED <<ledgerVars, billVars, today>>

(* The INSERT of the interaction: the operation's context takes its cost,  *)
(* and nothing if it fails or seems to (the answer to the commit is lost). *)
LostCost_Counted(entry) == entry.cost  \* variant: the context takes it anyway
LostCost(entry) == 0
Recorded(c) == entries' = [entries EXCEPT ![calls[c].op] = calls[c].entry]
Billed(c, cost) == Goto(c, [pc |-> "billed", op |-> calls[c].op, cost |-> cost])
RecordInteraction(c) ==
  LET call == calls[c] IN
  /\ call.pc = "priced"
  /\ \/ Recorded(c) /\ Billed(c, call.entry.cost) /\ UNCHANGED unsure
     \/ Recorded(c) /\ Billed(c, LostCost(call.entry)) /\ unsure' = unsure \union {call.op}
     \/ Billed(c, LostCost(call.entry)) /\ UNCHANGED <<entries, unsure>>
  /\ UNCHANGED <<ledgerVars, ops, told, today>>

(* The finally block of the handler: the cost of the context is put in the *)
(* answer (none if it is not above 0, which told has as 0), then           *)
(* complete_operation writes the outcome, if there is a row and the UPDATE *)
(* succeeds.  An operation need not call the model.                        *)
Complete(o) ==
  \/ ops[o] = "started" /\ ops' = [ops EXCEPT ![o] = "completed"]
  \/ UNCHANGED ops
Answer(c) ==
  LET call == calls[c] IN
  /\ call.pc \in {"open", "billed"}
  /\ told' = [told EXCEPT ![call.op] = IF call.pc = "open" THEN 0 ELSE call.cost]
  /\ Complete(call.op)
  /\ Goto(c, Idle)
  /\ UNCHANGED <<ledgerVars, entries, unsure, today>>

-----------------------------------------------------------------------------
(* The ledger *)

OpenRates == {r \in DOMAIN rates : rates[r].to = None}

(* supersede_active_rate is one READ COMMITTED transaction.  Its UPDATE    *)
(* finds the open rows that are committed when it starts ...               *)
Superseding(c) == calls[c].pc \in {"closing", "inserting"}
Supersede(c) ==
  /\ calls[c] = Idle
  /\ \E day \in Days : Goto(c, [pc |-> "closing", from |-> day, rows |-> OpenRates])
  /\ overlapped' = (overlapped \/ \E d \in Clients : Superseding(d))
  /\ UNCHANGED <<rates, billVars, today>>

(* ... waits for each that another transaction has written, and skips it   *)
(* if it is not open any more.  effective_to is the day before; a row that *)
(* began later breaks ck_cost_rates_date_range: a 400, all is undone.      *)
DayBefore_Same(day) == day  \* variant: the rate ends on the day the next begins
DayBefore(day) == day - 1
Locked(r) == \E d \in Clients : calls[d].pc = "inserting" /\ r \in calls[d].rows
CloseRates(c) ==
  LET call == calls[c]
      rows == call.rows \intersect OpenRates
  IN
  /\ call.pc = "closing" /\ \A r \in call.rows : ~Locked(r)
  /\ IF \A r \in rows : rates[r].from <= DayBefore(call.from)
     THEN Goto(c, [pc |-> "inserting", from |-> call.from, rows |-> rows])
     ELSE Goto(c, Idle)
  /\ UNCHANGED <<ledgerVars, billVars, today>>

(* The INSERT and the commit; uq_cost_rates_provider_model_date admits one *)
(* rate per first day.                                                     *)
DateTaken_Never(day) == FALSE  \* variant: no unique constraint
DateTaken(day) == \E r \in DOMAIN rates : rates[r].from = day
InsertRate(c) ==
  LET call == calls[c]
      closed == [r \in DOMAIN rates |->
                   IF r \in call.rows THEN [rates[r] EXCEPT !.to = DayBefore(call.from)]
                   ELSE rates[r]]
  IN
  /\ call.pc = "inserting"
  /\ \/ DateTaken(call.from) /\ UNCHANGED rates
     \/ /\ ~DateTaken(call.from) /\ Len(rates) < MaxRates
        /\ rates' = Append(closed, [from |-> call.from, to |-> None])
  /\ Goto(c, Idle)
  /\ UNCHANGED <<overlapped, billVars, today>>

-----------------------------------------------------------------------------
(* A request is cancelled, a statement of it fails or the process stops: a *)
(* transaction is undone, an operation is not answered.                    *)
Cut(c) ==
  /\ calls[c] # Idle /\ Goto(c, Idle)
  /\ UNCHANGED <<ledgerVars, billVars, today>>

DayPasses == today < MaxDay /\ today' = today + 1 /\ UNCHANGED <<ledgerVars, billVars, calls>>

Step(c) ==
  \/ StartOperation(c) \/ CallModel(c) \/ RecordInteraction(c) \/ Answer(c)
  \/ Supersede(c) \/ CloseRates(c) \/ InsertRate(c) \/ Cut(c)
Next == DayPasses \/ \E c \in Clients : Step(c)
Spec == Init /\ [][Next]_vars
-----------------------------------------------------------------------------
CallType ==
  {Idle} \union [pc : {"open"}, op : OpIds] \union [pc : {"priced"}, op : OpIds, entry : Entry]
    \union [pc : {"billed"}, op : OpIds, cost : 0 .. MaxRates]
    \union [pc : {"closing", "inserting"}, from : Days, rows : SUBSET RateIds]

(* The ledger, the operations and the requests have the shape the code     *)
(* relies on: a rate does not end before it begins, no two begin on one    *)
(* day, and an interaction belongs to an operation that was started.       *)
TypeOK ==
  /\ rates \in Seq(Rate) /\ Len(rates) <= MaxRates
  /\ \A r \in DOMAIN rates : rates[r].to # None => rates[r].from <= rates[r].to
  /\ \A r, s \in DOMAIN rates : rates[r].from = rates[s].from => r = s
  /\ ops \in Seq({"none", "started", "completed"}) /\ Len(ops) <= MaxOps
  /\ entries \in [OpIds -> Entry \union {None}]
  /\ told \in [OpIds -> 0 .. MaxRates \union {None}]
  /\ \A o \in OpIds : entries[o] # None \/ told[o] # None => o \in DOMAIN ops
  /\ calls \in [Clients -> CallType]
  /\ today \in Days /\ unsure \subseteq DOMAIN ops /\ overlapped \in BOOLEAN

(* From the first day of a model's first rate on, every day has a rate in  *)
(* force, in whatever order supersessions run, are refused or are undone;  *)
(* and it has exactly one unless two of them were under way at once, when  *)
(* each leaves its own rate open.                                          *)
EveryDayHasItsRate ==
  \A day \in Days :
    LET inForce == {r \in DOMAIN rates : InForce(r, day)} IN
    (\E r \in DOMAIN rates : rates[r].from <= day) =>
      inForce # {} /\ (~overlapped => Cardinality(inForce) = 1)

(* What a caller is told an operation cost is what was recorded for it: 0  *)
(* if nothing was, and less only if a commit succeeded unseen.  And what   *)
(* was recorded stands: its rate is in force on its day for good, unless a *)
(* later rate was backdated to before that day.                            *)
BillsReconcile ==
  \A o \in OpIds :
    LET cost == IF entries[o] = None THEN 0 ELSE entries[o].cost IN
    /\ told[o] # None => told[o] <= cost /\ (o \notin unsure => told[o] = cost)
    /\ entries[o] # None /\ entries[o].rate # None =>
         LET r == entries[o].rate
             day == entries[o].day
         IN  \/ InForce(r, day)
             \/ rates[r].from <= day
                  /\ \E s \in DOMAIN rates : s > r /\ rates[s].from <= day
=============================================================================
