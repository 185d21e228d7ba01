---------------------------- MODULE MeteringProofs ----------------------------
(***************************************************************************)
(* For any number of requests, operations, rates and days: the ledger and  *)
(* the records keep their shape, every day has its rate, and bills agree   *)
(* with what was recorded.                                                 *)
(***************************************************************************)
EXTENDS Metering, FiniteSetTheorems, TLAPS

(* What a request is doing tells which locals it holds.                    *)
LEMMA CallKinds ==
  ASSUME NEW call \in CallType
  PROVE  /\ call.pc = "open" => call \in [pc : {"open"}, op : OpIds]
         /\ call.pc = "priced" => call \in [pc : {"priced"}, op : OpIds, entry : Entry]
         /\ call.pc = "billed" => call \in [pc : {"billed"}, op : OpIds, cost : 0 .. MaxRates]
         /\ call.pc \in {"closing", "inserting"} =>
              call \in [pc : {"closing", "inserting"}, from : Days, rows : SUBSET RateIds]
BY DEF CallType, Idle

(* The locals a request may go on with.                                    *)
LEMMA CallsMade ==
  /\ Idle \in CallType /\ Idle.pc = "idle"
  /\ \A o \in OpIds : [pc |-> "open", op |-> o] \in CallType
  /\ \A o \in OpIds, e \in Entry : [pc |-> "priced", op |-> o, entry |-> e] \in CallType
  /\ \A o \in OpIds, k \in 0 .. MaxRates : [pc |-> "billed", op |-> o, cost |-> k] \in CallType
  /\ \A pc \in {"closing", "inserting"}, day \in Days, rows \in SUBSET RateIds :
       [pc |-> pc, from |-> day, rows |-> rows] \in CallType
BY DEF CallType, Idle

(* A step of a request changes its own locals only.                        *)
LEMMA OwnCall ==
  ASSUME calls \in [Clients -> CallType], NEW c \in Clients, NEW call \in CallType, Goto(c, call)
  PROVE  /\ calls' \in [Clients -> CallType] /\ calls'[c] = call
         /\ \A d \in Clients \ {c} : calls'[d] = calls[d]
BY DEF Goto

-----------------------------------------------------------------------------
(* Type correctness: a request names operations and rates that exist, and  *)
(* a supersession about to insert closes rates that began before its own.  *)

Working == {"open", "priced", "billed"}

CallsKnowRows ==
  \A c \in Clients :
    /\ calls[c].pc \in Working => calls[c].op \in DOMAIN ops
    /\ calls[c].pc \in {"closing", "inserting"} => calls[c].rows \subseteq DOMAIN rates
    /\ calls[c].pc = "inserting" => \A r \in calls[c].rows : rates[r].from < calls[c].from

TypeInv == TypeOK /\ CallsKnowRows

LEMMA Rows ==
  ASSUME TypeOK
  PROVE  /\ Len(rates) \in 0 .. MaxRates /\ DOMAIN rates = 1 .. Len(rates)
         /\ DOMAIN rates \subseteq RateIds
         /\ \A r \in DOMAIN rates : rates[r] \in Rate
         /\ Len(ops) \in 0 .. MaxOps /\ DOMAIN ops = 1 .. Len(ops) /\ DOMAIN ops \subseteq OpIds
         /\ \A o \in DOMAIN ops : ops[o] \in {"none", "started", "completed"}
BY MeteringAssumption DEF TypeOK, RateIds, OpIds

LEMMA TypeInit == Init => TypeInv
<1> SUFFICES ASSUME Init PROVE TypeInv
  OBVIOUS
<1> USE MeteringAssumption
<1>1. 1 \in Days /\ [from |-> 1, to |-> None] \in Rate
  BY DEF Days, Rate
<1>2. /\ rates \in Seq(Rate) /\ Len(rates) <= 1
      /\ \A r \in DOMAIN rates : rates[r] = [from |-> 1, to |-> None] /\ r = 1
  <2> DEFINE seed == [from |-> 1, to |-> None]
  <2>1. seed \in Rate
    BY <1>1
  <2> HIDE DEF seed
  <2>2. CASE rates = <<>>
    BY <2>2
  <2>3. CASE rates = <<seed>>
    BY <2>1, <2>3 DEF seed
  <2> QED BY <2>2, <2>3 DEF Init, seed
<1>3. \A r \in DOMAIN rates : rates[r].to # None => rates[r].from <= rates[r].to
  BY <1>2
<1>4. ops \in Seq({"none", "started", "completed"}) /\ Len(ops) = 0
  BY DEF Init
<1>6. /\ entries \in [OpIds -> Entry \union {None}] /\ told \in [OpIds -> (0 .. MaxRates) \union {None}]
      /\ \A o \in OpIds : entries[o] = None /\ told[o] = None
  BY DEF Init
<1>7. today \in Days /\ unsure \subseteq DOMAIN ops /\ overlapped \in BOOLEAN
  BY <1>1 DEF Init
<1>5. calls \in [Clients -> CallType] /\ \A c \in Clients : calls[c].pc = "idle"
  BY CallsMade DEF Init
<1> QED BY <1>2, <1>3, <1>4, <1>5, <1>6, <1>7 DEF TypeInv, TypeOK, CallsKnowRows, Working

(* What an INSERT of a rate does to the ledger.                            *)
LEMMA LedgerGrows ==
  ASSUME TypeInv, NEW c \in Clients, InsertRate(c)
  PROVE  /\ calls[c] \in [pc : {"inserting"}, from : Days, rows : SUBSET RateIds]
         /\ \/ rates' = rates
            \/ /\ ~DateTaken(calls[c].from) /\ Len(rates) < MaxRates
               /\ rates' \in Seq(Rate) /\ Len(rates') = Len(rates) + 1
               /\ rates'[Len(rates) + 1] = [from |-> calls[c].from, to |-> None]
               /\ \A r \in DOMAIN rates :
                    /\ rates'[r] \in Rate /\ rates'[r].from = rates[r].from
                    /\ rates'[r].to = IF r \in calls[c].rows THEN calls[c].from - 1 ELSE rates[r].to
<1> DEFINE call == calls[c]
           closed == [r \in DOMAIN rates |->
                        IF r \in call.rows THEN [rates[r] EXCEPT !.to = DayBefore(call.from)]
                        ELSE rates[r]]
<1>1. call \in CallType /\ call.pc = "inserting"
  BY DEF InsertRate, TypeInv, TypeOK
<1>2. call \in [pc : {"inserting"}, from : Days, rows : SUBSET RateIds]
  BY <1>1, CallKinds
<1>3. CASE rates' = rates
  BY <1>2, <1>3
<1>4. CASE rates' # rates
  <2>1. ~DateTaken(call.from) /\ Len(rates) < MaxRates
        /\ rates' = Append(closed, [from |-> call.from, to |-> None])
    BY <1>4 DEF InsertRate
  <2>2. ASSUME NEW r \in DOMAIN rates, r \in call.rows
        PROVE  call.from - 1 \in Days
    <3>1. rates[r].from < call.from /\ rates[r].from \in Days
      BY <2>2, <1>1, Rows DEF TypeInv, CallsKnowRows, Rate
    <3> QED BY <3>1, <1>2, MeteringAssumption DEF Days
  <2>3. ASSUME NEW r \in DOMAIN rates
        PROVE  /\ closed[r] \in Rate /\ closed[r].from = rates[r].from
               /\ closed[r].to = IF r \in call.rows THEN call.from - 1 ELSE rates[r].to
    <3>1. rates[r] \in Rate
      BY Rows DEF TypeInv
    <3>2. CASE r \in call.rows
      <4>1. closed[r] = [rates[r] EXCEPT !.to = call.from - 1]
        BY <3>2 DEF DayBefore
      <4> QED BY <4>1, <3>1, <3>2, <2>2 DEF Rate
    <3>3. CASE r \notin call.rows
      BY <3>1, <3>3
    <3> QED BY <3>2, <3>3
  <2>4. closed \in Seq(Rate) /\ Len(closed) = Len(rates) /\ DOMAIN closed = DOMAIN rates
    <3>1. DOMAIN closed = 1 .. Len(rates) /\ Len(rates) \in Nat
      BY Rows DEF TypeInv
    <3>2. closed = [r \in 1 .. Len(rates) |-> closed[r]]
      BY <3>1
    <3>3. \A r \in 1 .. Len(rates) : closed[r] \in Rate
      BY <2>3, <3>1
    <3> HIDE DEF closed
    <3> QED BY <3>1, <3>2, <3>3, Rows DEF TypeInv
  <2>5. [from |-> call.from, to |-> None] \in Rate
    BY <1>2 DEF Rate
  <2> HIDE DEF closed
  <2>6. /\ rates' \in Seq(Rate) /\ Len(rates') = Len(rates) + 1
        /\ rates'[Len(rates) + 1] = [from |-> call.from, to |-> None]
    BY <2>1, <2>4, <2>5
  <2>7. \A r \in DOMAIN rates : rates'[r] = closed[r]
    BY <2>1, <2>4, <2>5, Rows DEF TypeInv
  <2> QED BY <1>2, <2>1, <2>3, <2>6, <2>7
<1> QED BY <1>3, <1>4

(* A step that leaves the ledger and the tables alone keeps their types.   *)
LEMMA TypeFrame ==
  ASSUME TypeInv, NEW c \in Clients, NEW call \in CallType, Goto(c, call),
         UNCHANGED <<rates, billVars, today>>, overlapped' \in BOOLEAN,
         call.pc \in Working => call.op \in DOMAIN ops,
         call.pc \in {"closing", "inserting"} => call.rows \subseteq DOMAIN rates,
         call.pc = "inserting" => \A r \in call.rows : rates[r].from < call.from
  PROVE  TypeInv'
<1>1. /\ calls' \in [Clients -> CallType] /\ calls'[c] = call
      /\ \A d \in Clients \ {c} : calls'[d] = calls[d]
  BY OwnCall DEF TypeInv, TypeOK
<1>2. TypeOK'
  BY <1>1 DEF TypeInv, TypeOK, billVars
<1>3. CallsKnowRows'
  BY <1>1 DEF TypeInv, CallsKnowRows, billVars
<1> QED BY <1>2, <1>3 DEF TypeInv

(* What a call knows of its price: a rate in force, or none, and an amount *)
(* the columns hold.                                                       *)
LEMMA PriceTypes ==
  ASSUME TypeOK, NEW rate \in IF Considered(today) = {} THEN {None} ELSE ActiveRate(today),
         NEW tokens \in {0, 1}
  PROVE  /\ [rate |-> rate, cost |-> Compute(rate, tokens), day |-> today] \in Entry
         /\ rate # None => rate \in DOMAIN rates /\ InForce(rate, today)
<1>1. rate # None => rate \in DOMAIN rates /\ InForce(rate, today)
  BY DEF Considered, ActiveRate
<1>2. rate \in RateIds \union {None}
  BY <1>1, Rows
<1>3. Compute(rate, tokens) \in 0 .. MaxRates
  <2>1. CASE rate = None
    BY <2>1, MeteringAssumption DEF Compute
  <2>2. CASE rate # None /\ tokens = 0
    BY <2>2, <1>2, MeteringAssumption DEF Compute, RateIds
  <2>3. CASE rate # None /\ tokens = 1
    BY <2>3, <1>2, MeteringAssumption DEF Compute, RateIds
  <2> QED BY <2>1, <2>2, <2>3
<1>4. today \in Days
  BY DEF TypeOK
<1> QED BY <1>1, <1>2, <1>3, <1>4 DEF Entry

LEMMA TypeStart ==
  ASSUME TypeInv, NEW c \in Clients, StartOperation(c)
  PROVE  TypeInv'
<1> USE MeteringAssumption
<1>1. PICK row \in {"none", "started"} : ops' = Append(ops, row)
  BY DEF StartOperation
<1> DEFINE call == [pc |-> "open", op |-> Len(ops) + 1]
<1>2. Len(ops) + 1 \in OpIds
  BY Rows DEF StartOperation, OpIds, TypeInv
<1>3. call \in CallType /\ call.pc = "open" /\ call.op = Len(ops) + 1
  BY <1>2, CallsMade
<1>4. Goto(c, call)
  BY DEF StartOperation
<1> HIDE DEF call
<1>5. /\ calls' \in [Clients -> CallType] /\ calls'[c] = call
      /\ \A d \in Clients \ {c} : calls'[d] = calls[d]
  BY <1>3, <1>4, OwnCall DEF TypeInv, TypeOK
<1>6. /\ ops' \in Seq({"none", "started", "completed"}) /\ Len(ops') = Len(ops) + 1
      /\ DOMAIN ops \subseteq DOMAIN ops' /\ Len(ops) + 1 \in DOMAIN ops'
  BY <1>1, Rows DEF TypeInv, TypeOK
<1>7. Len(ops') <= MaxOps
  BY <1>6, Rows DEF TypeInv, StartOperation
<1>8. UNCHANGED <<rates, overlapped, entries, told, unsure, today>>
  BY DEF StartOperation, ledgerVars
<1>9. TypeOK'
  BY <1>5, <1>6, <1>7, <1>8 DEF TypeInv, TypeOK
<1>10. CallsKnowRows'
  BY <1>3, <1>5, <1>6, <1>8 DEF TypeInv, CallsKnowRows, Working
<1> QED BY <1>9, <1>10 DEF TypeInv

LEMMA TypeCallModel ==
  ASSUME TypeInv, NEW c \in Clients, CallModel(c)
  PROVE  TypeInv'
<1>1. calls[c] \in [pc : {"open"}, op : OpIds] /\ calls[c].op \in DOMAIN ops
  BY CallKinds DEF CallModel, TypeInv, TypeOK, CallsKnowRows, Working
<1>2. UNCHANGED <<rates, billVars, today>> /\ overlapped' \in BOOLEAN
  BY DEF CallModel, ledgerVars, TypeInv, TypeOK
<1>3. PICK call \in CallType : Goto(c, call) /\ call.pc \in {"priced", "billed"} /\ call.op = calls[c].op
  <2>1. CASE Goto(c, [pc |-> "billed", op |-> calls[c].op, cost |-> 0])
    <3>1. [pc |-> "billed", op |-> calls[c].op, cost |-> 0] \in CallType
      BY <1>1, CallsMade, MeteringAssumption
    <3> QED BY <2>1, <3>1
  <2>2. CASE ~Goto(c, [pc |-> "billed", op |-> calls[c].op, cost |-> 0])
    <3>1. PICK rate \in IF Considered(today) = {} THEN {None} ELSE ActiveRate(today), tokens \in {0, 1} :
            Goto(c, [pc |-> "priced", op |-> calls[c].op,
                     entry |-> [rate |-> rate, cost |-> Compute(rate, tokens), day |-> today]])
      BY <2>2 DEF CallModel
    <3>2. [rate |-> rate, cost |-> Compute(rate, tokens), day |-> today] \in Entry
      BY PriceTypes DEF TypeInv
    <3>3. [pc |-> "priced", op |-> calls[c].op,
           entry |-> [rate |-> rate, cost |-> Compute(rate, tokens), day |-> today]] \in CallType
      BY <1>1, <3>2, CallsMade
    <3> QED BY <3>1, <3>3
  <2> QED BY <2>1, <2>2
<1> QED BY <1>1, <1>2, <1>3, TypeFrame

LEMMA TypeRecord ==
  ASSUME TypeInv, NEW c \in Clients, RecordInteraction(c)
  PROVE  TypeInv'
<1> DEFINE o == calls[c].op
<1>1. /\ calls[c] \in [pc : {"priced"}, op : OpIds, entry : Entry] /\ o \in DOMAIN ops
      /\ calls[c].entry.cost \in 0 .. MaxRates
  BY CallKinds DEF RecordInteraction, TypeInv, TypeOK, CallsKnowRows, Working, Entry
<1>2. UNCHANGED <<rates, overlapped, ops, told, today>>
  BY DEF RecordInteraction, ledgerVars
<1>3. /\ entries' \in [OpIds -> Entry \union {None}] /\ unsure' \subseteq DOMAIN ops
      /\ \A p \in OpIds : entries'[p] # None => p = o \/ entries[p] # None
  BY <1>1 DEF RecordInteraction, Recorded, TypeInv, TypeOK
<1>4. PICK cost \in 0 .. MaxRates : Billed(c, cost)
  BY <1>1, MeteringAssumption DEF RecordInteraction, LostCost
<1> DEFINE call == [pc |-> "billed", op |-> o, cost |-> cost]
<1>5. call \in CallType /\ call.pc = "billed" /\ call.op = o /\ Goto(c, call)
  BY <1>1, <1>4, CallsMade DEF Billed
<1> HIDE DEF call
<1>6. /\ calls' \in [Clients -> CallType] /\ calls'[c] = call
      /\ \A d \in Clients \ {c} : calls'[d] = calls[d]
  BY <1>5, OwnCall DEF TypeInv, TypeOK
<1>7. TypeOK'
  BY <1>1, <1>2, <1>3, <1>6 DEF TypeInv, TypeOK
<1>8. CallsKnowRows'
  BY <1>1, <1>2, <1>5, <1>6 DEF TypeInv, CallsKnowRows
<1> QED BY <1>7, <1>8 DEF TypeInv

LEMMA TypeAnswer ==
  ASSUME TypeInv, NEW c \in Clients, Answer(c)
  PROVE  TypeInv'
<1> DEFINE o == calls[c].op
<1>1. o \in DOMAIN ops /\ o \in OpIds
  BY Rows DEF Answer, TypeInv, CallsKnowRows, Working
<1>2. UNCHANGED <<rates, overlapped, entries, unsure, today>>
  BY DEF Answer, ledgerVars
<1>3. calls[c].pc = "billed" => calls[c].cost \in 0 .. MaxRates
  BY CallKinds DEF TypeInv, TypeOK
<1>4. /\ told' \in [OpIds -> (0 .. MaxRates) \union {None}]
      /\ \A p \in OpIds : told'[p] # None => p = o \/ told[p] # None
  BY <1>1, <1>3, MeteringAssumption DEF Answer, TypeInv, TypeOK
<1>5. /\ ops' \in Seq({"none", "started", "completed"}) /\ Len(ops') = Len(ops)
      /\ DOMAIN ops' = DOMAIN ops
  <2>1. ops' = ops \/ ops' = [ops EXCEPT ![o] = "completed"]
    BY DEF Answer, Complete
  <2> QED BY <1>1, <2>1, Rows DEF TypeInv, TypeOK
<1>6. /\ calls' \in [Clients -> CallType] /\ calls'[c] = Idle
      /\ \A d \in Clients \ {c} : calls'[d] = calls[d]
  BY CallsMade, OwnCall DEF Answer, TypeInv, TypeOK
<1>7. TypeOK'
  BY <1>1, <1>2, <1>4, <1>5, <1>6 DEF TypeInv, TypeOK
<1>8. CallsKnowRows'
  BY <1>2, <1>5, <1>6, CallsMade DEF TypeInv, CallsKnowRows, Working
<1> QED BY <1>7, <1>8 DEF TypeInv

LEMMA TypeSupersede ==
  ASSUME TypeInv, NEW c \in Clients, Supersede(c)
  PROVE  TypeInv'
<1>1. PICK day \in Days : Goto(c, [pc |-> "closing", from |-> day, rows |-> OpenRates])
  BY DEF Supersede
<1>2. OpenRates \subseteq DOMAIN rates /\ OpenRates \subseteq RateIds
  BY Rows DEF OpenRates, TypeInv
<1>3. [pc |-> "closing", from |-> day, rows |-> OpenRates] \in CallType
  BY <1>2, CallsMade
<1>4. UNCHANGED <<rates, billVars, today>> /\ overlapped' \in BOOLEAN
  BY DEF Supersede
<1> HIDE DEF OpenRates
<1> QED BY <1>1, <1>2, <1>3, <1>4, TypeFrame DEF Working

LEMMA TypeClose ==
  ASSUME TypeInv, NEW c \in Clients, CloseRates(c)
  PROVE  TypeInv'
<1> DEFINE rows == calls[c].rows \intersect OpenRates
           next == [pc |-> "inserting", from |-> calls[c].from, rows |-> rows]
<1>1. /\ calls[c] \in [pc : {"closing"}, from : Days, rows : SUBSET RateIds]
      /\ calls[c].rows \subseteq DOMAIN rates
  BY CallKinds DEF CloseRates, TypeInv, TypeOK, CallsKnowRows
<1>2. UNCHANGED <<rates, billVars, today>> /\ overlapped' \in BOOLEAN
  BY DEF CloseRates, ledgerVars, TypeInv, TypeOK
<1>3. CASE Goto(c, Idle)
  BY <1>2, <1>3, CallsMade, TypeFrame DEF Working
<1>4. CASE Goto(c, next) /\ \A r \in rows : rates[r].from <= DayBefore(calls[c].from)
  <2>2. rows \subseteq DOMAIN rates /\ rows \in SUBSET RateIds
    BY <1>1
  <2>3. next \in CallType /\ next.pc = "inserting" /\ next.rows = rows /\ next.from = calls[c].from
    BY <1>1, <2>2, CallsMade
  <2>4. \A r \in rows : rates[r].from < calls[c].from
    <3>1. \A r \in rows : rates[r].from \in Nat
      BY <2>2, Rows DEF TypeInv, Rate, Days
    <3> QED BY <1>1, <1>4, <3>1 DEF DayBefore, Days
  <2> HIDE DEF rows, next
  <2> QED BY <1>2, <1>4, <2>2, <2>3, <2>4, TypeFrame DEF Working
<1> QED BY <1>3, <1>4 DEF CloseRates

LEMMA TypeInsert ==
  ASSUME TypeInv, NEW c \in Clients, InsertRate(c)
  PROVE  TypeInv'
<1> DEFINE n == Len(rates) + 1
<1>1. /\ calls' \in [Clients -> CallType] /\ calls'[c] = Idle
      /\ \A d \in Clients \ {c} : calls'[d] = calls[d]
  BY CallsMade, OwnCall DEF InsertRate, TypeInv, TypeOK
<1>2. UNCHANGED <<overlapped, billVars, today>>
  BY DEF InsertRate
<1>3. CASE rates' = rates
  <2>1. TypeOK'
    BY <1>1, <1>2, <1>3 DEF TypeInv, TypeOK, billVars
  <2>2. CallsKnowRows'
    BY <1>1, <1>2, <1>3, CallsMade DEF TypeInv, CallsKnowRows, billVars, Working
  <2> QED BY <2>1, <2>2 DEF TypeInv
<1>4. CASE rates' # rates
  <2>1. /\ calls[c].from \in Days
        /\ ~DateTaken(calls[c].from) /\ Len(rates) < MaxRates
        /\ rates' \in Seq(Rate) /\ Len(rates') = n
        /\ rates'[n] = [from |-> calls[c].from, to |-> None]
        /\ \A r \in DOMAIN rates :
             /\ rates'[r] \in Rate /\ rates'[r].from = rates[r].from
             /\ rates'[r].to = IF r \in calls[c].rows THEN calls[c].from - 1 ELSE rates[r].to
    BY <1>4, LedgerGrows
  <2>2. n \in Nat /\ DOMAIN rates = 1 .. (n - 1) /\ DOMAIN rates' = 1 .. n /\ n <= MaxRates
        /\ \A r \in DOMAIN rates : rates[r] \in Rate
    BY <2>1, Rows, MeteringAssumption DEF TypeInv
  <2> HIDE DEF n
  <2>3. \A r \in DOMAIN rates' : r = n \/ r \in DOMAIN rates
    BY <2>2
  <2>4. \A r \in DOMAIN rates' : rates'[r].to # None => rates'[r].from <= rates'[r].to
    <3>1. \A r \in calls[c].rows : r \in DOMAIN rates /\ rates[r].from < calls[c].from
      BY DEF InsertRate, TypeInv, CallsKnowRows
    <3>2. ASSUME NEW r \in DOMAIN rates, rates'[r].to # None PROVE rates'[r].from <= rates'[r].to
      <4>1. CASE r \in calls[c].rows
        <5>1. rates[r].from < calls[c].from /\ rates[r].from \in Nat /\ calls[c].from \in Nat
          BY <2>1, <2>2, <3>1, <4>1 DEF Rate, Days
        <5> QED BY <2>1, <4>1, <5>1
      <4>2. CASE r \notin calls[c].rows
        BY <2>1, <3>2, <4>2 DEF TypeInv, TypeOK
      <4> QED BY <4>1, <4>2
    <3> QED BY <2>1, <2>3, <3>2
  <2>5. \A r, s \in DOMAIN rates' : rates'[r].from = rates'[s].from => r = s
    <3>1. \A r \in DOMAIN rates : rates'[r].from # rates'[n].from
      BY <2>1 DEF DateTaken
    <3>2. \A r, s \in DOMAIN rates : rates'[r].from = rates'[s].from => r = s
      BY <2>1 DEF TypeInv, TypeOK
    <3> QED BY <2>3, <3>1, <3>2
  <2>6. TypeOK'
    BY <1>1, <1>2, <2>1, <2>2, <2>4, <2>5 DEF TypeInv, TypeOK, billVars
  <2>7. CallsKnowRows'
    <3>1. \A r \in DOMAIN rates : r \in DOMAIN rates' /\ rates'[r].from = rates[r].from
      BY <2>1, <2>2
    <3> QED BY <1>1, <1>2, <3>1, CallsMade DEF TypeInv, CallsKnowRows, billVars, Working
  <2> QED BY <2>6, <2>7 DEF TypeInv
<1> QED BY <1>3, <1>4

LEMMA TypeStep == TypeInv /\ [Next]_vars => TypeInv'
<1> SUFFICES ASSUME TypeInv, [Next]_vars PROVE TypeInv'
  OBVIOUS
<1>1. CASE UNCHANGED vars
  BY <1>1 DEF TypeInv, TypeOK, CallsKnowRows, vars, ledgerVars, billVars
<1>2. CASE DayPasses
  <2>1. today' \in Days
    BY <1>2, MeteringAssumption DEF DayPasses, TypeInv, TypeOK, Days
  <2> QED BY <1>2, <2>1 DEF DayPasses, TypeInv, TypeOK, CallsKnowRows, ledgerVars, billVars
<1>3. ASSUME NEW c \in Clients, Cut(c) PROVE TypeInv'
  <2>1. Goto(c, Idle) /\ UNCHANGED <<rates, billVars, today>> /\ overlapped' \in BOOLEAN
    BY <1>3 DEF Cut, ledgerVars, TypeInv, TypeOK
  <2> QED BY <2>1, CallsMade, TypeFrame DEF Working
<1>4. ASSUME NEW c \in Clients, Step(c) PROVE TypeInv'
  BY <1>3, <1>4, TypeStart, TypeCallModel, TypeRecord, TypeAnswer, TypeSupersede, TypeClose,
     TypeInsert DEF Step
<1> QED BY <1>1, <1>2, <1>4 DEF Next

(* The variables of Metering keep their types.                             *)
THEOREM MeteringTypeOK == Spec => []TypeOK
<1>1. TypeInv => TypeOK
  BY DEF TypeInv
<1> QED BY <1>1, TypeInit, TypeStep, PTL DEF Spec
-----------------------------------------------------------------------------
(* Every day has its rate.                                                 *)

Covered(day) == \E r \in DOMAIN rates : InForce(r, day)
DaysCovered ==
  \A day \in Days : (\E r \in DOMAIN rates : rates[r].from <= day) => Covered(day)

(* Without an overlap the rates follow each other, the last is open, and   *)
(* the one supersession under way knows it.                                *)
LedgerInOrder ==
  /\ \A r, s \in DOMAIN rates : r < s => rates[r].to # None /\ rates[r].to < rates[s].from
  /\ rates # <<>> => rates[Len(rates)].to = None
OneSupersedes ==
  /\ \A c, d \in Clients : Superseding(c) /\ Superseding(d) => c = d
  /\ \A c \in Clients : Superseding(c) => calls[c].rows = OpenRates

LedgerInv == DaysCovered /\ (~overlapped => LedgerInOrder /\ OneSupersedes)

LEMMA LedgerInit == Init => LedgerInv
<1> SUFFICES ASSUME Init PROVE LedgerInv
  OBVIOUS
<1>1. rates = <<>> \/ rates = <<[from |-> 1, to |-> None]>>
  BY DEF Init
<1>2. \A c \in Clients : ~Superseding(c)
  BY CallsMade DEF Init, Superseding
<1>3. CASE rates = <<>>
  <2>1. DOMAIN rates = {}
    BY <1>3
  <2> QED BY <1>2, <1>3, <2>1 DEF LedgerInv, DaysCovered, LedgerInOrder, OneSupersedes
<1>4. CASE rates = <<[from |-> 1, to |-> None]>>
  <2>1. DOMAIN rates = {1} /\ Len(rates) = 1 /\ rates[1] = [from |-> 1, to |-> None]
    BY <1>4
  <2>2. rates[1].from = 1 /\ rates[1].to = None
    BY <2>1
  <2>3. DaysCovered
    BY <2>1, <2>2 DEF DaysCovered, Covered, InForce
  <2>4. LedgerInOrder
    BY <2>1, <2>2 DEF LedgerInOrder
  <2> QED BY <1>2, <2>3, <2>4 DEF LedgerInv, OneSupersedes
<1> QED BY <1>1, <1>3, <1>4

(* A step of a request that leaves the ledger alone, unless it begins a    *)
(* supersession or changes the rows of one.                                *)
LEMMA LedgerFrame ==
  ASSUME TypeOK, LedgerInv, NEW c \in Clients, NEW call \in CallType, Goto(c, call),
         UNCHANGED ledgerVars,
         call.pc \in {"closing", "inserting"} =>
           Superseding(c) /\ (calls[c].rows = OpenRates => call.rows = OpenRates)
  PROVE  LedgerInv'
<1>1. calls'[c] = call /\ \A d \in Clients \ {c} : calls'[d] = calls[d]
  BY OwnCall DEF TypeOK
<1>2. DaysCovered'
  BY DEF LedgerInv, DaysCovered, Covered, InForce, ledgerVars
<1>3. ASSUME ~overlapped' PROVE LedgerInOrder' /\ OneSupersedes'
  <2>1. LedgerInOrder /\ OneSupersedes
    BY <1>3 DEF LedgerInv, ledgerVars
  <2>2. LedgerInOrder'
    BY <2>1 DEF LedgerInOrder, ledgerVars
  <2>3. OpenRates' = OpenRates
    BY DEF OpenRates, ledgerVars
  <2>4. \A d \in Clients : Superseding(d)' => Superseding(d)
    BY <1>1 DEF Superseding
  <2>5. \A d \in Clients : Superseding(d)' => calls'[d].rows = OpenRates
    BY <1>1, <2>1, <2>4 DEF OneSupersedes, Superseding
  <2> QED BY <2>1, <2>2, <2>3, <2>4, <2>5 DEF OneSupersedes
<1> QED BY <1>2, <1>3 DEF LedgerInv

LEMMA LedgerSupersede ==
  ASSUME TypeInv, LedgerInv, NEW c \in Clients, Supersede(c)
  PROVE  LedgerInv'
<1>1. PICK day \in Days : Goto(c, [pc |-> "closing", from |-> day, rows |-> OpenRates])
  BY DEF Supersede
<1>2. OpenRates \subseteq RateIds
  BY Rows DEF OpenRates, TypeInv
<1> DEFINE call == [pc |-> "closing", from |-> day, rows |-> OpenRates]
<1>3. call \in CallType /\ call.rows = OpenRates
  BY <1>2, CallsMade
<1>4. Goto(c, call) /\ UNCHANGED rates
  BY <1>1 DEF Supersede
<1> HIDE DEF call
<1>5. calls'[c] = call /\ \A d \in Clients \ {c} : calls'[d] = calls[d]
  BY <1>3, <1>4, OwnCall DEF TypeInv, TypeOK
<1>6. DaysCovered'
  BY <1>4 DEF LedgerInv, DaysCovered, Covered, InForce
<1>7. ASSUME ~overlapped' PROVE LedgerInOrder' /\ OneSupersedes'
  <2>1. ~overlapped /\ \A d \in Clients : ~Superseding(d)
    BY <1>7 DEF Supersede
  <2>2. LedgerInOrder'
    BY <1>4, <2>1 DEF LedgerInv, LedgerInOrder
  <2>3. OpenRates' = OpenRates
    BY <1>4 DEF OpenRates
  <2>4. \A d \in Clients : Superseding(d)' => d = c
    BY <1>5, <2>1 DEF Superseding
  <2> QED BY <1>3, <1>5, <2>2, <2>3, <2>4 DEF OneSupersedes
<1> QED BY <1>6, <1>7 DEF LedgerInv

LEMMA LedgerClose ==
  ASSUME TypeInv, LedgerInv, NEW c \in Clients, CloseRates(c)
  PROVE  LedgerInv'
<1> DEFINE rows == calls[c].rows \intersect OpenRates
           next == [pc |-> "inserting", from |-> calls[c].from, rows |-> rows]
<1>1. calls[c] \in [pc : {"closing"}, from : Days, rows : SUBSET RateIds]
  BY CallKinds DEF CloseRates, TypeInv, TypeOK
<1>2. UNCHANGED ledgerVars /\ Superseding(c)
  BY DEF CloseRates, Superseding
<1>3. CASE Goto(c, Idle)
  BY <1>2, <1>3, CallsMade, LedgerFrame DEF TypeInv
<1>4. CASE Goto(c, next)
  <2>1. next \in CallType /\ next.rows = rows
    BY <1>1, CallsMade
  <2>2. calls[c].rows = OpenRates => rows = OpenRates
    OBVIOUS
  <2> HIDE DEF next, rows
  <2> QED BY <1>2, <1>4, <2>1, <2>2, LedgerFrame DEF TypeInv
<1> QED BY <1>3, <1>4 DEF CloseRates

LEMMA LedgerInsert ==
  ASSUME TypeInv, LedgerInv, NEW c \in Clients, InsertRate(c)
  PROVE  LedgerInv'
<1> DEFINE n == Len(rates) + 1
<1>1. /\ calls' \in [Clients -> CallType] /\ calls'[c] = Idle
      /\ \A d \in Clients \ {c} : calls'[d] = calls[d]
  BY CallsMade, OwnCall DEF InsertRate, TypeInv, TypeOK
<1>2. UNCHANGED overlapped /\ Goto(c, Idle)
  BY DEF InsertRate
<1>3. CASE rates' = rates
  BY <1>2, <1>3, CallsMade, LedgerFrame DEF TypeInv, ledgerVars
<1>4. CASE rates' # rates
  <2> DEFINE first == calls[c].from
             rows == calls[c].rows
  <2>1. /\ first \in Nat /\ None \notin Nat
        /\ Len(rates') = n
        /\ rates'[n].from = first /\ rates'[n].to = None
        /\ \A r \in DOMAIN rates :
             /\ rates'[r] \in Rate /\ rates'[r].from = rates[r].from
             /\ rates'[r].to = IF r \in rows THEN first - 1 ELSE rates[r].to
    <3>1. calls[c].from \in Days /\ rates'[n] = [from |-> calls[c].from, to |-> None]
      BY <1>4, LedgerGrows
    <3> QED BY <1>4, <3>1, LedgerGrows, MeteringAssumption DEF Days
  <2>2. n \in Nat /\ DOMAIN rates = 1 .. (n - 1)
        /\ \A r \in DOMAIN rates : rates[r] \in Rate
    BY Rows, MeteringAssumption DEF TypeInv
  <2>3. DOMAIN rates' = 1 .. n
    BY <1>4, <2>1, LedgerGrows
  <2>4. \A r \in rows : r \in DOMAIN rates /\ rates[r].from < first
    BY DEF InsertRate, TypeInv, CallsKnowRows
  <2>5. \A r \in DOMAIN rates' : r = n \/ r \in DOMAIN rates
    BY <2>2, <2>3
  <2>6. \A r \in DOMAIN rates : /\ rates[r].from \in Nat /\ rates[r].to \in Nat \union {None}
                                /\ rates'[r].from \in Nat /\ rates'[r].to \in Nat \union {None}
    BY <2>1, <2>2, MeteringAssumption DEF Rate, Days
  <2>7. n \in DOMAIN rates' /\ DOMAIN rates \subseteq DOMAIN rates' /\ n \notin DOMAIN rates
        /\ \A r \in DOMAIN rates : r < n
    BY <2>2, <2>3
  <2> HIDE DEF n, first, rows
  <2>8. DaysCovered'
    <3>1. SUFFICES ASSUME NEW day \in Days, NEW s \in DOMAIN rates', rates'[s].from <= day
                   PROVE  \E r \in DOMAIN rates' : InForce(r, day)'
      BY DEF DaysCovered, Covered
    <3>2. CASE first <= day
      BY <2>1, <2>7, <3>2 DEF InForce
    <3>3. CASE ~(first <= day)
      <4>1. s \in DOMAIN rates /\ rates[s].from <= day
        BY <2>1, <2>5, <3>1, <3>3
      <4>2. PICK r \in DOMAIN rates : InForce(r, day)
        BY <4>1 DEF LedgerInv, DaysCovered, Covered
      <4>3. day <= first - 1
        BY <2>1, <3>3, MeteringAssumption DEF Days
      <4>4. InForce(r, day)'
        BY <2>1, <2>6, <4>2, <4>3 DEF InForce
      <4> QED BY <2>7, <4>4
    <3> QED BY <3>2, <3>3
  <2>9. ASSUME ~overlapped' PROVE LedgerInOrder' /\ OneSupersedes'
    <3>1. LedgerInOrder /\ OneSupersedes
      BY <1>2, <2>9 DEF LedgerInv
    <3>2. rows = OpenRates
      BY <3>1 DEF OneSupersedes, InsertRate, Superseding, rows
    <3>3. \A d \in Clients : ~Superseding(d)'
      <4>1. \A d \in Clients \ {c} : ~Superseding(d)
        BY <3>1 DEF OneSupersedes, InsertRate, Superseding
      <4> QED BY <1>1, <4>1, CallsMade DEF Superseding
    <3>4. OneSupersedes'
      BY <3>3 DEF OneSupersedes
    <3>5. ASSUME NEW r \in DOMAIN rates, NEW s \in DOMAIN rates, r < s
          PROVE  rates'[r].to # None /\ rates'[r].to < rates'[s].from
      <4>1. rates[r].to # None /\ rates[r].to < rates[s].from
        BY <3>1, <3>5 DEF LedgerInOrder
      <4>2. r \notin rows
        BY <3>2, <4>1 DEF OpenRates
      <4> QED BY <2>1, <4>1, <4>2
    <3>6. ASSUME NEW r \in DOMAIN rates
          PROVE  rates'[r].to # None /\ rates'[r].to < first
      <4>1. CASE r \in rows
        <5>1. rates[r].from \in Nat /\ rates[r].from < first
          BY <2>4, <2>6, <4>1
        <5>2. first - 1 \in Nat /\ first - 1 < first
          BY <2>1, <5>1
        <5> QED BY <2>1, <4>1, <5>2
      <4>2. CASE r \notin rows
        <5>1. rates[r].to # None
          BY <3>2, <4>2 DEF OpenRates
        <5>2. rates # <<>> /\ n - 1 \in DOMAIN rates /\ Len(rates) = n - 1
          BY <2>2 DEF n
        <5>3. rates[n - 1].to = None
          BY <3>1, <5>2 DEF LedgerInOrder
        <5>4. n - 1 \in rows
          BY <3>2, <5>2, <5>3 DEF OpenRates
        <5>5. r < n - 1
          BY <2>2, <5>1, <5>3
        <5>6. rates[r].to < rates[n - 1].from /\ rates[n - 1].from < first
          BY <2>4, <3>1, <5>2, <5>4, <5>5 DEF LedgerInOrder
        <5> QED BY <2>1, <2>6, <4>2, <5>1, <5>2, <5>6
      <4> QED BY <4>1, <4>2
    <3>7. LedgerInOrder'
      <4>1. \A r, s \in DOMAIN rates' : r < s => rates'[r].to # None /\ rates'[r].to < rates'[s].from
        <5>1. SUFFICES ASSUME NEW r \in DOMAIN rates', NEW s \in DOMAIN rates', r < s
                       PROVE  rates'[r].to # None /\ rates'[r].to < rates'[s].from
          OBVIOUS
        <5>2. r \in DOMAIN rates
          BY <2>2, <2>3, <5>1
        <5>3. CASE s = n
          BY <2>1, <3>6, <5>2, <5>3
        <5>4. CASE s # n
          BY <2>5, <3>5, <5>1, <5>2, <5>4
        <5> QED BY <5>3, <5>4
      <4> QED BY <2>1, <4>1 DEF LedgerInOrder
    <3> QED BY <3>4, <3>7
  <2> QED BY <2>8, <2>9 DEF LedgerInv
<1> QED BY <1>3, <1>4

(* A step about an operation is no step of a supersession.                 *)
LEMMA LedgerWork ==
  ASSUME TypeInv, LedgerInv, NEW c \in Clients,
         StartOperation(c) \/ CallModel(c) \/ RecordInteraction(c) \/ Answer(c) \/ Cut(c)
  PROVE  LedgerInv'
<1>1. UNCHANGED ledgerVars
  BY DEF StartOperation, CallModel, RecordInteraction, Answer, Cut
<1>2. DaysCovered'
  BY <1>1 DEF LedgerInv, DaysCovered, Covered, InForce, ledgerVars
<1>3. PICK call : calls' = [calls EXCEPT ![c] = call] /\ call.pc \notin {"closing", "inserting"}
  <2>1. CASE StartOperation(c)
    <3>1. [pc |-> "open", op |-> Len(ops) + 1].pc = "open"
      OBVIOUS
    <3> QED BY <2>1, <3>1 DEF StartOperation, Goto
  <2>2. CASE CallModel(c)
    <3>1. CASE Goto(c, [pc |-> "billed", op |-> calls[c].op, cost |-> 0])
      <4>1. [pc |-> "billed", op |-> calls[c].op, cost |-> 0].pc = "billed"
        OBVIOUS
      <4> QED BY <3>1, <4>1 DEF Goto
    <3>2. CASE ~Goto(c, [pc |-> "billed", op |-> calls[c].op, cost |-> 0])
      <4>1. PICK rate, tokens :
              Goto(c, [pc |-> "priced", op |-> calls[c].op,
                       entry |-> [rate |-> rate, cost |-> Compute(rate, tokens), day |-> today]])
        BY <2>2, <3>2 DEF CallModel
      <4>2. [pc |-> "priced", op |-> calls[c].op,
             entry |-> [rate |-> rate, cost |-> Compute(rate, tokens), day |-> today]].pc = "priced"
        OBVIOUS
      <4> QED BY <4>1, <4>2 DEF Goto
    <3> QED BY <3>1, <3>2
  <2>3. CASE RecordInteraction(c)
    <3>1. PICK cost : Billed(c, cost)
      BY <2>3 DEF RecordInteraction
    <3>2. [pc |-> "billed", op |-> calls[c].op, cost |-> cost].pc = "billed"
      OBVIOUS
    <3> QED BY <3>1, <3>2 DEF Billed, Goto
  <2>4. CASE Answer(c) \/ Cut(c)
    BY <2>4, CallsMade DEF Answer, Cut, Goto
  <2> QED BY <2>1, <2>2, <2>3, <2>4
<1>4. calls'[c] = call /\ \A d \in Clients \ {c} : calls'[d] = calls[d]
  BY <1>3 DEF TypeInv, TypeOK
<1>5. \A d \in Clients : Superseding(d)' => Superseding(d) /\ calls'[d].rows = calls[d].rows
  BY <1>3, <1>4 DEF Superseding
<1>6. LedgerInOrder => LedgerInOrder'
  BY <1>1 DEF LedgerInOrder, ledgerVars
<1>7. OpenRates' = OpenRates
  BY <1>1 DEF OpenRates, ledgerVars
<1>8. OneSupersedes => OneSupersedes'
  BY <1>5, <1>7 DEF OneSupersedes
<1> QED BY <1>1, <1>2, <1>6, <1>8 DEF LedgerInv, ledgerVars

LEMMA LedgerStep == TypeInv /\ LedgerInv /\ [Next]_vars => LedgerInv'
<1> SUFFICES ASSUME TypeInv, LedgerInv, [Next]_vars PROVE LedgerInv'
  OBVIOUS
<1>1. CASE UNCHANGED vars \/ DayPasses
  <2>1. UNCHANGED <<rates, overlapped, calls>>
    BY <1>1 DEF vars, DayPasses, ledgerVars
  <2> QED BY <2>1 DEF LedgerInv, DaysCovered, Covered, InForce, LedgerInOrder, OneSupersedes,
                       Superseding, OpenRates
<1>2. ASSUME NEW c \in Clients, Step(c) PROVE LedgerInv'
  BY <1>2, LedgerSupersede, LedgerClose, LedgerInsert, LedgerWork DEF Step
<1> QED BY <1>1, <1>2 DEF Next

(* Every day from the first rate on has a rate in force, and one only if   *)
(* supersessions did not overlap.                                          *)
THEOREM EveryDayAlwaysHasItsRate == Spec => []EveryDayHasItsRate
<1>1. TypeInv /\ LedgerInv /\ [Next]_vars => (TypeInv /\ LedgerInv)'
  BY TypeStep, LedgerStep
<1>2. Init => TypeInv /\ LedgerInv
  BY TypeInit, LedgerInit
<1>3. TypeInv /\ LedgerInv => EveryDayHasItsRate
  <2> SUFFICES ASSUME TypeInv, LedgerInv, NEW day \in Days,
                      \E r \in DOMAIN rates : rates[r].from <= day
               PROVE  LET inForce == {r \in DOMAIN rates : InForce(r, day)}
                      IN  inForce # {} /\ (~overlapped => Cardinality(inForce) = 1)
    BY DEF EveryDayHasItsRate
  <2> DEFINE inForce == {r \in DOMAIN rates : InForce(r, day)}
  <2>1. PICK r \in inForce : TRUE
    BY DEF LedgerInv, DaysCovered, Covered
  <2>2. ASSUME ~overlapped PROVE inForce = {r}
    <3>1. ASSUME NEW p \in inForce, NEW q \in inForce, p < q PROVE FALSE
      <4>1. rates[p].to # None /\ rates[p].to < rates[q].from
        BY <2>2, <3>1 DEF LedgerInv, LedgerInOrder
      <4>2. rates[p].to >= day /\ rates[q].from <= day
        BY <4>1 DEF InForce
      <4>3. rates[p] \in Rate /\ rates[q] \in Rate
        BY Rows DEF TypeInv
      <4> QED BY <4>1, <4>2, <4>3, MeteringAssumption DEF Rate, Days
    <3>2. \A s \in inForce : s \in Nat
      BY Rows, MeteringAssumption DEF TypeInv, RateIds
    <3>3. \A s \in inForce : s = r
      BY <2>1, <3>1, <3>2
    <3> QED BY <2>1, <3>3
  <2>3. ~overlapped => Cardinality(inForce) = 1
    BY <2>2, FS_Singleton
  <2> QED BY <2>1, <2>3
<1> QED BY <1>1, <1>2, <1>3, PTL DEF Spec
-----------------------------------------------------------------------------
(* Bills reconcile.                                                        *)

(* A price that was looked up keeps its ground: the rate is in force on    *)
(* its day, or a later rate took the day over.                             *)
Stands(entry) ==
  entry.rate # None =>
    /\ entry.rate \in DOMAIN rates /\ rates[entry.rate].from <= entry.day
    /\ \/ InForce(entry.rate, entry.day)
       \/ \E s \in DOMAIN rates : s > entry.rate /\ rates[s].from <= entry.day
PricesStand ==
  /\ \A o \in OpIds : entries[o] # None => Stands(entries[o])
  /\ \A c \in Clients : calls[c].pc = "priced" => Stands(calls[c].entry)

(* An operation is worked on by one request, which has recorded nothing    *)
(* for it before its model was called, and knows the cost afterwards.      *)
OneWorks ==
  \A c, d \in Clients :
    calls[c].pc \in Working /\ calls[d].pc \in Working /\ calls[c].op = calls[d].op => c = d
CostOf(o, rows) == IF rows[o] = None THEN 0 ELSE rows[o].cost
Agrees(o, cost, rows, lost) == cost <= CostOf(o, rows) /\ (o \notin lost => cost = CostOf(o, rows))
NothingYet ==
  \A c \in Clients :
    /\ calls[c].pc \in {"open", "priced"} => entries[calls[c].op] = None
    /\ calls[c].pc \in Working => told[calls[c].op] = None
    /\ calls[c].pc = "billed" => Agrees(calls[c].op, calls[c].cost, entries, unsure)
ToldAgrees == \A o \in OpIds : told[o] # None => Agrees(o, told[o], entries, unsure)

BillsInv == PricesStand /\ OneWorks /\ NothingYet /\ ToldAgrees

LEMMA BillsInit == Init => BillsInv
<1> SUFFICES ASSUME Init PROVE BillsInv
  OBVIOUS
<1>1. \A c \in Clients : calls[c].pc = "idle"
  BY CallsMade DEF Init
<1>2. \A o \in OpIds : entries[o] = None /\ told[o] = None
  BY DEF Init
<1> QED BY <1>1, <1>2 DEF BillsInv, PricesStand, OneWorks, NothingYet, ToldAgrees, Working

(* Neither a longer ledger nor another day takes its ground from a price.  *)
LEMMA StandsKept ==
  ASSUME TypeInv, NEW entry \in Entry, Stands(entry), UNCHANGED rates
  PROVE  Stands(entry)'
BY DEF Stands, InForce

LEMMA StandsInsert ==
  ASSUME TypeInv, NEW c \in Clients, InsertRate(c), NEW entry \in Entry, Stands(entry)
  PROVE  Stands(entry)'
<1> DEFINE n == Len(rates) + 1
<1>1. CASE rates' = rates
  BY <1>1, StandsKept
<1>2. CASE rates' # rates
  <2> DEFINE first == calls[c].from
             r == entry.rate
             day == entry.day
  <2>1. /\ first \in Nat /\ None \notin Nat /\ day \in Nat
        /\ Len(rates') = n /\ rates' \in Seq(Rate)
        /\ rates'[n].from = first
        /\ \A s \in DOMAIN rates :
             /\ rates'[s].from = rates[s].from
             /\ rates'[s].to = IF s \in calls[c].rows THEN first - 1 ELSE rates[s].to
    <3>1. calls[c].from \in Days /\ rates'[n] = [from |-> calls[c].from, to |-> None]
      BY <1>2, LedgerGrows
    <3> QED BY <1>2, <3>1, LedgerGrows, MeteringAssumption DEF Days, Entry
  <2>2. n \in Nat /\ DOMAIN rates = 1 .. (n - 1) /\ DOMAIN rates' = 1 .. n
    BY <2>1, Rows, MeteringAssumption DEF TypeInv
  <2>3. n \in DOMAIN rates' /\ DOMAIN rates \subseteq DOMAIN rates' /\ \A s \in DOMAIN rates : n > s
    BY <2>2
  <2> HIDE DEF n, first, r, day
  <2>4. SUFFICES ASSUME r # None
                 PROVE  /\ r \in DOMAIN rates' /\ rates'[r].from <= day
                        /\ InForce(r, day)' \/ \E s \in DOMAIN rates' : s > r /\ rates'[s].from <= day
    BY DEF Stands, r, day
  <2>5. /\ r \in DOMAIN rates /\ rates[r].from <= day
        /\ InForce(r, day) \/ \E s \in DOMAIN rates : s > r /\ rates[s].from <= day
    BY <2>4 DEF Stands, r, day
  <2>6. r \in DOMAIN rates' /\ rates'[r].from <= day
    BY <2>1, <2>3, <2>5
  <2>7. CASE \E s \in DOMAIN rates : s > r /\ rates[s].from <= day
    BY <2>1, <2>3, <2>6, <2>7
  <2>8. CASE InForce(r, day) /\ r \notin calls[c].rows
    BY <2>1, <2>5, <2>6, <2>8 DEF InForce
  <2>9. CASE r \in calls[c].rows /\ first <= day
    BY <2>1, <2>3, <2>5, <2>6, <2>9
  <2>10. CASE r \in calls[c].rows /\ ~(first <= day)
    <3>1. first - 1 >= day
      BY <2>1, <2>10
    <3> QED BY <2>1, <2>5, <2>6, <2>10, <3>1 DEF InForce
  <2> QED BY <2>5, <2>7, <2>8, <2>9, <2>10
<1> QED BY <1>1, <1>2

(* The prices of a step that adds none stand, if each stood and stands.    *)
LEMMA PricesKept ==
  ASSUME TypeInv, PricesStand, UNCHANGED entries,
         \A entry \in Entry : Stands(entry) => Stands(entry)',
         \A d \in Clients : calls'[d].pc = "priced" => calls'[d] = calls[d]
  PROVE  PricesStand'
<1>1. \A o \in OpIds : entries[o] # None => entries[o] \in Entry
  BY DEF TypeInv, TypeOK
<1>2. \A d \in Clients : calls[d].pc = "priced" => calls[d].entry \in Entry
  BY CallKinds DEF TypeInv, TypeOK
<1>3. \A o \in OpIds : entries'[o] # None => Stands(entries[o])'
  BY <1>1 DEF PricesStand
<1>4. ASSUME NEW d \in Clients, calls'[d].pc = "priced"
      PROVE  Stands(calls[d].entry)' /\ calls'[d].entry = calls[d].entry
  BY <1>2, <1>4 DEF PricesStand
<1> QED BY <1>3, <1>4 DEF PricesStand, Stands, InForce

(* A step of a request that then works on no operation.                    *)
LEMMA BillsLeave ==
  ASSUME TypeInv, BillsInv, NEW c \in Clients, NEW call, Goto(c, call), call.pc \notin Working,
         UNCHANGED <<entries, told, unsure>>,
         \A entry \in Entry : Stands(entry) => Stands(entry)'
  PROVE  BillsInv'
<1>1. calls'[c] = call /\ \A d \in Clients \ {c} : calls'[d] = calls[d]
  BY DEF TypeInv, TypeOK, Goto
<1>2. \A d \in Clients : calls'[d].pc \in Working => calls'[d] = calls[d]
  BY <1>1
<1>3. PricesStand'
  BY <1>2, PricesKept DEF BillsInv, Working
<1>4. OneWorks'
  BY <1>2 DEF BillsInv, OneWorks
<1>5. NothingYet'
  BY <1>2 DEF BillsInv, NothingYet, Working, Agrees, CostOf
<1>6. ToldAgrees'
  BY DEF BillsInv, ToldAgrees, Agrees, CostOf
<1> QED BY <1>3, <1>4, <1>5, <1>6 DEF BillsInv

LEMMA BillsOther ==
  ASSUME TypeInv, BillsInv, NEW c \in Clients,
         Supersede(c) \/ CloseRates(c) \/ InsertRate(c) \/ Cut(c)
  PROVE  BillsInv'
<1>1. UNCHANGED <<entries, told, unsure>>
  BY DEF Supersede, CloseRates, InsertRate, Cut, billVars
<1>2. \A entry \in Entry : Stands(entry) => Stands(entry)'
  BY StandsKept, StandsInsert DEF Supersede, CloseRates, Cut, ledgerVars
<1>3. PICK call : Goto(c, call) /\ call.pc \notin Working
  <2>1. CASE Supersede(c)
    <3>1. PICK day : Goto(c, [pc |-> "closing", from |-> day, rows |-> OpenRates])
      BY <2>1 DEF Supersede
    <3>2. [pc |-> "closing", from |-> day, rows |-> OpenRates].pc = "closing"
      OBVIOUS
    <3> QED BY <3>1, <3>2 DEF Working
  <2>2. CASE CloseRates(c)
    <3>1. CASE Goto(c, Idle)
      BY <3>1, CallsMade DEF Working
    <3>2. CASE ~Goto(c, Idle)
      <4>1. PICK rows : Goto(c, [pc |-> "inserting", from |-> calls[c].from, rows |-> rows])
        BY <2>2, <3>2 DEF CloseRates
      <4>2. [pc |-> "inserting", from |-> calls[c].from, rows |-> rows].pc = "inserting"
        OBVIOUS
      <4> QED BY <4>1, <4>2 DEF Working
    <3> QED BY <3>1, <3>2
  <2>3. CASE InsertRate(c) \/ Cut(c)
    BY <2>3, CallsMade DEF InsertRate, Cut, Working
  <2> QED BY <2>1, <2>2, <2>3
<1> QED BY <1>1, <1>2, <1>3, BillsLeave

LEMMA BillsStart ==
  ASSUME TypeInv, BillsInv, NEW c \in Clients, StartOperation(c)
  PROVE  BillsInv'
<1> DEFINE o == Len(ops) + 1
           call == [pc |-> "open", op |-> o]
<1>1. call.pc = "open" /\ call.op = o
  OBVIOUS
<1>2. o \in OpIds /\ o \notin DOMAIN ops
  BY Rows, MeteringAssumption DEF StartOperation, OpIds, TypeInv
<1>3. entries[o] = None /\ told[o] = None
  BY <1>2 DEF TypeInv, TypeOK
<1>4. UNCHANGED <<rates, entries, told, unsure>> /\ Goto(c, call)
  BY DEF StartOperation, ledgerVars
<1> HIDE DEF o, call
<1>5. calls'[c] = call /\ \A d \in Clients \ {c} : calls'[d] = calls[d]
  BY <1>4 DEF TypeInv, TypeOK, Goto
<1>6. \A d \in Clients \ {c} : calls[d].pc \in Working => calls[d].op # o
  BY <1>2 DEF TypeInv, CallsKnowRows
<1>7. PricesStand'
  BY <1>1, <1>4, <1>5, StandsKept, PricesKept DEF BillsInv
<1>8. OneWorks'
  BY <1>1, <1>5, <1>6 DEF BillsInv, OneWorks
<1>9. NothingYet'
  BY <1>1, <1>3, <1>4, <1>5 DEF BillsInv, NothingYet, Agrees, CostOf
<1>10. ToldAgrees'
  BY <1>4 DEF BillsInv, ToldAgrees, Agrees, CostOf
<1> QED BY <1>7, <1>8, <1>9, <1>10 DEF BillsInv

LEMMA BillsCallModel ==
  ASSUME TypeInv, BillsInv, NEW c \in Clients, CallModel(c)
  PROVE  BillsInv'
<1> DEFINE o == calls[c].op
<1>1. o \in OpIds /\ calls[c].pc = "open" /\ calls[c].pc \in Working
  BY CallKinds DEF CallModel, TypeInv, TypeOK, Working
<1>2. UNCHANGED <<rates, entries, told, unsure>>
  BY DEF CallModel, ledgerVars, billVars
<1>3. PICK call : /\ Goto(c, call) /\ call.op = o /\ call.pc \in {"priced", "billed"}
                  /\ call.pc = "priced" => Stands(call.entry)
                  /\ call.pc = "billed" => call.cost = 0
  <2>1. CASE Goto(c, [pc |-> "billed", op |-> o, cost |-> 0])
    <3> DEFINE call == [pc |-> "billed", op |-> o, cost |-> 0]
    <3>1. call.pc = "billed" /\ call.op = o /\ call.cost = 0
      OBVIOUS
    <3> QED BY <2>1, <3>1
  <2>2. CASE ~Goto(c, [pc |-> "billed", op |-> o, cost |-> 0])
    <3>1. PICK rate \in IF Considered(today) = {} THEN {None} ELSE ActiveRate(today), tokens \in {0, 1} :
            Goto(c, [pc |-> "priced", op |-> o,
                     entry |-> [rate |-> rate, cost |-> Compute(rate, tokens), day |-> today]])
      BY <2>2 DEF CallModel
    <3> DEFINE entry == [rate |-> rate, cost |-> Compute(rate, tokens), day |-> today]
               call == [pc |-> "priced", op |-> o, entry |-> entry]
    <3>2. entry \in Entry /\ (rate # None => rate \in DOMAIN rates /\ InForce(rate, today))
      BY PriceTypes DEF TypeInv
    <3>3. entry.rate = rate /\ entry.day = today
      OBVIOUS
    <3>4. call.pc = "priced" /\ call.op = o /\ call.entry = entry
      OBVIOUS
    <3>5. Goto(c, call)
      BY <3>1
    <3> HIDE DEF entry, call
    <3>6. Stands(entry)
      BY <3>2, <3>3 DEF Stands, InForce
    <3> QED BY <3>4, <3>5, <3>6
  <2> QED BY <2>1, <2>2
<1> HIDE DEF o
<1>4. calls'[c] = call /\ \A d \in Clients \ {c} : calls'[d] = calls[d]
  BY <1>3 DEF TypeInv, TypeOK, Goto
<1>5. entries[o] = None /\ told[o] = None
  BY <1>1 DEF BillsInv, NothingYet, o
<1>6. PricesStand'
  <2>1. \A e \in OpIds : entries[e] # None => Stands(entries[e])
    BY DEF BillsInv, PricesStand
  <2>2. \A d \in Clients : calls'[d].pc = "priced" => Stands(calls'[d].entry)
    BY <1>3, <1>4 DEF BillsInv, PricesStand
  <2> QED BY <1>2, <2>1, <2>2 DEF PricesStand, Stands, InForce
<1>7. OneWorks'
  BY <1>1, <1>3, <1>4 DEF BillsInv, OneWorks, Working, o
<1>8. NothingYet'
  <2>1. call.pc = "billed" => Agrees(o, call.cost, entries, unsure)
    BY <1>3, <1>5 DEF Agrees, CostOf
  <2>2. \A d \in Clients :
          /\ calls'[d].pc \in {"open", "priced"} => entries[calls'[d].op] = None
          /\ calls'[d].pc \in Working => told[calls'[d].op] = None
          /\ calls'[d].pc = "billed" => Agrees(calls'[d].op, calls'[d].cost, entries, unsure)
    BY <1>3, <1>4, <1>5, <2>1 DEF BillsInv, NothingYet
  <2> QED BY <1>2, <2>2 DEF NothingYet, Agrees, CostOf
<1>9. ToldAgrees'
  BY <1>2 DEF BillsInv, ToldAgrees, Agrees, CostOf
<1> QED BY <1>6, <1>7, <1>8, <1>9 DEF BillsInv

LEMMA BillsRecord ==
  ASSUME TypeInv, BillsInv, NEW c \in Clients, RecordInteraction(c)
  PROVE  BillsInv'
<1> DEFINE o == calls[c].op
           entry == calls[c].entry
<1>1. /\ o \in OpIds /\ entry \in Entry /\ entry.cost \in Nat /\ entry # None
      /\ calls[c].pc = "priced" /\ calls[c].pc \in Working
  <2>1. calls[c] \in [pc : {"priced"}, op : OpIds, entry : Entry]
    BY CallKinds DEF RecordInteraction, TypeInv, TypeOK
  <2>2. calls[c].entry \in Entry /\ calls[c].entry # None
    BY <2>1, MeteringAssumption
  <2>3. calls[c].entry.cost \in Nat
    BY <2>2, MeteringAssumption DEF Entry
  <2> QED BY <2>1, <2>2, <2>3 DEF Working
<1>2. UNCHANGED <<rates, told>>
  BY DEF RecordInteraction, ledgerVars
<1>3. /\ entries[o] = None /\ told[o] = None /\ Stands(entry)
      /\ \A d \in Clients \ {c} : calls[d].pc \in Working => calls[d].op # o
  BY <1>1 DEF BillsInv, NothingYet, PricesStand, OneWorks
<1>4. PICK cost \in Nat :
        /\ Billed(c, cost)
        /\ \A p \in OpIds \ {o} : entries'[p] = entries[p] /\ (p \in unsure' <=> p \in unsure)
        /\ \/ entries'[o] = entry /\ cost = entry.cost
           \/ entries'[o] = entry /\ cost = 0 /\ o \in unsure'
           \/ entries'[o] = None /\ cost = 0
  <2>1. entries \in [OpIds -> Entry \union {None}]
    BY DEF TypeInv, TypeOK
  <2>2. CASE Recorded(c) /\ Billed(c, entry.cost) /\ UNCHANGED unsure
    BY <1>1, <2>1, <2>2 DEF Recorded
  <2>3. CASE Recorded(c) /\ Billed(c, 0) /\ unsure' = unsure \union {o}
    BY <1>1, <2>1, <2>3 DEF Recorded
  <2>4. CASE Billed(c, 0) /\ UNCHANGED <<entries, unsure>>
    BY <1>3, <2>4
  <2> QED BY <2>2, <2>3, <2>4 DEF RecordInteraction, LostCost
<1> DEFINE call == [pc |-> "billed", op |-> o, cost |-> cost]
<1>5. call.pc = "billed" /\ call.op = o /\ call.cost = cost
  OBVIOUS
<1>6. calls'[c] = call /\ \A d \in Clients \ {c} : calls'[d] = calls[d]
  BY <1>4 DEF Billed, Goto, TypeInv, TypeOK
<1> HIDE DEF call, o, entry
<1>7. PricesStand'
  <2>1. \A p \in OpIds : entries'[p] # None => Stands(entries'[p])
    BY <1>3, <1>4 DEF BillsInv, PricesStand
  <2>2. \A d \in Clients : calls'[d].pc = "priced" => Stands(calls'[d].entry)
    BY <1>5, <1>6 DEF BillsInv, PricesStand
  <2> QED BY <1>2, <2>1, <2>2 DEF PricesStand, Stands, InForce
<1>8. OneWorks'
  BY <1>1, <1>3, <1>5, <1>6 DEF BillsInv, OneWorks, o
<1>9. Agrees(o, cost, entries', unsure')
  BY <1>1, <1>4 DEF Agrees, CostOf
<1>10. \A p \in OpIds \ {o} : /\ CostOf(p, entries') = CostOf(p, entries)
                              /\ p \in unsure' <=> p \in unsure
  BY <1>4 DEF CostOf
<1>11. NothingYet'
  <2>1. SUFFICES ASSUME NEW d \in Clients
                 PROVE  /\ calls'[d].pc \in {"open", "priced"} => entries'[calls'[d].op] = None
                        /\ calls'[d].pc \in Working => told'[calls'[d].op] = None
                        /\ calls'[d].pc = "billed" => Agrees(calls'[d].op, calls'[d].cost, entries', unsure')
    BY DEF NothingYet
  <2>2. CASE d = c
    BY <1>2, <1>3, <1>5, <1>6, <1>9, <2>2 DEF Agrees, CostOf
  <2>3. CASE d # c /\ calls[d].pc \in Working
    <3>1. calls'[d] = calls[d] /\ calls[d].op \in OpIds \ {o}
      BY <1>3, <1>6, <2>3, Rows DEF TypeInv, CallsKnowRows
    <3>2. entries'[calls[d].op] = entries[calls[d].op]
          /\ (calls[d].op \in unsure' <=> calls[d].op \in unsure)
      BY <1>4, <3>1
    <3> QED BY <1>2, <3>1, <3>2 DEF BillsInv, NothingYet, Agrees, CostOf
  <2>4. CASE d # c /\ calls[d].pc \notin Working
    BY <1>6, <2>4 DEF Working
  <2> QED BY <2>2, <2>3, <2>4
<1>12. ToldAgrees'
  BY <1>2, <1>3, <1>10 DEF BillsInv, ToldAgrees, Agrees
<1> QED BY <1>7, <1>8, <1>11, <1>12 DEF BillsInv

LEMMA BillsAnswer ==
  ASSUME TypeInv, BillsInv, NEW c \in Clients, Answer(c)
  PROVE  BillsInv'
<1> DEFINE o == calls[c].op
           cost == IF calls[c].pc = "open" THEN 0 ELSE calls[c].cost
<1>1. calls[c].pc \in Working /\ o \in OpIds
  BY Rows DEF Answer, TypeInv, CallsKnowRows, Working
<1>2. UNCHANGED <<rates, entries, unsure>> /\ Goto(c, Idle)
  BY DEF Answer, ledgerVars
<1>3. calls'[c] = Idle /\ \A d \in Clients \ {c} : calls'[d] = calls[d]
  BY <1>2 DEF TypeInv, TypeOK, Goto
<1>4. told'[o] = cost /\ \A p \in OpIds \ {o} : told'[p] = told[p]
  BY <1>1 DEF Answer, TypeInv, TypeOK
<1>5. Agrees(o, cost, entries, unsure)
  BY DEF Answer, BillsInv, NothingYet, Agrees, CostOf
<1>6. \A d \in Clients \ {c} : calls[d].pc \in Working => calls[d].op # o
  BY <1>1 DEF BillsInv, OneWorks
<1>7. \A d \in Clients : calls'[d].pc \in Working =>
        calls'[d] = calls[d] /\ told'[calls[d].op] = told[calls[d].op]
  <2>1. SUFFICES ASSUME NEW d \in Clients, calls'[d].pc \in Working
                 PROVE  calls'[d] = calls[d] /\ told'[calls[d].op] = told[calls[d].op]
    OBVIOUS
  <2>2. d # c /\ calls'[d] = calls[d]
    BY <1>3, <2>1, CallsMade DEF Working
  <2>3. calls[d].op \in OpIds \ {o}
    BY <1>6, <2>1, <2>2, Rows DEF TypeInv, CallsKnowRows
  <2> QED BY <1>4, <2>2, <2>3
<1> HIDE DEF o, cost
<1>8. PricesStand'
  BY <1>2, <1>7 DEF BillsInv, PricesStand, Stands, InForce, Working
<1>9. OneWorks'
  BY <1>7 DEF BillsInv, OneWorks
<1>10. NothingYet'
  BY <1>2, <1>7 DEF BillsInv, NothingYet, Agrees, CostOf, Working
<1>11. ToldAgrees'
  BY <1>2, <1>4, <1>5 DEF BillsInv, ToldAgrees, Agrees, CostOf
<1> QED BY <1>8, <1>9, <1>10, <1>11 DEF BillsInv

LEMMA BillsStep == TypeInv /\ BillsInv /\ [Next]_vars => BillsInv'
<1> SUFFICES ASSUME TypeInv, BillsInv, [Next]_vars PROVE BillsInv'
  OBVIOUS
<1>1. CASE UNCHANGED vars \/ DayPasses
  <2>1. UNCHANGED <<rates, entries, told, unsure, calls>>
    BY <1>1 DEF vars, DayPasses, ledgerVars, billVars
  <2> QED BY <2>1 DEF BillsInv, PricesStand, Stands, InForce, OneWorks, NothingYet, ToldAgrees,
                       Agrees, CostOf
<1>2. ASSUME NEW c \in Clients, Step(c) PROVE BillsInv'
  BY <1>2, BillsStart, BillsCallModel, BillsRecord, BillsAnswer, BillsOther DEF Step
<1> QED BY <1>1, <1>2 DEF Next

(* What a caller was told is what was recorded, but for commits that were  *)
(* not seen, and the price of a record keeps its ground.                   *)
THEOREM BillsAlwaysReconcile == Spec => []BillsReconcile
<1>1. TypeInv /\ BillsInv /\ [Next]_vars => (TypeInv /\ BillsInv)'
  BY TypeStep, BillsStep
<1>2. Init => TypeInv /\ BillsInv
  BY TypeInit, BillsInit
<1>3. TypeInv /\ BillsInv => BillsReconcile
  BY DEF BillsInv, BillsReconcile, ToldAgrees, PricesStand, Stands, Agrees, CostOf
<1> QED BY <1>1, <1>2, <1>3, PTL DEF Spec
=============================================================================
