--------------------------- MODULE ResolvePipeline ---------------------------
(***************************************************************************)
(* POST /resolve/v2: a natural-language input becomes a candidate plan     *)
(* (pattern cache first, LLM synthesis second), the LLM verifier approves  *)
(* it, replaces it or fails, and the effective plan is executed.  Requests *)
(* share the verdict cache; a rejection records a pattern gap in a task of *)
(* its own.  A request runs without interruption between two awaits (the   *)
(* synthesis call, the verifier call, the execution), and so does each     *)
(* statement of a gap task's transaction.                                  *)
(***************************************************************************)
EXTENDS Integers, Sequences, FiniteSets, SequencesExt

CONSTANTS
  Requests,            \* request slots
  Inputs,              \* normalised user inputs
  Entities, Filters,   \* what _plan_hash covers of a plan ...
  Selects,             \* ... and what it leaves out (select_fields)
  Enabled,             \* DYNAMO_VERIFIER_ENABLED
  VerifyCacheHits, VerifySynthesised,
  CacheSize,           \* verdict_cache_size
  MaxQueries,          \* bound: inputs submitted in a behaviour
  None                 \* no plan, no candidate, no input

ASSUME PipelineAssumption ==
  /\ Enabled \in BOOLEAN /\ VerifyCacheHits \in BOOLEAN
  /\ VerifySynthesised \in BOOLEAN
  /\ CacheSize \in Nat \ {0}
  /\ MaxQueries \in Nat
  /\ None \notin [entity : Entities, filters : Filters, select : Selects]

Plans == [entity : Entities, filters : Filters, select : Selects]

(* The tiers of a lookup the pipeline tells apart: below 0.90, at least    *)
(* 0.90, and at least skip_on_confidence_above.                            *)
Tiers == {"miss", "near", "certain"}
Candidates == [source : {"cache", "synthesised"}, tier : Tiers, plan : Plans]
Verdicts == {"approve", "reject", "skipped", "error"}
Resolutions == [verdict : Verdicts, effective : Plans, original : Candidates]

VARIABLES
  req,       \* what each request is doing
  verdicts,  \* the LRU verdict cache, least recently used first
  gaps,      \* pattern_gap: occurrence_count per input hash, 0 for no row
  tasks,     \* gap tasks: how many stand where, per input hash
  queries,   \* inputs submitted so far
  answers,   \* history: every executed result, with its request's candidate
  calls,     \* history: verifier calls per question
  proposed,  \* history: the plans rejections proposed, per question
  rejected,  \* history: rejections the model gave, per gap key
  lost       \* history: rejections that left no trace in pattern_gap, per gap key

vars == <<req, verdicts, gaps, tasks, queries, answers, calls, proposed, rejected, lost>>
histories == <<answers, calls, proposed, rejected, lost>>

Key_FilterBlind(input, plan) ==  \* variant: the filters are left out of the hash
  <<input, plan.entity, CHOOSE f \in Filters : TRUE>>

(* VerdictCache._key (the registry, and so its hash, is fixed once the     *)
(* process has started), and the recorder's input hash.                    *)
Key(input, plan) == <<input, plan.entity, plan.filters>>
GapKey(input, cand) == <<input, cand.plan.entity>>

Keys == Inputs \X Entities \X Filters
GapKeys == Inputs \X Entities
Questions == Inputs \X Plans
TaskPhases == {"queued", "insert", "update"}

Skipped_Approved(cand) ==  \* variant: an unverified candidate counts as approved
  [verdict |-> "approve", effective |-> cand.plan, original |-> cand]
Skipped(cand) == [verdict |-> "skipped", effective |-> cand.plan, original |-> cand]
Errored_NoFallback(cand) ==  \* variant: no fallback to the candidate
  [verdict |-> "error", effective |-> None, original |-> cand]
Errored(cand) == [verdict |-> "error", effective |-> cand.plan, original |-> cand]
Approved(cand) == [verdict |-> "approve", effective |-> cand.plan, original |-> cand]
Rerouted(cand, plan) == [verdict |-> "reject", effective |-> plan, original |-> cand]

Idle == [pc |-> "idle", input |-> None, cand |-> None, res |-> None]
Requested == [input : Inputs, cand : Candidates, res : Resolutions]

Init ==
  /\ req = [r \in Requests |-> Idle]
  /\ verdicts = <<>>
  /\ gaps = [k \in GapKeys |-> 0]
  /\ tasks = [k \in GapKeys |-> [p \in TaskPhases |-> 0]]
  /\ queries = 0
  /\ answers = {}
  /\ calls = [q \in Questions |-> 0]
  /\ proposed = [q \in Questions |-> {}]
  /\ rejected = [k \in GapKeys |-> 0]
  /\ lost = [k \in GapKeys |-> 0]

(* ------------------------------ the verifier ---------------------------- *)

ShouldVerify(cand) ==
  /\ cand.source = "cache" => VerifyCacheHits /\ cand.tier # "certain"
  /\ cand.source = "synthesised" => VerifySynthesised

(* The cache is a sequence of entries; get moves an entry to the end, put  *)
(* also drops the oldest while there are too many.                         *)
Cached(key) == {i \in 1..Len(verdicts) : verdicts[i].key = key}
Others(key) ==
  IF Cached(key) = {} THEN verdicts ELSE RemoveAt(verdicts, CHOOSE i \in Cached(key) : TRUE)
Touch(e) == Append(Others(e.key), e)
Put(key, res) ==
  LET s == Append(Others(key), [key |-> key, res |-> res])
  IN  IF Len(s) > CacheSize THEN Tail(s) ELSE s

(* verify, up to its LLM call: the toggle, the policy and the cache.       *)
Goto(r, pc, input, cand, res) ==
  req' = [req EXCEPT ![r] = [pc |-> pc, input |-> input, cand |-> cand, res |-> res]]
Verify(r, input, cand) ==
  LET key == Key(input, cand.plan) IN
  \/ /\ ~(Enabled /\ ShouldVerify(cand))
     /\ Goto(r, "execute", input, cand, Skipped(cand))
     /\ UNCHANGED <<verdicts, calls>>
  \/ /\ Enabled /\ ShouldVerify(cand)
     /\ \E i \in Cached(key) :
          Goto(r, "execute", input, cand, verdicts[i].res) /\ verdicts' = Touch(verdicts[i])
     /\ UNCHANGED calls
  \/ /\ Enabled /\ ShouldVerify(cand) /\ Cached(key) = {}
     /\ Goto(r, "llm", input, cand, None)
     /\ calls' = [calls EXCEPT ![<<input, cand.plan>>] = @ + 1]
     /\ UNCHANGED verdicts

(* ----------------------------- the candidate ---------------------------- *)

(* The pattern cache is consulted; promotions change what it holds, so any *)
(* input may match any pattern.  A hit whose template yields no plan goes  *)
(* on to the synthesiser, like a miss.                                     *)
Submit(r) ==
  /\ req[r].pc = "idle" /\ queries < MaxQueries
  /\ queries' = queries + 1
  /\ \E input \in Inputs, tier \in Tiers, plan \in Plans \union {None} :
       \/ /\ tier # "miss" /\ plan # None
          /\ Verify(r, input, [source |-> "cache", tier |-> tier, plan |-> plan])
       \/ /\ tier = "miss" \/ plan = None
          /\ Goto(r, "synth", input, None, None)
          /\ UNCHANGED <<verdicts, calls>>
  /\ UNCHANGED <<gaps, tasks, answers, proposed, rejected, lost>>

(* The synthesiser answers with a plan; or with none, after an error or an *)
(* unusable reply, and a clarification is returned.                        *)
SynthReply(r) ==
  /\ req[r].pc = "synth"
  /\ \/ \E plan \in Plans :
          Verify(r, req[r].input, [source |-> "synthesised", tier |-> "miss", plan |-> plan])
     \/ req' = [req EXCEPT ![r] = Idle] /\ UNCHANGED <<verdicts, calls>>
  /\ UNCHANGED <<gaps, tasks, queries, answers, proposed, rejected, lost>>

(* --------------------------- the verifier's reply ----------------------- *)

Resolve(r, res) == Goto(r, "execute", req[r].input, req[r].cand, res)

(* Approval, and the replies that are no verdict: empty, unparseable, or a *)
(* rejection without a usable plan.  All are cached.                       *)
VerdictApprove(r) ==
  LET cand == req[r].cand IN
  /\ req[r].pc = "llm"
  /\ \E res \in {Approved(cand), Errored(cand)} :
       /\ Resolve(r, res)
       /\ verdicts' = Put(Key(req[r].input, cand.plan), res)
  /\ UNCHANGED <<gaps, tasks, queries, histories>>

(* A rejection: the LLM's plan takes over and a gap task is started.       *)
VerdictReject(r) ==
  LET cand == req[r].cand
      gap  == GapKey(req[r].input, cand)
  IN
  /\ req[r].pc = "llm"
  /\ \E plan \in Plans :
       /\ Resolve(r, Rerouted(cand, plan))
       /\ verdicts' = Put(Key(req[r].input, cand.plan), Rerouted(cand, plan))
       /\ proposed' = [proposed EXCEPT ![<<req[r].input, cand.plan>>] = @ \union {plan}]
  /\ tasks' = [tasks EXCEPT ![gap]["queued"] = @ + 1]
  /\ rejected' = [rejected EXCEPT ![gap] = @ + 1]
  /\ UNCHANGED <<gaps, queries, answers, calls, lost>>

(* A reply that is JSON but no object: data.get is an attribute error that *)
(* nothing in verify or in the pipeline catches.                           *)
VerdictRaises(r) ==
  /\ req[r].pc = "llm"
  /\ req' = [req EXCEPT ![r] = Idle]
  /\ UNCHANGED <<verdicts, gaps, tasks, queries, histories>>

VerifierTimeout_Never(r) == FALSE /\ UNCHANGED vars  \* variant: the call has no timeout

(* The call fails or takes longer than llm_timeout_ms: the candidate runs  *)
(* unverified, and nothing is cached.                                      *)
VerifierTimeout(r) ==
  /\ req[r].pc = "llm"
  /\ Resolve(r, Errored(req[r].cand))
  /\ UNCHANGED <<verdicts, gaps, tasks, queries, histories>>

(* The effective plan runs; a failing adapter gives an empty result, and   *)
(* nothing bounds how long it may take.                                    *)
Execute(r) ==
  /\ req[r].pc = "execute"
  /\ answers' = answers \union {[input |-> req[r].input, cand |-> req[r].cand,
                                 res |-> req[r].res]}
  /\ req' = [req EXCEPT ![r] = Idle]
  /\ UNCHANGED <<verdicts, gaps, tasks, queries, calls, proposed, rejected, lost>>

(* ----------------------------- gap recording ---------------------------- *)

Move(k, from, to) ==
  LET row == tasks[k] IN
  tasks' = [tasks EXCEPT ![k] = [row EXCEPT ![from] = row[from] - 1, ![to] = row[to] + 1]]
Done(k, from) == tasks' = [tasks EXCEPT ![k][from] = @ - 1]

(* The SELECT decides between an UPDATE and an INSERT.                     *)
GapSelect(k) ==
  /\ tasks[k]["queued"] > 0
  /\ Move(k, "queued", IF gaps[k] = 0 THEN "insert" ELSE "update")
  /\ UNCHANGED <<req, verdicts, gaps, queries, histories>>

GapUpdate(k) ==
  /\ tasks[k]["update"] > 0
  /\ Done(k, "update")
  /\ gaps' = [gaps EXCEPT ![k] = @ + 1]
  /\ UNCHANGED <<req, verdicts, queries, histories>>

GapInsert_Upsert(k) ==  \* variant: ON CONFLICT the row is written anew
  /\ tasks[k]["insert"] > 0
  /\ Done(k, "insert")
  /\ gaps' = [gaps EXCEPT ![k] = 1]
  /\ UNCHANGED <<req, verdicts, queries, histories>>

(* input_hash is unique: an INSERT that comes second fails, is logged, and *)
(* the occurrence is lost.                                                 *)
GapInsert(k) ==
  /\ tasks[k]["insert"] > 0
  /\ Done(k, "insert")
  /\ \/ gaps[k] = 0 /\ gaps' = [gaps EXCEPT ![k] = 1] /\ UNCHANGED lost
     \/ gaps[k] > 0 /\ lost' = [lost EXCEPT ![k] = @ + 1] /\ UNCHANGED gaps
  /\ UNCHANGED <<req, verdicts, queries, answers, calls, proposed, rejected>>

(* Any of the three statements may fail, and so does a record without a    *)
(* database engine: it is logged, and the occurrence is lost.  (A commit   *)
(* that went through unseen is logged too, but counts.)                    *)
GapFails(k) ==
  /\ \E p \in TaskPhases : tasks[k][p] > 0 /\ Done(k, p)
  /\ lost' = [lost EXCEPT ![k] = @ + 1]
  /\ UNCHANGED <<req, verdicts, gaps, queries, answers, calls, proposed, rejected>>

RequestStep(r) ==
  \/ Submit(r) \/ SynthReply(r)
  \/ VerdictApprove(r) \/ VerdictReject(r) \/ VerdictRaises(r) \/ VerifierTimeout(r)
  \/ Execute(r)
GapStep(k) == GapSelect(k) \/ GapUpdate(k) \/ GapInsert(k) \/ GapFails(k)

Next == \/ \E r \in Requests : RequestStep(r)
        \/ \E k \in GapKeys : GapStep(k)

Spec == Init /\ [][Next]_vars

(* asyncio.wait_for fires its timeout.  That the model ever answers is not *)
(* assumed, nor that an execution ends: queries have no timeout.           *)
Fairness == \A r \in Requests : WF_vars(VerifierTimeout(r))
FairSpec == Spec /\ Fairness
-----------------------------------------------------------------------------
RequestType ==
  {Idle} \union [pc : {"synth"}, input : Inputs, cand : {None}, res : {None}]
    \union [pc : {"llm"}, input : Inputs, cand : Candidates, res : {None}]
    \union [pc : {"execute"}, input : Inputs, cand : Candidates, res : Resolutions]

(* Every variable has its type; a request holds what its phase needs.      *)
TypeOK ==
  /\ req \in [Requests -> RequestType]
  /\ verdicts \in Seq([key : Keys, res : Resolutions])
  /\ gaps \in [GapKeys -> Nat] /\ tasks \in [GapKeys -> [TaskPhases -> Nat]]
  /\ answers \subseteq Requested
  /\ calls \in [Questions -> Nat] /\ proposed \in [Questions -> SUBSET Plans]
  /\ rejected \in [GapKeys -> Nat] /\ lost \in [GapKeys -> Nat]

SameHash(p, q) == p.entity = q.entity /\ p.filters = q.filters

(* What is executed is justified for the request it answers: the plan of   *)
(* its own candidate, up to select_fields, or, under a reject verdict, a   *)
(* plan the model proposed for this very input and candidate plan.         *)
ExecutedPlanJustified ==
  \A a \in answers :
    IF a.res.verdict = "reject"
      THEN \E p \in Plans : /\ SameHash(p, a.cand.plan)
                            /\ a.res.effective \in proposed[<<a.input, p>>]
      ELSE SameHash(a.res.effective, a.cand.plan)

(* A verdict is only ever given to an input and a plan the model was asked *)
(* about: an unverified candidate is never reported as approved, whatever  *)
(* was cached, evicted or timed out before.  The cache that answers in the *)
(* model's place is bounded and holds one verdict per key.                 *)
VerdictsComeFromCalls ==
  /\ \A a \in answers :
       a.res.verdict \in {"approve", "reject"} =>
         \E p \in Plans : SameHash(p, a.cand.plan) /\ calls[<<a.input, p>>] > 0
  /\ Len(verdicts) <= CacheSize
  /\ \A i, j \in 1..Len(verdicts) : verdicts[i].key = verdicts[j].key => i = j

(* Every rejection the model gave is counted, is being recorded, or was    *)
(* lost to a failed statement: no count runs ahead or is overwritten, in   *)
(* whatever order the statements of concurrent gap tasks arrive.           *)
GapsAccounted ==
  \A k \in GapKeys :
    gaps[k] + lost[k] + tasks[k]["queued"] + tasks[k]["insert"] + tasks[k]["update"]
      = rejected[k]

(* A verification ends although the model may never answer.                *)
VerificationEnds == \A r \in Requests : req[r].pc = "llm" ~> req[r].pc # "llm"
=============================================================================
