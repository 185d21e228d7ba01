--------------------------- MODULE PatternPromotion ---------------------------
(***************************************************************************)
(* The learning loop of POST /resolve: an input is answered from the       *)
(* pattern cache or by LLM synthesis; a synthesised plan that ran is       *)
(* promoted, by a task of its own, into the entity's *.patterns.yaml file  *)
(* or queued for review, as is a plan that a user proposes; the cache's    *)
(* index is reloaded from the file while requests go on, and rebuilt from  *)
(* all files when the process restarts.                                    *)
(* A promotion has no await between its file's read and the reload.        *)
(***************************************************************************)
EXTENDS Integers, SkillRegistry

CONSTANTS
  Requests,          \* request slots, each with its promotion task
  Inputs,            \* user inputs
  Slugs,             \* pattern ids without their entity prefix
  BadSlugs,          \* those Pattern.id refuses: letters beyond a-z
  HandSlug,          \* the id of a pattern written by hand, which has no llm_
  SlugOf,            \* the slug of an input: its first five words
  Score,             \* how well an input matches a trigger, of 100
  Entities,
  WithFile,          \* the entities with a *.patterns.yaml file
  Plans,             \* the plans the synthesiser may give
  Proposals,         \* inputs and plans a user may propose
  AutoPromote,       \* auto_promote_enabled
  MaxQueries,        \* bound: inputs submitted in a behaviour
  MaxSecond,         \* bound: how far the clock runs
  None

PlanType == [entity : Entities,
             joins : {"none", "known", "unknown"},
             filters : {"none", "own", "foreign", "braced", "oddop"},
             select : BOOLEAN]

ASSUME PromotionAssumption ==
  /\ BadSlugs \subseteq Slugs
  /\ HandSlug \in Slugs \ BadSlugs
  /\ SlugOf \in [Inputs -> Slugs \ {HandSlug}]
  /\ Score \in [Inputs -> [Inputs -> 0 .. 100]]
  /\ IsFiniteSet(Entities) /\ WithFile \subseteq Entities /\ Plans \subseteq PlanType
  /\ Proposals \subseteq Inputs \X Plans /\ AutoPromote \in BOOLEAN
  /\ MaxQueries \in Nat /\ MaxSecond \in Nat
  /\ None \notin PlanType

VARIABLES
  req,       \* what each request, and then its promotion task, is doing
  files,     \* the patterns of each entity's file
  index,     \* TriggerIndex._entries
  byId,      \* PatternCache._pattern_by_id: the patterns of the id's file
  up,        \* the process is running
  queries,   \* inputs submitted so far
  reviews,   \* the review queue: the candidate in each of its files
  second,    \* time.time() in whole seconds
  answers,   \* history: what /resolve answered
  ran,       \* history: synthesised plans that ran, with their input
  queued,    \* history: candidates written to the review queue, and when
  cut        \* history: files of the queue whose last write failed half-way

cache == <<index, byId>>
queue == <<reviews, second, queued, cut>>
histories == <<answers, ran>>
vars == <<req, files, cache, up, queries, queue, histories, catalogVars>>

(* ------------------------- plans and their templates -------------------- *)

(* The confidence of a synthesised plan, in hundredths.                    *)
Confidence(plan) ==
  90 + (CASE plan.joins = "known"   -> 3
          [] plan.joins = "unknown" -> -10
          [] plan.joins = "none"    -> 0)
     + (IF plan.filters \in {"own", "braced", "oddop"} THEN 3 ELSE 0)

(* The confidence a promotion task was given: a proposal is below the      *)
(* threshold of promotion whatever its plan.                               *)
TaskConfidence(task) == IF task.pc = "propose" THEN 91 ELSE Confidence(task.plan)

Tier_ReviewIsEnough(task) ==  \* variant: the review threshold promotes
  IF TaskConfidence(task) >= 90 THEN "auto" ELSE "discard"
Tier(task) ==
  IF TaskConfidence(task) < 90 THEN "discard"
  ELSE IF TaskConfidence(task) >= 95 /\ AutoPromote THEN "auto" ELSE "review"

(* A template has no select_fields.  Reading it back drops a filter whose  *)
(* value looks like an unfilled placeholder, and takes an operator that it *)
(* does not know for "eq".                                                 *)
Template(plan) == [plan EXCEPT !.select = FALSE]
Parse(plan) ==
  CASE plan.filters = "braced" -> [plan EXCEPT !.filters = "none"]
    [] plan.filters = "oddop"  -> [plan EXCEPT !.filters = "own"]
    [] OTHER                   -> plan

Pattern == [slug : Slugs, trigger : Inputs, plan : PlanType]
Entry == [entity : Entities, slug : Slugs, trigger : Inputs]
Seconds == 0 .. MaxSecond

NewPattern(input, plan) ==
  [slug |-> SlugOf[input], trigger |-> input, plan |-> Template(plan)]

(* ------------------------------- the cache ------------------------------ *)

(* PatternFile accepts a file whose ids are well formed and distinct.      *)
Loadable(patterns) ==
  /\ \A p \in patterns : p.slug \notin BadSlugs
  /\ \A p, q \in patterns : p.slug = q.slug => p = q

EntriesOf(e, patterns) ==
  {[entity |-> e, slug |-> p.slug, trigger |-> p.trigger] : p \in patterns}
Ids(e, patterns) == {<<e, p.slug>> : p \in patterns}
PatternIds(fs) == [e \in WithFile |-> Ids(e, fs[e])]

(* build_from_pattern_files                                                *)
Build(fs) ==
  /\ index' = UNION {EntriesOf(e, fs[e]) : e \in WithFile}
  /\ byId' = [id \in UNION {Ids(e, fs[e]) : e \in WithFile} |-> fs[id[1]]]

Reload_Replaces(e, patterns) ==  \* variant: the index is built from this file alone
  /\ index' = EntriesOf(e, patterns)
  /\ byId' = [id \in DOMAIN byId \union Ids(e, patterns) |->
                IF id \in Ids(e, patterns) THEN patterns ELSE byId[id]]
Reload_Early(e, patterns) ==  \* variant: the file is read before it is renamed
  /\ index' = {x \in index : x.entity # e} \union EntriesOf(e, files[e])
  /\ UNCHANGED byId

(* _on_pattern_promoted, after load_patterns has accepted the file.        *)
Reload(e, patterns) ==
  /\ index' = {x \in index : x.entity # e} \union EntriesOf(e, patterns)
  /\ byId' = [id \in DOMAIN byId \union Ids(e, patterns) |->
                IF id \in Ids(e, patterns) THEN patterns ELSE byId[id]]

(* FuzzyMatcher.match: of the triggers at 90 or more, any of the best.  It *)
(* is the normalised words that are compared: a word moved or a stop word  *)
(* more is still 100, and an input of stop words alone matches nothing.    *)
Hits(input) ==
  {x \in index : /\ Score[input][x.trigger] >= 90
                 /\ \A y \in index : Score[input][y.trigger] <= Score[input][x.trigger]}

(* get_pattern: None, or the plan its template is read back to.            *)
Stored(x) ==
  LET id == <<x.entity, x.slug>> IN
  IF id \notin DOMAIN byId THEN {}
  ELSE {Parse(p.plan) : p \in {q \in byId[id] : q.slug = x.slug}}

(* --------------------------------- start -------------------------------- *)

Idle == [pc |-> "idle", input |-> None, plan |-> None]
Authored(e, i) == [slug |-> HandSlug, trigger |-> i,
                   plan |-> [entity |-> e, joins |-> "none", filters |-> "none",
                             select |-> FALSE]]

(* The process has started over files written by hand or by the seeder,    *)
(* whose ids begin with their entity's name, as the promoter's do.         *)
Init ==
  /\ req = [r \in Requests |-> Idle]
  /\ files \in [WithFile -> {{}} \union UNION {{{Authored(e, i)} : i \in Inputs} : e \in WithFile}]
  /\ \A e \in WithFile : \A p \in files[e] : p.plan.entity = e
  /\ index = UNION {EntriesOf(e, files[e]) : e \in WithFile}
  /\ byId = [id \in UNION {Ids(e, files[e]) : e \in WithFile} |-> files[id[1]]]
  /\ up = TRUE
  /\ queries = 0
  /\ reviews = [f \in Entities \X Seconds |-> None] /\ second = 0
  /\ queued = {} /\ cut = {}
  /\ answers = {} /\ ran = {}
  /\ SkillsInit(PatternIds(files))

(* -------------------------------- resolve ------------------------------- *)

Answer(input, source, plan) ==
  answers' = answers \union {[input |-> input, source |-> source, plan |-> plan]}

(* A hit: the pattern is executed; whatever goes wrong, the answer names   *)
(* the pattern cache and has no rows.                                      *)
ResolveHit(r) ==
  /\ up /\ req[r].pc = "idle" /\ queries < MaxQueries
  /\ queries' = queries + 1
  /\ \E input \in Inputs : \E x \in Hits(input) :
       \/ \E plan \in Stored(x) : Answer(input, "pattern_cache", plan)
       \/ Answer(input, "pattern_cache", None)
  /\ UNCHANGED <<req, files, cache, up, queue, ran>>

ResolveMiss(r) ==
  /\ up /\ req[r].pc = "idle" /\ queries < MaxQueries
  /\ queries' = queries + 1
  /\ \E input \in Inputs :
       /\ Hits(input) = {}
       /\ req' = [req EXCEPT ![r] = [Idle EXCEPT !.pc = "synth", !.input = input]]
  /\ UNCHANGED <<files, cache, up, queue, histories>>

SynthReply_Unchecked(r) ==  \* variant: no plan is taken for a plan
  /\ up /\ req[r].pc = "synth"
  /\ \E plan \in Plans \union {None} :
       req' = [req EXCEPT ![r] = [@ EXCEPT !.pc = "run", !.plan = plan]]
  /\ UNCHANGED <<files, cache, up, queries, queue, histories>>

(* The synthesiser gives a plan of an entity of the registry, or nothing.  *)
SynthReply(r) ==
  /\ up /\ req[r].pc = "synth"
  /\ \/ \E plan \in Plans :
          /\ req' = [req EXCEPT ![r] = [@ EXCEPT !.pc = "run", !.plan = plan]]
          /\ UNCHANGED answers
     \/ /\ req' = [req EXCEPT ![r] = Idle]
        /\ Answer(req[r].input, "none", None)
  /\ UNCHANGED <<files, cache, up, queries, queue, ran>>

(* The plan ran: the answer has rows, and a promotion task is started.     *)
SynthExecuted(r) ==
  /\ up /\ req[r].pc = "run"
  /\ Answer(req[r].input, "llm_synthesis", req[r].plan)
  /\ ran' = ran \union {[input |-> req[r].input, plan |-> req[r].plan]}
  /\ req' = [req EXCEPT ![r] = [@ EXCEPT !.pc = "promote"]]
  /\ UNCHANGED <<files, cache, up, queries, queue>>

(* The adapter failed or is missing: the answer names the entity only.     *)
SynthFailed(r) ==
  /\ up /\ req[r].pc = "run"
  /\ Answer(req[r].input, "llm_synthesis", None)
  /\ req' = [req EXCEPT ![r] = Idle]
  /\ UNCHANGED <<files, cache, up, queries, queue, ran>>

(* ------------------------------- promotion ------------------------------ *)

(* POST /patterns/propose: a plan of any entity, run or not, is answered   *)
(* at once and left to a task of its own.                                  *)
Propose(r) ==
  /\ up /\ req[r].pc = "idle" /\ queries < MaxQueries
  /\ queries' = queries + 1
  /\ \E p \in Proposals :
       req' = [req EXCEPT ![r] = [pc |-> "propose", input |-> p[1], plan |-> p[2]]]
  /\ UNCHANGED <<files, cache, up, queue, histories>>

Promoting(r) == up /\ req[r].pc \in {"promote", "propose"}
PromotesTo(r, e) == Promoting(r) /\ Tier(req[r]) = "auto" /\ req[r].plan.entity = e

(* The confidence is too low, the entity has no file, or the file cannot   *)
(* be read or its replacement not be written: the task logs it and ends.   *)
PromoteElse(r) ==
  /\ \/ Promoting(r) /\ Tier(req[r]) = "discard"
     \/ \E e \in Entities \ WithFile : PromotesTo(r, e)
     \/ \E e \in WithFile : PromotesTo(r, e)
  /\ req' = [req EXCEPT ![r] = Idle]
  /\ UNCHANGED <<files, cache, up, queries, queue, histories>>

ReviewFile_PerEntity(e, t) == <<e, 0>>  \* variant: the name leaves out the time
ReviewFile(e, t) == <<e, t>>

(* The candidate is left for an operator, in a file named after its entity *)
(* and the second, whatever that file held.  The directory may fail to be  *)
(* made, which changes nothing; a write that fails, or that the end of the *)
(* process cuts short, has already emptied the file.                       *)
PromoteReview(r) ==
  LET e == req[r].plan.entity
      file == ReviewFile(e, second)
      candidate == NewPattern(req[r].input, req[r].plan)
  IN
  /\ Promoting(r) /\ Tier(req[r]) = "review"
  /\ \/ /\ reviews' = [reviews EXCEPT ![file] = candidate]
        /\ queued' = queued \union {[entity |-> e, at |-> second, pattern |-> candidate]}
        /\ cut' = cut \ {<<e, second>>}
     \/ /\ reviews' = [reviews EXCEPT ![file] = None]
        /\ cut' = cut \union {<<e, second>>} /\ UNCHANGED queued
     \/ UNCHANGED <<reviews, queued, cut>>
  /\ req' = [req EXCEPT ![r] = Idle]
  /\ UNCHANGED <<files, cache, up, queries, second, histories>>

Taken_Never(e, slug) == FALSE  \* variant: no check for an id collision
Taken(e, slug) == \E p \in files[e] : p.slug = slug

(* The id is taken: nothing is written, and success is reported.           *)
PromoteCollides(r) ==
  /\ \E e \in WithFile : PromotesTo(r, e) /\ Taken(e, SlugOf[req[r].input])
  /\ req' = [req EXCEPT ![r] = Idle]
  /\ UNCHANGED <<files, cache, up, queries, queue, histories>>

(* The file is rewritten and renamed into place; the callback reloads it,  *)
(* if it can be loaded.  The process may stop between the two.             *)
PromoteAppend(r) ==
  LET e == req[r].plan.entity
      patterns == files[e] \union {NewPattern(req[r].input, req[r].plan)}
  IN
  /\ PromotesTo(r, e) /\ e \in WithFile /\ ~Taken(e, SlugOf[req[r].input])
  /\ files' = [files EXCEPT ![e] = patterns]
  /\ \/ /\ Loadable(patterns) /\ Reload(e, patterns)
        /\ req' = [req EXCEPT ![r] = Idle] /\ UNCHANGED up
     \/ /\ ~Loadable(patterns) /\ UNCHANGED cache
        /\ req' = [req EXCEPT ![r] = Idle] /\ UNCHANGED up
     \/ /\ up' = FALSE /\ req' = [x \in Requests |-> Idle]
        /\ UNCHANGED cache
  /\ UNCHANGED <<queries, queue, histories>>

(* ------------------------------ the process ----------------------------- *)

Crash ==
  /\ up /\ up' = FALSE
  /\ req' = [r \in Requests |-> Idle]
  /\ UNCHANGED <<files, cache, queries, queue, histories>>

(* Startup loads the skills, which patterns must belong to, and rebuilds   *)
(* the cache; it refuses to run over a file that does not load.            *)
Restart ==
  /\ ~up /\ \A e \in WithFile : Loadable(files[e])
  /\ LoadSkills(PatternIds(files))
  /\ up' = TRUE
  /\ Build(files)
  /\ UNCHANGED <<req, files, queries, queue, histories>>

EditSkillFiles ==
  ~up /\ EditSkills /\ UNCHANGED <<req, files, cache, up, queries, queue, histories>>

RequestStep(r) ==
  \/ ResolveHit(r) \/ ResolveMiss(r) \/ SynthReply(r) \/ SynthExecuted(r) \/ SynthFailed(r)
  \/ Propose(r) \/ PromoteElse(r) \/ PromoteReview(r) \/ PromoteCollides(r) \/ PromoteAppend(r)

Tick == second < MaxSecond /\ second' = second + 1
        /\ UNCHANGED <<req, files, cache, up, queries, reviews, queued, cut, histories>>

Next == \/ \E r \in Requests : RequestStep(r) /\ UNCHANGED catalogVars
        \/ (Crash \/ Tick) /\ UNCHANGED catalogVars
        \/ Restart \/ EditSkillFiles

Spec == Init /\ [][Next]_vars
-----------------------------------------------------------------------------
(* Every variable has its type; a request holds what its phase needs.      *)
TypeOK ==
  /\ \A r \in Requests :
       \/ req[r] = Idle
       \/ req[r].pc = "synth" /\ req[r].input \in Inputs /\ req[r].plan = None
       \/ req[r].pc \in {"run", "promote", "propose"} /\ req[r].input \in Inputs /\ req[r].plan \in Plans
  /\ files \in [WithFile -> SUBSET Pattern]
  /\ index \subseteq Entry
  /\ DOMAIN byId \subseteq WithFile \X Slugs
  /\ {skills, registry} \subseteq Catalogs
  /\ reviews \in [Entities \X Seconds -> Pattern \union {None}] /\ second \in Seconds

(* Two patterns never share an id, so that get_pattern and the duplicate   *)
(* check at startup find each pattern alone, however many promotions of    *)
(* the same words were under way at once.                                  *)
IdsUnique == \A e \in WithFile : \A p, q \in files[e] : p.slug = q.slug => p = q

(* The walk along foreign keys finds a cycle if and only if there is one.  *)
CircularFksDetected ==
  \A graph \in [Entities -> SUBSET Entities] :
    DetectCircularFks(graph) # {} <=> Circular(graph)

(* What runs was loaded from sound files: whatever operators leave on disk *)
(* before a start, the registry has each entity once, no foreign key that  *)
(* leads nowhere and no circular dependency; and no promotion spoils the   *)
(* files for the next start by writing an id twice.                        *)
FilesStaySound ==
  IdsUnique /\ CircularFksDetected /\ (up => SoundCatalog(registry))

(* The running index serves exactly what the files that load hold: a       *)
(* promotion neither loses another entity's triggers nor misses its own,   *)
(* and a trigger that matches always leads to a pattern of a known id.     *)
IndexFollowsFiles ==
  up => /\ \A e \in WithFile :
             Loadable(files[e]) => {x \in index : x.entity = e} = EntriesOf(e, files[e])
        /\ \A x \in index : Stored(x) # {}

(* What is served of a plan: its entity and joins, without the selection;  *)
(* its filters too, but for one that reads like a placeholder or has an    *)
(* unknown operator, which the served query drops or compares by "eq".     *)
Derives(served, plan) ==
  /\ served.entity = plan.entity /\ served.joins = plan.joins /\ ~served.select
  /\ plan.filters \in {"none", "own", "foreign"} => served.filters = plan.filters

(* The pattern cache only answers with plans that were written by hand, or *)
(* that derive from one that ran, for an input that this one matches, with *)
(* the confidence that promotion asks for: what users propose never gets   *)
(* there.  The served plan itself may never have run.                      *)
ServedPlansDerived ==
  \A a \in answers : a.source = "pattern_cache" /\ a.plan # None =>
    \/ a.plan = Authored(a.plan.entity, a.input).plan
    \/ \E x \in ran : /\ Score[a.input][x.input] >= 90
                      /\ Confidence(x.plan) >= 95
                      /\ Derives(a.plan, x.plan)

(* A candidate that was written for review stays there, across restarts,   *)
(* until a write of another of its entity begins in the same second: that  *)
(* one's candidate is there then, or none if its write was cut short.      *)
CandidatesKept ==
  \A q \in queued :
    \/ <<q.entity, q.at>> \in cut
    \/ \E x \in queued : /\ x.entity = q.entity /\ x.at = q.at
                         /\ reviews[<<x.entity, x.at>>] = x.pattern

(* A trigger in service leaves it only when the process stops: whatever is *)
(* promoted later, an input that matched goes on matching.                 *)
TriggersStayInService == [][up /\ up' => index \subseteq index']_vars
=============================================================================
