---------------------------- MODULE CanvasSession ----------------------------
(***************************************************************************)
(* One row of canvas_sessions and the requests that work on it at once:    *)
(* message turns, previews and generations.  Every await of a handler (the *)
(* row read, the language-model call, each statement of the writeback      *)
(* transaction, the state update) ends an action, since other requests run *)
(* there; the transaction runs at READ COMMITTED, so its SELECT takes no   *)
(* lock.  A statement may raise, a commit may go through unseen, and the   *)
(* generator may raise between two files; the request then answers an      *)
(* error.  Rows of other sessions are independent of this one.             *)
(***************************************************************************)
EXTENDS Naturals, Sequences, FiniteSets, CanvasIntent

CONSTANTS
  Requests,              \* the concurrent requests on the session
  MaxConversationTurns,  \* canvas_settings.max_conversation_turns
  MaxAnswered,           \* bound: turns written back in a behaviour
  MaxBuilds,             \* bound: previews built in a behaviour
  MayCrash               \* whether the process may stop and restart

ASSUME CanvasAssumption ==
  /\ MaxConversationTurns \in Nat /\ MaxAnswered \in Nat /\ MaxBuilds \in Nat
  /\ MayCrash \in BOOLEAN

VARIABLES
  state,           \* row.state
  partial_intent,  \* row.partial_intent
  messages,        \* row.messages: the update of each user/assistant pair
  preview_cache,   \* row.preview_cache with its key
  artifacts,       \* the output directory: file name -> intent it came from
  bundle,          \* the intent of the last generation answered with 200, or None
  req,             \* what each request is doing, and what it holds
  answered,        \* turns written back so far
  builds,          \* previews built so far
  served           \* previews returned so far

vars == <<state, partial_intent, messages, preview_cache, artifacts, bundle, req,
          answered, builds, served>>

States == {"eliciting", "confirming", "complete"}

(* A request: where it stands, the state and intent it read or will write, *)
(* the update of its turn and the messages its transaction selected.       *)
Phases == {"idle", "llm", "select", "update", "files", "finish", "preview"}
Request == [pc : Phases, state : States, intent : Intents, update : Updates,
            log : Seq(Updates)]
Idle == [pc |-> "idle", state |-> "eliciting", intent |-> EmptyIntent,
         update |-> NoUpdate, log |-> <<>>]

NoPreview == [key |-> None, from |-> EmptyIntent]

(* PreviewBuilder.cache_key hashes the whole intent.                       *)
CacheKey_MoodOnly(intent) == intent["aesthetic_mood"]  \* variant: a key that omits a field
CacheKey(intent) == intent

(* The files CanvasGenerator.generate writes, in its order.  The theme is  *)
(* named after the mood, the skill and pattern files after the entity.     *)
Audit == <<"canvas-session.json", None>>
WriteOrder(intent) ==
  << <<"theme", intent["aesthetic_mood"]>>, <<"layout", None>>,
     <<"skill", intent["primary_entity"]>>, Audit >>

(* The directory after the first n files are written over what it held.    *)
WriteFiles(intent, n) ==
  LET written == {WriteOrder(intent)[i] : i \in 1..n}
  IN  [file \in DOMAIN artifacts \union written |->
         IF file \in written THEN intent ELSE artifacts[file]]

Init ==
  /\ state = "eliciting" /\ partial_intent = EmptyIntent /\ messages = <<>>
  /\ preview_cache = NoPreview /\ artifacts = [f \in {} |-> EmptyIntent]
  /\ bundle = None
  /\ req = [r \in Requests |-> Idle]
  /\ answered = 0 /\ builds = 0 /\ served = {}

(* ------------------------------ message turns -------------------------- *)

NextState_NeverConfirms(current, intent, intentComplete) ==  \* variant
  IF intentComplete /\ IsComplete(intent) THEN "complete" ELSE current

(* The transitions of ConversationDriver.turn once the model has answered. *)
NextState(current, intent, intentComplete) ==
  IF intentComplete /\ IsComplete(intent) THEN "complete"
  ELSE IF IsComplete(intent) /\ current = "eliciting" THEN "confirming"
  ELSE current

TurnAllowed_OneMore ==  \* variant: the cap is off by one
  /\ Len(messages) <= MaxConversationTurns
  /\ state # "complete"

TurnAllowed_CapOnly == Len(messages) < MaxConversationTurns  \* variant: a finished session answers

TurnAllowed ==
  /\ Len(messages) < MaxConversationTurns
  /\ state # "complete"

(* send_message reads the row and refuses a turn past the cap or the end.  *)
(* An affirmation in CONFIRMING is decided without a model call.           *)
SendMessage(r) ==
  /\ req[r].pc = "idle" /\ answered < MaxAnswered
  /\ TurnAllowed
  /\ \E affirm \in BOOLEAN :
       LET confirms == affirm /\ state = "confirming"
       IN  req' = [req EXCEPT ![r] =
             [Idle EXCEPT !.pc = IF confirms THEN "select" ELSE "llm",
                          !.state = IF confirms THEN "complete" ELSE state,
                          !.intent = partial_intent]]
  /\ UNCHANGED <<state, partial_intent, messages, preview_cache, artifacts,
                 bundle, answered, builds, served>>

(* The model answers with an update (or none, or an invalid one that is    *)
(* rolled back) and may declare the intent complete.                       *)
LLMReply(r) ==
  /\ req[r].pc = "llm"
  /\ \E update \in Updates, intentComplete \in BOOLEAN :
       LET intent == Merge(req[r].intent, update)
       IN  req' = [req EXCEPT ![r] =
             [@ EXCEPT !.pc = "select", !.intent = intent, !.update = update,
                       !.state = NextState(req[r].state, intent, intentComplete)]]
  /\ UNCHANGED <<state, partial_intent, messages, preview_cache, artifacts,
                 bundle, answered, builds, served>>

LLMFail_Forgets(r) ==  \* variant: new_partial left at its default
  /\ req[r].pc = "llm"
  /\ req' = [req EXCEPT ![r] = [@ EXCEPT !.pc = "select", !.intent = EmptyIntent]]
  /\ UNCHANGED <<state, partial_intent, messages, preview_cache, artifacts,
                 bundle, answered, builds, served>>

(* The model call fails or returns nothing: the turn changes nothing but   *)
(* the messages.                                                           *)
LLMFail(r) ==
  /\ req[r].pc = "llm"
  /\ req' = [req EXCEPT ![r].pc = "select"]
  /\ UNCHANGED <<state, partial_intent, messages, preview_cache, artifacts,
                 bundle, answered, builds, served>>

(* turn_writeback: the transaction's SELECT of the messages ...            *)
WritebackSelect(r) ==
  /\ req[r].pc = "select"
  /\ req' = [req EXCEPT ![r] = [@ EXCEPT !.pc = "update", !.log = messages]]
  /\ UNCHANGED <<state, partial_intent, messages, preview_cache, artifacts,
                 bundle, answered, builds, served>>

(* ... and its UPDATE of messages, state and intent together.              *)
WritebackUpdate(r) ==
  /\ req[r].pc = "update"
  /\ messages' = Append(req[r].log, req[r].update)
  /\ state' = req[r].state
  /\ partial_intent' = req[r].intent
  /\ answered' = answered + 1
  /\ req' = [req EXCEPT ![r] = Idle]
  /\ UNCHANGED <<preview_cache, artifacts, bundle, builds, served>>

(* ------------------------------ previews -------------------------------- *)

Serve(asked, from) == served' = served \union {[asked |-> asked, from |-> from]}

(* get_preview: a cached preview is returned when its key matches.         *)
PreviewHit(r) ==
  /\ req[r].pc = "idle" /\ MaxBuilds > 0
  /\ preview_cache.key = CacheKey(partial_intent)
  /\ Serve(partial_intent, preview_cache.from)
  /\ UNCHANGED <<state, partial_intent, messages, preview_cache, artifacts, bundle,
                 req, answered, builds>>

PreviewMiss(r) ==
  /\ req[r].pc = "idle" /\ builds < MaxBuilds
  /\ preview_cache.key # CacheKey(partial_intent)
  /\ req' = [req EXCEPT ![r] =
               [Idle EXCEPT !.pc = "preview", !.intent = partial_intent]]
  /\ UNCHANGED <<state, partial_intent, messages, preview_cache, artifacts,
                 bundle, answered, builds, served>>

(* The rows are built, stored with the key of the intent that was read,    *)
(* and returned.                                                           *)
PreviewStore(r) ==
  /\ req[r].pc = "preview"
  /\ builds' = builds + 1
  /\ preview_cache' = [key  |-> CacheKey(req[r].intent), from |-> req[r].intent]
  /\ Serve(req[r].intent, req[r].intent)
  /\ req' = [req EXCEPT ![r] = Idle]
  /\ UNCHANGED <<state, partial_intent, messages, artifacts, bundle, answered>>

(* ----------------------------- generation ------------------------------- *)

(* generate reads the row; an incomplete intent is refused with 422.       *)
GenerateRead(r) ==
  /\ req[r].pc = "idle"
  /\ IsComplete(partial_intent)
  /\ req' = [req EXCEPT ![r] =
               [Idle EXCEPT !.pc = "files", !.intent = partial_intent]]
  /\ UNCHANGED <<state, partial_intent, messages, preview_cache, artifacts,
                 bundle, answered, builds, served>>

GenerateFiles_Reread(r) ==  \* variant: generates from the row as it is now
  /\ req[r].pc = "files"
  /\ artifacts' = WriteFiles(partial_intent, Len(WriteOrder(partial_intent)))
  /\ req' = [req EXCEPT ![r].pc = "finish"]
  /\ UNCHANGED <<state, partial_intent, messages, preview_cache, bundle,
                 answered, builds, served>>

(* CanvasGenerator.generate has no await: no request runs within it.  It   *)
(* overwrites what it writes and removes nothing.                          *)
GenerateFiles(r) ==
  /\ req[r].pc = "files"
  /\ artifacts' = WriteFiles(req[r].intent, Len(WriteOrder(req[r].intent)))
  /\ req' = [req EXCEPT ![r].pc = "finish"]
  /\ UNCHANGED <<state, partial_intent, messages, preview_cache, bundle,
                 answered, builds, served>>

(* It raises after some of the files: an error, and the row as it was.     *)
GenerateRaises(r) ==
  /\ req[r].pc = "files"
  /\ \E n \in 0..Len(WriteOrder(req[r].intent)) :
       artifacts' = WriteFiles(req[r].intent, n)
  /\ req' = [req EXCEPT ![r] = Idle]
  /\ UNCHANGED <<state, partial_intent, messages, preview_cache, bundle,
                 answered, builds, served>>

(* update_state, then the answer; or update_state raises, its write not    *)
(* committed or committed unseen, and the answer is an error.              *)
GenerateFinish(r) ==
  /\ req[r].pc = "finish"
  /\ \/ state' = "complete" /\ bundle' = req[r].intent
     \/ state' \in {state, "complete"} /\ UNCHANGED bundle
  /\ req' = [req EXCEPT ![r] = Idle]
  /\ UNCHANGED <<partial_intent, messages, preview_cache, artifacts, answered,
                 builds, served>>

(* ------------------------------- failures ------------------------------- *)

(* A statement of the writeback or of the preview's store raises before    *)
(* its commit: the request answers an error and the row stays.  (A commit  *)
(* that went through unseen leaves what the step that succeeds leaves.)    *)
Raises(r) ==
  /\ req[r].pc \in {"select", "update", "preview"}
  /\ req' = [req EXCEPT ![r] = Idle]
  /\ UNCHANGED <<state, partial_intent, messages, preview_cache, artifacts,
                 bundle, answered, builds, served>>

(* The process stops: every request is lost, at most one of them half-way  *)
(* through writing its files; the row and the files stay.                  *)
Crash ==
  /\ MayCrash
  /\ \/ UNCHANGED artifacts
     \/ \E r \in Requests, n \in 1..3 :
          req[r].pc = "files" /\ artifacts' = WriteFiles(req[r].intent, n)
  /\ req' = [r \in Requests |-> Idle]
  /\ UNCHANGED <<state, partial_intent, messages, preview_cache, bundle,
                 answered, builds, served>>

TurnStep(r) == \/ SendMessage(r) \/ LLMReply(r) \/ LLMFail(r)
               \/ WritebackSelect(r) \/ WritebackUpdate(r)
PreviewStep(r) == PreviewHit(r) \/ PreviewMiss(r) \/ PreviewStore(r)
GenerateStep(r) == \/ GenerateRead(r) \/ GenerateFiles(r) \/ GenerateRaises(r)
                   \/ GenerateFinish(r)

Next == \/ \E r \in Requests : \/ TurnStep(r) \/ PreviewStep(r) \/ GenerateStep(r)
                               \/ Raises(r)
        \/ Crash

Spec == Init /\ [][Next]_vars

-----------------------------------------------------------------------------
(* Every variable has its type.                                            *)
TypeOK ==
  /\ state \in States
  /\ partial_intent \in Intents
  /\ messages \in Seq(Updates)
  /\ req \in [Requests -> Request]
  /\ \A file \in DOMAIN artifacts : artifacts[file] \in Intents
  /\ bundle \in Intents \union {None}
  /\ answered \in Nat /\ builds \in Nat

(* A session is ELICITING only while a required field is missing, however  *)
(* turns and generations interleave: each writeback puts the state and the *)
(* intent it was computed with into the row together.                      *)
ElicitingMeansIncomplete ==
  state = "eliciting" => ~IsComplete(partial_intent)

(* Files are only ever generated from a complete intent, whatever turns    *)
(* land between the completeness check and the writing.                    *)
ArtifactsComeFromCompleteIntents ==
  \A file \in DOMAIN artifacts : IsComplete(artifacts[file])

(* The strengthening of the two above that every step preserves: a turn    *)
(* under way holds a matching state and intent, and a generation under way *)
(* holds a complete intent.                                                *)
RequestsHoldConsistentPairs ==
  \A r \in Requests :
    /\ req[r].pc \in {"llm", "select", "update"} /\ req[r].state = "eliciting"
         => ~IsComplete(req[r].intent)
    /\ req[r].pc = "files" => IsComplete(req[r].intent)

(* A preview is built from the intent its request read, also when it comes *)
(* from the row's cache.                                                   *)
ServedPreviewMatchesIntent == \A p \in served : p.from = p.asked

(* The intent is what the messages in the row add up to: each field has    *)
(* the value that the last message to name it gave it.                     *)
MessagesAndIntentInSync ==
  \A f \in Fields :
    LET named == {i \in DOMAIN messages : messages[i][f] # Keep}
    IN  \/ named = {} /\ partial_intent[f] = None
        \/ \E last \in named : /\ \A i \in named : i <= last
                              /\ partial_intent[f] = messages[last][f]

(* The files of the last generation that answered 200 stay those of its    *)
(* intent, audit record included: a turn, a generation that raises half-   *)
(* way, an update_state that fails or a stop never leaves other files in   *)
(* their place.  (The directory may hold more files, of generations that   *)
(* answered an error.)                                                     *)
AnsweredBundleStays ==
  bundle # None =>
    \A i \in DOMAIN WriteOrder(bundle) :
      LET file == WriteOrder(bundle)[i]
      IN  file \in DOMAIN artifacts /\ artifacts[file] = bundle

(* With one request at a time the session is the abstract conversation.    *)
Conversation == INSTANCE CanvasConversation
                  WITH intent <- partial_intent, turns <- Len(messages)
ConversationSpec == Conversation!Spec
=============================================================================
