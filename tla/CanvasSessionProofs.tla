-------------------------- MODULE CanvasSessionProofs --------------------------
(***************************************************************************)
(* For any number of requests, any required fields and any values: the     *)
(* session row's state and intent never disagree about elicitation,        *)
(* artifacts only come from complete intents, and a preview shows the      *)
(* intent it was asked for.  With one request at a time the session        *)
(* implements the abstract conversation, its intent is what its messages   *)
(* add up to, and the files of an answered generation stay.                *)
(***************************************************************************)
EXTENDS CanvasSession, TLAPS

USE IntentAssumption, CanvasAssumption

(* Merging an update into an intent gives an intent.                       *)
LEMMA MergeType ==
  ASSUME NEW intent \in Intents, NEW update \in Updates
  PROVE  Merge(intent, update) \in Intents
BY DEF Merge, Intents, Updates

(* The idle request is a request.                                          *)
LEMMA IdleType == Idle \in Request /\ Idle.pc = "idle"
BY DEF Idle, Request, Phases, States, EmptyIntent, Intents, NoUpdate, Updates

(* Writing files of a typed intent keeps the output directory typed, and   *)
(* every file still comes from that intent or from where it came before.   *)
LEMMA WriteFilesOrigin ==
  ASSUME NEW intent, NEW n, artifacts' = WriteFiles(intent, n),
         NEW file \in DOMAIN artifacts'
  PROVE  artifacts'[file] = intent
         \/ (file \in DOMAIN artifacts /\ artifacts'[file] = artifacts[file])
BY DEF WriteFiles

(* Every step keeps every variable in its type.                            *)
LEMMA TypeStep == TypeOK /\ [Next]_vars => TypeOK'
<1> SUFFICES ASSUME TypeOK, [Next]_vars PROVE TypeOK'
  OBVIOUS
<1> USE DEF TypeOK
<1>1. ASSUME NEW r \in Requests, SendMessage(r) PROVE TypeOK'
  <2>1. PICK affirm \in BOOLEAN :
          LET confirms == affirm /\ state = "confirming"
          IN  req' = [req EXCEPT ![r] =
             [Idle EXCEPT !.pc = IF confirms THEN "select" ELSE "llm",
                          !.state = IF confirms THEN "complete" ELSE state,
                          !.intent = partial_intent]]
    BY <1>1 DEF SendMessage
  <2>2. req' \in [Requests -> Request]
    BY <2>1, IdleType DEF Request, Phases, States
  <2> QED BY <1>1, <2>2 DEF SendMessage
<1>2. ASSUME NEW r \in Requests, LLMReply(r) PROVE TypeOK'
  <2>1. PICK update \in Updates, intentComplete \in BOOLEAN :
          req' = [req EXCEPT ![r] =
             [@ EXCEPT !.pc = "select", !.intent = Merge(req[r].intent, update),
                       !.update = update,
                       !.state = NextState(req[r].state,
                                   Merge(req[r].intent, update), intentComplete)]]
    BY <1>2 DEF LLMReply
  <2>2. Merge(req[r].intent, update) \in Intents
    BY MergeType DEF Request
  <2>3. NextState(req[r].state, Merge(req[r].intent, update), intentComplete)
          \in States
    BY DEF NextState, States, Request
  <2> QED BY <1>2, <2>1, <2>2, <2>3 DEF LLMReply, Request, Phases
<1>3. ASSUME NEW r \in Requests, LLMFail(r) PROVE TypeOK'
  BY <1>3 DEF LLMFail, Request, Phases
<1>4. ASSUME NEW r \in Requests, WritebackSelect(r) PROVE TypeOK'
  BY <1>4 DEF WritebackSelect, Request, Phases
<1>5. ASSUME NEW r \in Requests, WritebackUpdate(r) PROVE TypeOK'
  <2>1. messages' \in Seq(Updates)
    BY <1>5 DEF WritebackUpdate, Request
  <2> QED BY <1>5, <2>1, IdleType DEF WritebackUpdate, Request
<1>6. ASSUME NEW r \in Requests, PreviewStep(r) PROVE TypeOK'
  <2>1. CASE PreviewHit(r)
    BY <2>1 DEF PreviewHit
  <2>2. CASE PreviewMiss(r)
    <3>1. req' = [req EXCEPT ![r] =
                    [Idle EXCEPT !.pc = "preview", !.intent = partial_intent]]
      BY <2>2 DEF PreviewMiss
    <3>2. req' \in [Requests -> Request]
      BY <3>1, IdleType DEF Request, Phases
    <3> QED BY <2>2, <3>2 DEF PreviewMiss
  <2>3. CASE PreviewStore(r)
    BY <2>3, IdleType DEF PreviewStore
  <2> QED BY <1>6, <2>1, <2>2, <2>3 DEF PreviewStep
<1>7. ASSUME NEW r \in Requests, GenerateRead(r) PROVE TypeOK'
  BY <1>7, IdleType DEF GenerateRead, Request, Phases
<1>8. ASSUME NEW r \in Requests, GenerateFiles(r) PROVE TypeOK'
  <2>1. req' \in [Requests -> Request]
    BY <1>8 DEF GenerateFiles, Request, Phases
  <2>2. \A file \in DOMAIN artifacts' : artifacts'[file] \in Intents
    <3> DEFINE intent == req[r].intent
               n      == Len(WriteOrder(intent))
    <3>1. artifacts' = WriteFiles(intent, n)
      BY <1>8 DEF GenerateFiles
    <3>2. intent \in Intents
      BY DEF Request
    <3> HIDE DEF intent, n
    <3>3. ASSUME NEW file \in DOMAIN artifacts' PROVE artifacts'[file] \in Intents
      <4>1. \/ WriteFiles(intent, n)[file] = intent
            \/ /\ file \in DOMAIN artifacts
               /\ WriteFiles(intent, n)[file] = artifacts[file]
        BY <3>1, WriteFilesOrigin
      <4> QED BY <3>1, <3>2, <4>1
    <3> QED BY <3>3
  <2> QED BY <1>8, <2>1, <2>2 DEF GenerateFiles
<1>9. ASSUME NEW r \in Requests, GenerateFinish(r) PROVE TypeOK'
  <2>1. req[r].intent \in Intents
    BY DEF Request
  <2>2. bundle' \in Intents \union {None} /\ state' \in States
    BY <1>9, <2>1 DEF GenerateFinish, States
  <2> QED BY <1>9, <2>2, IdleType DEF GenerateFinish
<1>12. ASSUME NEW r \in Requests, GenerateRaises(r) PROVE TypeOK'
  <2>1. req' \in [Requests -> Request]
    BY <1>12, IdleType DEF GenerateRaises
  <2>2. PICK n : artifacts' = WriteFiles(req[r].intent, n)
    BY <1>12 DEF GenerateRaises
  <2>3. \A file \in DOMAIN artifacts' : artifacts'[file] \in Intents
    BY <2>2, WriteFilesOrigin DEF Request
  <2> QED BY <1>12, <2>1, <2>3 DEF GenerateRaises
<1>13. ASSUME NEW r \in Requests, Raises(r) PROVE TypeOK'
  BY <1>13, IdleType DEF Raises
<1>10. ASSUME Crash PROVE TypeOK'
  <2>1. req' \in [Requests -> Request]
    BY <1>10, IdleType DEF Crash
  <2>2. \A file \in DOMAIN artifacts' : artifacts'[file] \in Intents
    <3>1. CASE UNCHANGED artifacts
      BY <3>1
    <3>2. CASE \E r \in Requests, n \in 1..3 :
                 req[r].pc = "files" /\ artifacts' = WriteFiles(req[r].intent, n)
      BY <3>2, WriteFilesOrigin DEF Request
    <3> QED BY <1>10, <3>1, <3>2 DEF Crash
  <2> QED BY <1>10, <2>1, <2>2 DEF Crash
<1>11. ASSUME UNCHANGED vars PROVE TypeOK'
  BY <1>11 DEF vars
<1> QED
  BY <1>1, <1>2, <1>3, <1>4, <1>5, <1>6, <1>7, <1>8, <1>9, <1>10, <1>11,
     <1>12, <1>13
     DEF Next, TurnStep, GenerateStep

(* Every reachable state is well typed.                                    *)
THEOREM SessionTypeOK == Spec => []TypeOK
<1>1. Init => TypeOK
  BY IdleType DEF Init, TypeOK, States, EmptyIntent, Intents
<1> QED BY <1>1, TypeStep, PTL DEF Spec

-----------------------------------------------------------------------------
(* The inductive invariant: the row's state and intent agree, every turn   *)
(* and generation under way holds an agreeing pair, and so do the files.   *)
SessionInv ==
  /\ ElicitingMeansIncomplete
  /\ RequestsHoldConsistentPairs
  /\ ArtifactsComeFromCompleteIntents

(* The driver stays in ELICITING only with an incomplete intent.           *)
LEMMA NextStateEliciting ==
  ASSUME NEW current, NEW intent, NEW done \in BOOLEAN,
         NextState(current, intent, done) = "eliciting"
  PROVE  current = "eliciting" /\ ~IsComplete(intent)
BY DEF NextState

(* A step of a message turn preserves the inductive invariant.             *)
LEMMA TurnPreserves ==
  ASSUME TypeOK, SessionInv, NEW r \in Requests, TurnStep(r)
  PROVE  SessionInv'
<1> USE DEF SessionInv, TypeOK
<1>1. CASE SendMessage(r)
  <2>1. PICK affirm \in BOOLEAN :
          LET confirms == affirm /\ state = "confirming"
          IN  req' = [req EXCEPT ![r] =
             [Idle EXCEPT !.pc = IF confirms THEN "select" ELSE "llm",
                          !.state = IF confirms THEN "complete" ELSE state,
                          !.intent = partial_intent]]
    BY <1>1 DEF SendMessage
  <2>2. RequestsHoldConsistentPairs'
    BY <2>1 DEF RequestsHoldConsistentPairs, ElicitingMeansIncomplete, Idle
  <2> QED BY <1>1, <2>2
          DEF SendMessage, ElicitingMeansIncomplete, ArtifactsComeFromCompleteIntents
<1>2. CASE LLMReply(r)
  <2>1. PICK update \in Updates, intentComplete \in BOOLEAN :
          req' = [req EXCEPT ![r] =
             [@ EXCEPT !.pc = "select", !.intent = Merge(req[r].intent, update),
                       !.update = update,
                       !.state = NextState(req[r].state,
                                   Merge(req[r].intent, update), intentComplete)]]
    BY <1>2 DEF LLMReply
  <2>2. RequestsHoldConsistentPairs'
    BY <2>1, NextStateEliciting DEF RequestsHoldConsistentPairs, Request
  <2> QED BY <1>2, <2>2
          DEF LLMReply, ElicitingMeansIncomplete, ArtifactsComeFromCompleteIntents
<1>3. CASE LLMFail(r)
  <2>1. RequestsHoldConsistentPairs'
    BY <1>3 DEF LLMFail, RequestsHoldConsistentPairs, Request
  <2> QED BY <1>3, <2>1
          DEF LLMFail, ElicitingMeansIncomplete, ArtifactsComeFromCompleteIntents
<1>4. CASE WritebackSelect(r)
  <2>1. RequestsHoldConsistentPairs'
    BY <1>4 DEF WritebackSelect, RequestsHoldConsistentPairs, Request
  <2> QED BY <1>4, <2>1
          DEF WritebackSelect, ElicitingMeansIncomplete, ArtifactsComeFromCompleteIntents
<1>5. CASE WritebackUpdate(r)
  <2>1. ElicitingMeansIncomplete'
    BY <1>5 DEF WritebackUpdate, ElicitingMeansIncomplete, RequestsHoldConsistentPairs
  <2>2. RequestsHoldConsistentPairs'
    BY <1>5 DEF WritebackUpdate, RequestsHoldConsistentPairs, Idle
  <2> QED BY <1>5, <2>1, <2>2 DEF WritebackUpdate, ArtifactsComeFromCompleteIntents
<1> QED BY <1>1, <1>2, <1>3, <1>4, <1>5 DEF TurnStep

(* A preview preserves it: it writes neither state nor intent.             *)
LEMMA PreviewPreserves ==
  ASSUME TypeOK, SessionInv, NEW r \in Requests, PreviewStep(r)
  PROVE  SessionInv'
<1> USE DEF SessionInv, TypeOK, ElicitingMeansIncomplete,
            ArtifactsComeFromCompleteIntents, RequestsHoldConsistentPairs
<1>1. CASE PreviewHit(r)   BY <1>1 DEF PreviewHit
<1>2. CASE PreviewMiss(r)  BY <1>2 DEF PreviewMiss, Idle
<1>3. CASE PreviewStore(r) BY <1>3 DEF PreviewStore, Idle
<1> QED BY <1>1, <1>2, <1>3 DEF PreviewStep

(* A generation preserves it: it writes the files of the intent it found   *)
(* complete, and COMPLETE is not ELICITING.                                *)
LEMMA GeneratePreserves ==
  ASSUME TypeOK, SessionInv, NEW r \in Requests, GenerateStep(r)
  PROVE  SessionInv'
<1> USE DEF SessionInv, TypeOK
<1>1. CASE GenerateRead(r)
  BY <1>1 DEF GenerateRead, Idle, ElicitingMeansIncomplete,
              ArtifactsComeFromCompleteIntents, RequestsHoldConsistentPairs
<1>2. CASE GenerateFiles(r)
  <2>1. ArtifactsComeFromCompleteIntents'
    BY <1>2, WriteFilesOrigin
       DEF GenerateFiles, ArtifactsComeFromCompleteIntents, RequestsHoldConsistentPairs
  <2> QED BY <1>2, <2>1
          DEF GenerateFiles, ElicitingMeansIncomplete, RequestsHoldConsistentPairs, Request
<1>3. CASE GenerateFinish(r)
  BY <1>3 DEF GenerateFinish, Idle, ElicitingMeansIncomplete,
              ArtifactsComeFromCompleteIntents, RequestsHoldConsistentPairs
<1>4. CASE GenerateRaises(r)
  <2>1. PICK n : artifacts' = WriteFiles(req[r].intent, n)
    BY <1>4 DEF GenerateRaises
  <2>2. ArtifactsComeFromCompleteIntents'
    BY <1>4, <2>1, WriteFilesOrigin
       DEF GenerateRaises, ArtifactsComeFromCompleteIntents, RequestsHoldConsistentPairs
  <2> QED BY <1>4, <2>2
          DEF GenerateRaises, Idle, ElicitingMeansIncomplete, RequestsHoldConsistentPairs
<1> QED BY <1>1, <1>2, <1>3, <1>4 DEF GenerateStep

(* A statement that raises preserves it: the request ends, the row stays.  *)
LEMMA RaisesPreserves ==
  ASSUME TypeOK, SessionInv, NEW r \in Requests, Raises(r)
  PROVE  SessionInv'
BY DEF SessionInv, TypeOK, Raises, Idle, ElicitingMeansIncomplete,
       ArtifactsComeFromCompleteIntents, RequestsHoldConsistentPairs

(* A crash preserves it, also in the middle of a generation's files.       *)
LEMMA CrashPreserves ==
  ASSUME TypeOK, SessionInv, Crash
  PROVE  SessionInv'
<1> USE DEF SessionInv
<1>1. ArtifactsComeFromCompleteIntents'
  <2>1. CASE UNCHANGED artifacts
    BY <2>1 DEF ArtifactsComeFromCompleteIntents
  <2>2. CASE \E r \in Requests, n \in 1..3 :
               req[r].pc = "files" /\ artifacts' = WriteFiles(req[r].intent, n)
    BY <2>2, WriteFilesOrigin
       DEF ArtifactsComeFromCompleteIntents, RequestsHoldConsistentPairs
  <2> QED BY <2>1, <2>2 DEF Crash
<1>2. RequestsHoldConsistentPairs'
  BY IdleType DEF Crash, RequestsHoldConsistentPairs, Idle
<1> QED BY <1>1, <1>2 DEF Crash, ElicitingMeansIncomplete

(* The inductive invariant holds in every reachable state.                 *)
LEMMA SessionInvHolds == Spec => []SessionInv
<1>1. Init => SessionInv
  BY DEF Init, SessionInv, ElicitingMeansIncomplete, RequestsHoldConsistentPairs,
         ArtifactsComeFromCompleteIntents, IsComplete, EmptyIntent, Idle
<1>2. TypeOK /\ SessionInv /\ [Next]_vars => SessionInv'
  <2> SUFFICES ASSUME TypeOK, SessionInv, [Next]_vars PROVE SessionInv'
    OBVIOUS
  <2>1. CASE UNCHANGED vars
    BY <2>1 DEF vars, SessionInv, ElicitingMeansIncomplete,
                RequestsHoldConsistentPairs, ArtifactsComeFromCompleteIntents
  <2> QED BY <2>1, TurnPreserves, PreviewPreserves, GeneratePreserves,
             RaisesPreserves, CrashPreserves DEF Next
<1> QED BY <1>1, <1>2, SessionTypeOK, PTL DEF Spec

(* However turns, generations, previews and crashes interleave, a session  *)
(* is ELICITING only while a required field is missing.                    *)
THEOREM ElicitingMeansIncompleteHolds == Spec => []ElicitingMeansIncomplete
BY SessionInvHolds, PTL DEF SessionInv

(* However they interleave, files only come from complete intents.         *)
THEOREM ArtifactsComplete == Spec => []ArtifactsComeFromCompleteIntents
BY SessionInvHolds, PTL DEF SessionInv

-----------------------------------------------------------------------------
(* What a preview is cached under is the intent it was built from.         *)
PreviewInv ==
  /\ ServedPreviewMatchesIntent
  /\ preview_cache = NoPreview \/ preview_cache.key = preview_cache.from

LEMMA PreviewInvStep == TypeOK /\ PreviewInv /\ [Next]_vars => PreviewInv'
<1> SUFFICES ASSUME TypeOK, PreviewInv, [Next]_vars PROVE PreviewInv'
  OBVIOUS
<1>1. CASE UNCHANGED <<preview_cache, served>>
  BY <1>1 DEF PreviewInv, ServedPreviewMatchesIntent
<1>2. ASSUME NEW r \in Requests, PreviewHit(r) PROVE PreviewInv'
  <2>1. preview_cache.key = partial_intent /\ partial_intent \in Intents
    BY <1>2 DEF PreviewHit, CacheKey, TypeOK
  <2>2. preview_cache # NoPreview
    BY <2>1 DEF NoPreview
  <2>3. preview_cache.from = partial_intent
    BY <2>1, <2>2 DEF PreviewInv
  <2>4. served' = served \union {[asked |-> partial_intent, from |-> partial_intent]}
    BY <1>2, <2>3 DEF PreviewHit, Serve
  <2> QED BY <1>2, <2>4 DEF PreviewInv, ServedPreviewMatchesIntent, PreviewHit
<1>3. ASSUME NEW r \in Requests, PreviewStore(r) PROVE PreviewInv'
  <2>1. /\ preview_cache' = [key |-> req[r].intent, from |-> req[r].intent]
        /\ served' = served \union {[asked |-> req[r].intent, from |-> req[r].intent]}
    BY <1>3 DEF PreviewStore, Serve, CacheKey
  <2>2. preview_cache'.key = preview_cache'.from
    BY <2>1
  <2>3. ServedPreviewMatchesIntent'
    BY <2>1 DEF PreviewInv, ServedPreviewMatchesIntent
  <2> QED BY <2>2, <2>3 DEF PreviewInv
<1>4. ASSUME NEW r \in Requests, TurnStep(r) \/ PreviewMiss(r) \/ GenerateStep(r) \/ Raises(r)
      PROVE  UNCHANGED <<preview_cache, served>>
  BY <1>4 DEF TurnStep, SendMessage, LLMReply, LLMFail, WritebackSelect, WritebackUpdate,
              PreviewMiss, GenerateStep, GenerateRead, GenerateFiles, GenerateRaises,
              GenerateFinish, Raises
<1>5. Crash \/ UNCHANGED vars => UNCHANGED <<preview_cache, served>>
  BY DEF Crash, vars
<1> QED BY <1>1, <1>2, <1>3, <1>4, <1>5 DEF Next, PreviewStep

(* A preview that was served was built from the intent its request read.   *)
THEOREM PreviewsMatchIntents == Spec => []ServedPreviewMatchesIntent
<1>1. Init => PreviewInv
  BY DEF Init, PreviewInv, ServedPreviewMatchesIntent
<1>2. PreviewInv => ServedPreviewMatchesIntent
  BY DEF PreviewInv
<1> QED BY <1>1, <1>2, PreviewInvStep, SessionTypeOK, PTL DEF Spec

-----------------------------------------------------------------------------
(* One request at a time.                                                  *)

OneRequest == \E r : Requests = {r}

(* What a request under way holds is still what the row holds, and the     *)
(* turn it will write back is one the abstract conversation can take.      *)
Serial ==
  \A r \in Requests :
    /\ req[r].pc = "llm" =>
         req[r].state = state /\ req[r].intent = partial_intent /\ req[r].update = NoUpdate
    /\ req[r].pc \in {"llm", "select", "update"} => TurnAllowed
    /\ req[r].pc \in {"select", "update"} =>
         /\ req[r].intent = Merge(partial_intent, req[r].update)
         /\ req[r].state = "eliciting" => state = "eliciting" /\ ~IsComplete(req[r].intent)
         /\ req[r].state # "eliciting" /\ state = "eliciting" => IsComplete(req[r].intent)
    /\ req[r].pc = "update" => req[r].log = messages
    /\ req[r].pc \in {"files", "finish"} =>
         req[r].intent = partial_intent /\ IsComplete(partial_intent)

LEMMA MergeNothing == ASSUME NEW intent \in Intents PROVE Merge(intent, NoUpdate) = intent
BY DEF Merge, NoUpdate, Intents

(* Leaving ELICITING takes a complete intent.                              *)
LEMMA NextStateLeaves ==
  ASSUME NEW intent, NEW done \in BOOLEAN, NextState("eliciting", intent, done) # "eliciting"
  PROVE  IsComplete(intent)
BY DEF NextState

LEMMA SerialTurn ==
  ASSUME TypeOK, ElicitingMeansIncomplete, Serial, NEW r, Requests = {r}, TurnStep(r)
  PROVE  Serial'
<1> DEFINE q == req[r]
<1>1. q \in Request /\ partial_intent \in Intents /\ req \in [Requests -> Request]
  BY DEF TypeOK
<1>2. CASE SendMessage(r)
  <2>1. PICK affirm \in BOOLEAN :
          LET confirms == affirm /\ state = "confirming"
          IN  req' = [req EXCEPT ![r] =
             [Idle EXCEPT !.pc = IF confirms THEN "select" ELSE "llm",
                          !.state = IF confirms THEN "complete" ELSE state,
                          !.intent = partial_intent]]
    BY <1>2 DEF SendMessage
  <2>2. /\ req'[r].intent = partial_intent /\ req'[r].update = NoUpdate
        /\ \/ req'[r].pc = "llm" /\ req'[r].state = state
           \/ req'[r].pc = "select" /\ req'[r].state = "complete" /\ state = "confirming"
    BY <1>1, <2>1 DEF Idle
  <2>3. TurnAllowed /\ UNCHANGED <<state, partial_intent, messages>>
    BY <1>2 DEF SendMessage
  <2> QED BY <1>1, <2>2, <2>3, MergeNothing DEF Serial, TurnAllowed
<1>3. CASE LLMReply(r)
  <2>1. PICK update \in Updates, done \in BOOLEAN :
          req' = [req EXCEPT ![r] =
             [@ EXCEPT !.pc = "select", !.intent = Merge(req[r].intent, update),
                       !.update = update,
                       !.state = NextState(req[r].state, Merge(req[r].intent, update), done)]]
    BY <1>3 DEF LLMReply
  <2>2. /\ req'[r].intent = Merge(q.intent, update) /\ req'[r].update = update
        /\ req'[r].pc = "select" /\ req'[r].state = NextState(q.state, Merge(q.intent, update), done)
    BY <1>1, <2>1 DEF Request
  <2>3. q.state = state /\ q.intent = partial_intent /\ TurnAllowed
    BY <1>3 DEF LLMReply, Serial
  <2>4. UNCHANGED <<state, partial_intent, messages>>
    BY <1>3 DEF LLMReply
  <2>5. req'[r].state = "eliciting" => state = "eliciting" /\ ~IsComplete(req'[r].intent)
    BY <2>2, <2>3, NextStateEliciting
  <2>6. req'[r].state # "eliciting" /\ state = "eliciting" => IsComplete(req'[r].intent)
    BY <2>2, <2>3, NextStateLeaves
  <2> QED BY <2>2, <2>3, <2>4, <2>5, <2>6 DEF Serial, TurnAllowed
<1>4. CASE LLMFail(r)
  <2>1. /\ req'[r].pc = "select" /\ req'[r].state = q.state /\ req'[r].intent = q.intent
        /\ req'[r].update = q.update
    BY <1>1, <1>4 DEF LLMFail, Request
  <2>2. q.state = state /\ q.intent = partial_intent /\ q.update = NoUpdate /\ TurnAllowed
    BY <1>4 DEF LLMFail, Serial
  <2>3. UNCHANGED <<state, partial_intent, messages>>
    BY <1>4 DEF LLMFail
  <2>4. state = "eliciting" => ~IsComplete(partial_intent)
    BY DEF ElicitingMeansIncomplete
  <2>5. req'[r].intent = Merge(partial_intent, req'[r].update)
    BY <1>1, <2>1, <2>2, MergeNothing
  <2> QED BY <2>1, <2>2, <2>3, <2>4, <2>5 DEF Serial, TurnAllowed
<1>5. CASE WritebackSelect(r)
  <2>1. /\ req'[r].pc = "update" /\ req'[r].state = q.state /\ req'[r].intent = q.intent
        /\ req'[r].update = q.update /\ req'[r].log = messages
    BY <1>1, <1>5 DEF WritebackSelect, Request
  <2>2. q.pc = "select" /\ UNCHANGED <<state, partial_intent, messages>>
    BY <1>5 DEF WritebackSelect
  <2> QED BY <2>1, <2>2 DEF Serial, TurnAllowed
<1>6. CASE WritebackUpdate(r)
  <2>1. req'[r].pc = "idle"
    BY <1>1, <1>6, IdleType DEF WritebackUpdate
  <2> QED BY <2>1 DEF Serial
<1> QED BY <1>2, <1>3, <1>4, <1>5, <1>6 DEF TurnStep

LEMMA SerialOther ==
  ASSUME TypeOK, Serial, NEW r, Requests = {r}, PreviewStep(r) \/ GenerateStep(r) \/ Raises(r) \/ Crash
  PROVE  Serial'
<1>1. req \in [Requests -> Request]
  BY DEF TypeOK
<1>2. CASE PreviewHit(r)
  BY <1>2 DEF PreviewHit, Serial, TurnAllowed
<1>3. CASE PreviewMiss(r)
  <2>1. req'[r].pc = "preview"
    BY <1>1, <1>3 DEF PreviewMiss, Idle
  <2> QED BY <2>1 DEF Serial
<1>4. CASE \/ PreviewStore(r) \/ GenerateFinish(r) \/ GenerateRaises(r)
           \/ Raises(r) \/ Crash
  <2>1. req'[r].pc = "idle"
    BY <1>1, <1>4, IdleType DEF PreviewStore, GenerateFinish, GenerateRaises, Raises, Crash
  <2> QED BY <2>1 DEF Serial
<1>5. CASE GenerateRead(r)
  <2>1. req'[r].pc = "files" /\ req'[r].intent = partial_intent
    BY <1>1, <1>5 DEF GenerateRead, Idle
  <2> QED BY <1>5, <2>1 DEF GenerateRead, Serial
<1>6. CASE GenerateFiles(r)
  <2>1. req'[r].pc = "finish" /\ req'[r].intent = req[r].intent
    BY <1>1, <1>6 DEF GenerateFiles, Request
  <2> QED BY <1>6, <2>1 DEF GenerateFiles, Serial
<1> QED BY <1>2, <1>3, <1>4, <1>5, <1>6 DEF PreviewStep, GenerateStep

LEMMA SerialHolds == ASSUME OneRequest PROVE Spec => []Serial
<1>1. Init => Serial
  BY IdleType DEF Init, Serial
<1>2. TypeOK /\ ElicitingMeansIncomplete /\ Serial /\ [Next]_vars => Serial'
  <2> SUFFICES ASSUME TypeOK, ElicitingMeansIncomplete, Serial, [Next]_vars PROVE Serial'
    OBVIOUS
  <2>1. PICK r : Requests = {r}
    BY DEF OneRequest
  <2>2. CASE UNCHANGED vars
    BY <2>2 DEF vars, Serial, TurnAllowed
  <2> QED BY <2>1, <2>2, SerialTurn, SerialOther DEF Next
<1> QED BY <1>1, <1>2, SessionTypeOK, ElicitingMeansIncompleteHolds, PTL DEF Spec

(* One request at a time implements the abstract conversation, also with   *)
(* previews, failures and when the process stops in between: a writeback is *)
(* a turn, the end of a generation is a generation, all else is a stutter. *)
THEOREM OneRequestImplementsConversation == ASSUME OneRequest PROVE Spec => ConversationSpec
<1>1. Init => Conversation!Init
  BY DEF Init, Conversation!Init, Conversation!EmptyIntent, EmptyIntent
<1>2. TypeOK /\ Serial /\ [Next]_vars => [Conversation!Next]_(Conversation!conversationVars)
  <2> SUFFICES ASSUME TypeOK, Serial, [Next]_vars
               PROVE  Conversation!Next \/ UNCHANGED <<state, partial_intent, Len(messages)>>
    BY DEF Conversation!conversationVars
  <2>1. ASSUME NEW r \in Requests, WritebackUpdate(r) PROVE Conversation!Turn
    <3>1. /\ messages' = Append(messages, req[r].update) /\ state' = req[r].state
          /\ partial_intent' = Merge(partial_intent, req[r].update)
          /\ TurnAllowed
      BY <2>1 DEF WritebackUpdate, Serial
    <3>2. req[r].update \in Updates /\ req[r].state \in States /\ messages \in Seq(Updates)
      BY DEF TypeOK, Request
    <3>3. Len(messages') = Len(messages) + 1
      BY <3>1, <3>2
    <3>4. /\ state' = "eliciting" => state = "eliciting" /\ ~IsComplete(partial_intent')
          /\ state' # "eliciting" /\ state = "eliciting" => IsComplete(partial_intent')
      BY <2>1 DEF WritebackUpdate, Serial
    <3> QED BY <3>1, <3>2, <3>3, <3>4
        DEF Conversation!Turn, Conversation!Updates, Conversation!Merge, Conversation!IsComplete,
            Updates, Merge, IsComplete, States, TurnAllowed
  <2>2. ASSUME NEW r \in Requests, GenerateFinish(r)
        PROVE  Conversation!Generate \/ UNCHANGED <<state, partial_intent, Len(messages)>>
    BY <2>2 DEF GenerateFinish, Serial, Conversation!Generate, Conversation!IsComplete, IsComplete
  <2>3. ASSUME NEW r \in Requests,
               \/ SendMessage(r) \/ LLMReply(r) \/ LLMFail(r) \/ WritebackSelect(r)
               \/ PreviewStep(r) \/ GenerateRead(r) \/ GenerateFiles(r)
               \/ GenerateRaises(r) \/ Raises(r)
        PROVE  UNCHANGED <<state, partial_intent, Len(messages)>>
    BY <2>3 DEF SendMessage, LLMReply, LLMFail, WritebackSelect, PreviewStep, PreviewHit,
                PreviewMiss, PreviewStore, GenerateRead, GenerateFiles, GenerateRaises, Raises
  <2>4. Crash \/ UNCHANGED vars => UNCHANGED <<state, partial_intent, Len(messages)>>
    BY DEF Crash, vars
  <2> QED BY <2>1, <2>2, <2>3, <2>4 DEF Next, TurnStep, GenerateStep, Conversation!Next
<1> QED BY <1>1, <1>2, SerialHolds, SessionTypeOK, PTL DEF Spec, ConversationSpec, Conversation!Spec

(* Appending an update to messages that are in sync with an intent, and    *)
(* merging it into the intent, leaves them in sync.                        *)
InSync(f, log, intent) ==
  LET named == {i \in DOMAIN log : log[i][f] # Keep}
  IN  \/ named = {} /\ intent[f] = None
      \/ \E last \in named : /\ \A i \in named : i <= last
                            /\ intent[f] = log[last][f]

LEMMA AppendInSync ==
  ASSUME NEW f \in Fields, NEW log \in Seq(Updates), NEW intent \in Intents,
         NEW update \in Updates, InSync(f, log, intent)
  PROVE  InSync(f, Append(log, update), Merge(intent, update))
<1> DEFINE longer == Append(log, update)
           n == Len(log) + 1
           named == {i \in DOMAIN log : log[i][f] # Keep}
           more == {i \in DOMAIN longer : longer[i][f] # Keep}
<1>1. /\ DOMAIN log = 1..(n - 1) /\ DOMAIN longer = 1..n /\ n \in Nat \ {0}
      /\ longer[n] = update /\ \A i \in 1..(n - 1) : longer[i] = log[i]
  OBVIOUS
<1>2. Merge(intent, update)[f] = IF update[f] = Keep THEN intent[f] ELSE update[f]
  BY DEF Merge
<1> HIDE DEF longer, n
<1>3. CASE update[f] = Keep
  <2>1. more = named
    BY <1>1, <1>3
  <2>2. \A i \in named : longer[i] = log[i]
    BY <1>1
  <2>3. \/ named = {} /\ intent[f] = None
        \/ \E last \in named : /\ \A i \in named : i <= last
                              /\ intent[f] = log[last][f]
    BY DEF InSync
  <2> HIDE DEF named, more
  <2>4. \/ more = {} /\ Merge(intent, update)[f] = None
        \/ \E last \in more : /\ \A i \in more : i <= last
                             /\ Merge(intent, update)[f] = longer[last][f]
    BY <1>2, <1>3, <2>1, <2>2, <2>3
  <2> QED BY <2>4 DEF InSync, more, longer
<1>4. CASE update[f] # Keep
  <2>1. n \in more /\ \A i \in more : i <= n
    BY <1>1, <1>4
  <2>2. Merge(intent, update)[f] = longer[n][f]
    BY <1>1, <1>2, <1>4
  <2> QED BY <2>1, <2>2 DEF InSync, longer
<1> QED BY <1>3, <1>4

(* With one request at a time no update is lost: the intent is what the    *)
(* messages add up to, across failed model calls and stops.  (Two requests *)
(* at once can lose one.)                                                  *)
THEOREM MessagesAndIntentStayInSync ==
  ASSUME OneRequest PROVE Spec => []MessagesAndIntentInSync
<1>1. Init => MessagesAndIntentInSync
  BY DEF Init, MessagesAndIntentInSync, EmptyIntent
<1>2. TypeOK /\ Serial /\ MessagesAndIntentInSync /\ [Next]_vars => MessagesAndIntentInSync'
  <2> SUFFICES ASSUME TypeOK, Serial, [Next]_vars,
                      \A f \in Fields : InSync(f, messages, partial_intent)
               PROVE  \A f \in Fields : InSync(f, messages', partial_intent')
    BY DEF MessagesAndIntentInSync, InSync
  <2>1. ASSUME NEW r \in Requests, WritebackUpdate(r), NEW f \in Fields
        PROVE  InSync(f, messages', partial_intent')
    <3>1. /\ messages' = Append(messages, req[r].update)
          /\ partial_intent' = Merge(partial_intent, req[r].update)
      BY <2>1 DEF WritebackUpdate, Serial
    <3>2. req[r].update \in Updates /\ messages \in Seq(Updates) /\ partial_intent \in Intents
      BY DEF TypeOK, Request
    <3> QED BY <3>1, <3>2, AppendInSync
  <2>2. ASSUME NEW r \in Requests,
               \/ SendMessage(r) \/ LLMReply(r) \/ LLMFail(r) \/ WritebackSelect(r)
               \/ PreviewStep(r) \/ GenerateStep(r) \/ Raises(r)
        PROVE  UNCHANGED <<messages, partial_intent>>
    BY <2>2 DEF SendMessage, LLMReply, LLMFail, WritebackSelect, PreviewStep, PreviewHit,
                PreviewMiss, PreviewStore, GenerateStep, GenerateRead, GenerateFiles,
                GenerateRaises, GenerateFinish, Raises
  <2>3. Crash \/ UNCHANGED vars => UNCHANGED <<messages, partial_intent>>
    BY DEF Crash, vars
  <2> QED BY <2>1, <2>2, <2>3 DEF Next, TurnStep
<1> QED BY <1>1, <1>2, SerialHolds, SessionTypeOK, PTL DEF Spec

(* The file names of an intent are as many as there are positions, and the *)
(* directory holds all of them once they are all written.                  *)
LEMMA AllFilesWritten ==
  ASSUME NEW intent, artifacts' = WriteFiles(intent, Len(WriteOrder(intent))),
         NEW i \in DOMAIN WriteOrder(intent)
  PROVE  /\ WriteOrder(intent)[i] \in DOMAIN artifacts'
         /\ artifacts'[WriteOrder(intent)[i]] = intent
<1>1. DOMAIN WriteOrder(intent) = 1..Len(WriteOrder(intent))
  BY DEF WriteOrder
<1> QED BY <1>1 DEF WriteFiles

(* Once a generation was answered with 200 the session has ended, the row  *)
(* keeps the intent of the answer, and so do the files.  One under way has *)
(* written the files of the row's intent when it comes to its last step.   *)
Holds(intent) ==
  \A i \in DOMAIN WriteOrder(intent) :
    LET file == WriteOrder(intent)[i]
    IN  file \in DOMAIN artifacts /\ artifacts[file] = intent

BundleInv ==
  /\ bundle # None => state = "complete" /\ bundle = partial_intent /\ Holds(bundle)
  /\ \A r \in Requests : req[r].pc = "finish" => Holds(req[r].intent)

(* Writing some more files of an intent the directory holds changes none.  *)
LEMMA WritingKeeps ==
  ASSUME NEW intent, NEW n, artifacts' = WriteFiles(intent, n), Holds(intent)
  PROVE  Holds(intent)'
BY DEF WriteFiles, Holds, WriteOrder, Audit

LEMMA BundleStep ==
  ASSUME OneRequest
  PROVE  TypeOK /\ Serial /\ BundleInv /\ [Next]_vars => BundleInv'
<1> SUFFICES ASSUME TypeOK, Serial, BundleInv, [Next]_vars PROVE BundleInv'
  OBVIOUS
<1>1. PICK r : Requests = {r}
  BY DEF OneRequest
<1>2. req \in [Requests -> Request]
  BY DEF TypeOK
<1>3. ASSUME UNCHANGED <<state, partial_intent, artifacts, bundle>>,
             req'[r].pc = "finish" => req[r].pc = "finish" /\ req'[r].intent = req[r].intent
      PROVE  BundleInv'
  BY <1>1, <1>3 DEF BundleInv, Holds
<1>4. CASE WritebackUpdate(r)
  <2>1. state # "complete"
    BY <1>1, <1>4 DEF WritebackUpdate, Serial, TurnAllowed
  <2>2. bundle' = None /\ req'[r].pc = "idle"
    BY <1>1, <1>2, <1>4, <2>1, IdleType DEF WritebackUpdate, BundleInv
  <2> QED BY <1>1, <2>2 DEF BundleInv
<1>5. CASE GenerateFiles(r)
  <2>1. /\ req'[r].pc = "finish" /\ req'[r].intent = req[r].intent
        /\ UNCHANGED <<state, partial_intent, bundle>>
    BY <1>1, <1>2, <1>5 DEF GenerateFiles, Request
  <2>2. req[r].intent = partial_intent
    BY <1>1, <1>5 DEF GenerateFiles, Serial
  <2>3. Holds(req[r].intent)'
    BY <1>5, <2>1, AllFilesWritten DEF GenerateFiles, Holds
  <2>4. Holds(partial_intent)'
    BY <2>1, <2>2, <2>3 DEF Holds
  <2> QED BY <1>1, <2>1, <2>3, <2>4 DEF BundleInv, Holds
<1>6. ASSUME NEW n, artifacts' = WriteFiles(req[r].intent, n), req[r].pc = "files",
             req'[r].pc = "idle", UNCHANGED <<state, partial_intent, bundle>>
      PROVE  BundleInv'
  <2>1. req[r].intent = partial_intent
    BY <1>1, <1>6 DEF Serial
  <2>2. Holds(partial_intent) => Holds(partial_intent)'
    BY <1>6, <2>1, WritingKeeps DEF Holds
  <2> QED BY <1>1, <1>6, <2>2 DEF BundleInv, Holds
<1>7. CASE GenerateRaises(r)
  <2>1. req'[r].pc = "idle"
    BY <1>1, <1>2, <1>7, IdleType DEF GenerateRaises
  <2> QED BY <1>6, <1>7, <2>1 DEF GenerateRaises
<1>8. CASE GenerateFinish(r)
  <2>1. req'[r].pc = "idle" /\ UNCHANGED <<partial_intent, artifacts>>
    BY <1>1, <1>2, <1>8, IdleType DEF GenerateFinish
  <2>2. Holds(req[r].intent) /\ req[r].intent = partial_intent
    BY <1>1, <1>8 DEF GenerateFinish, BundleInv, Serial
  <2>3. Holds(partial_intent)'
    BY <2>1, <2>2 DEF Holds
  <2>4. bundle' # None => state' = "complete" /\ bundle' = partial_intent'
    BY <1>8, <2>1, <2>2 DEF GenerateFinish, BundleInv
  <2> QED BY <1>1, <2>1, <2>3, <2>4 DEF BundleInv, Holds
<1>9. CASE Crash
  <2>1. req'[r].pc = "idle" /\ UNCHANGED <<state, partial_intent, bundle>>
    BY <1>1, <1>9, IdleType DEF Crash
  <2>2. CASE UNCHANGED artifacts
    BY <1>3, <2>1, <2>2
  <2>3. CASE \E q \in Requests, n \in 1..3 :
               req[q].pc = "files" /\ artifacts' = WriteFiles(req[q].intent, n)
    BY <1>1, <1>6, <2>1, <2>3
  <2> QED BY <1>9, <2>2, <2>3 DEF Crash
<1>10. CASE \/ SendMessage(r) \/ LLMReply(r) \/ LLMFail(r) \/ WritebackSelect(r)
            \/ PreviewStep(r) \/ GenerateRead(r) \/ Raises(r)
  <2>1. UNCHANGED <<state, partial_intent, artifacts, bundle>>
    BY <1>10 DEF SendMessage, LLMReply, LLMFail, WritebackSelect, PreviewStep, PreviewHit,
                 PreviewMiss, PreviewStore, GenerateRead, Raises
  <2>2. CASE SendMessage(r) \/ LLMReply(r)
    <3>1. req'[r].pc \in {"llm", "select"}
      <4>1. CASE SendMessage(r)
        BY <1>1, <1>2, <4>1 DEF SendMessage, Idle
      <4>2. CASE LLMReply(r)
        BY <1>1, <1>2, <4>2 DEF LLMReply, Request
      <4> QED BY <2>2, <4>1, <4>2
    <3> QED BY <1>3, <2>1, <3>1
  <2>3. CASE LLMFail(r) \/ WritebackSelect(r) \/ PreviewMiss(r) \/ GenerateRead(r)
    <3>1. req'[r].pc \in {"select", "update", "preview", "files"}
      BY <1>1, <1>2, <2>3 DEF LLMFail, WritebackSelect, PreviewMiss, GenerateRead, Idle, Request
    <3> QED BY <1>3, <2>1, <3>1
  <2>4. CASE PreviewStore(r) \/ Raises(r)
    BY <1>1, <1>2, <1>3, <2>1, <2>4, IdleType DEF PreviewStore, Raises
  <2>5. CASE PreviewHit(r)
    BY <1>3, <2>1, <2>5 DEF PreviewHit
  <2> QED BY <1>10, <2>2, <2>3, <2>4, <2>5 DEF PreviewStep
<1>11. CASE UNCHANGED vars
  BY <1>3, <1>11 DEF vars
<1> QED BY <1>1, <1>4, <1>5, <1>7, <1>8, <1>9, <1>10, <1>11
        DEF Next, TurnStep, GenerateStep

(* With one request at a time, whatever fails and however often the        *)
(* process stops, the files of the last generation answered with 200 stay  *)
(* those of its intent.                                                    *)
THEOREM AnsweredBundlesStay == ASSUME OneRequest PROVE Spec => []AnsweredBundleStays
<1>1. Init => BundleInv
  BY IdleType DEF Init, BundleInv
<1>2. BundleInv => AnsweredBundleStays
  BY DEF BundleInv, Holds, AnsweredBundleStays
<1> QED BY <1>1, <1>2, BundleStep, SerialHolds, SessionTypeOK, PTL DEF Spec
=============================================================================
