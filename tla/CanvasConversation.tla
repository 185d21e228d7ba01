------------------------- MODULE CanvasConversation -------------------------
(***************************************************************************)
(* What a Canvas session promises its operator, with every turn and every  *)
(* generation taken in one step: the conversation only moves forward, each *)
(* answered turn merges its update into the intent the previous turns      *)
(* left, no turn is answered beyond the cap or after the end, and a        *)
(* generation ends the session on a complete intent.                       *)
(* CanvasSession is the detailed system.                                   *)
(***************************************************************************)
EXTENDS Naturals, CanvasIntent

CONSTANTS MaxConversationTurns    \* canvas_settings.max_conversation_turns

VARIABLES state,                  \* ELICITING, CONFIRMING or COMPLETE
          intent,                 \* the partial intent
          turns                   \* user turns answered so far

conversationVars == <<state, intent, turns>>

Init == state = "eliciting" /\ intent = EmptyIntent /\ turns = 0

(***************************************************************************)
(* One operator message is answered.  The driver never moves a session     *)
(* back, and leaves ELICITING exactly when the intent becomes complete.    *)
(***************************************************************************)
Turn ==
  /\ state # "complete" /\ turns < MaxConversationTurns
  /\ turns' = turns + 1
  /\ \E update \in Updates : intent' = Merge(intent, update)
  /\ \/ state' = "eliciting" /\ state = "eliciting" /\ ~IsComplete(intent')
     \/ state' = "confirming" /\ (state = "eliciting" => IsComplete(intent'))
     \/ state' = "complete" /\ (state = "eliciting" => IsComplete(intent'))

Generate == IsComplete(intent) /\ state' = "complete" /\ UNCHANGED <<intent, turns>>

Next == Turn \/ Generate

Spec == Init /\ [][Next]_conversationVars
=============================================================================
