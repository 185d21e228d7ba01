---------------------------- MODULE CanvasIntent ----------------------------
(***************************************************************************)
(* The CanvasIntent of canvas/models/intent.py: the required fields, when  *)
(* the intent is complete, and how an intent_update merges into it.        *)
(* A value of a field is a member of Values; None is the JSON null an      *)
(* optional field may hold.  Keep marks a field an update does not name.   *)
(***************************************************************************)
CONSTANTS Fields,      \* the required fields that are modelled
          Values,      \* the valid values of a field
          None,        \* not set
          Keep         \* not named by an update

Intents == [Fields -> Values \union {None}]

ASSUME IntentAssumption ==
  /\ None \notin Values /\ Keep \notin Values /\ Keep # None
  /\ Fields # {} /\ None \notin Intents

Updates == [Fields -> Values \union {None, Keep}]

EmptyIntent == [f \in Fields |-> None]
NoUpdate    == [f \in Fields |-> Keep]

IsComplete(intent) == \A f \in Fields : intent[f] # None

Merge_Replaces(intent, update) == update  \* variant: the update is the new intent

(* dict.update: the fields the update names, null included, replace.       *)
Merge(intent, update) ==
  [f \in Fields |-> IF update[f] = Keep THEN intent[f] ELSE update[f]]
=============================================================================
