SPECIFICATION Spec
CONSTANTS
  Fields = {"aesthetic_mood", "primary_entity"}
  Values = {v1, v2}
  None = None
  Keep = Keep
  Requests = {r1}
  MaxConversationTurns = 3
  MaxAnswered = 4
  MaxBuilds = 0
  MayCrash = TRUE
INVARIANTS
  MessagesAndIntentInSync
  
PROPERTIES
  ConversationSpec
CHECK_DEADLOCK FALSE
