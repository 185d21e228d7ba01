SPECIFICATION Spec
CONSTANTS
  Fields = {"aesthetic_mood", "primary_entity"}
  Values = {v1}
  None = None
  Keep = Keep
  Requests = {r1, r2}
  MaxConversationTurns = 2
  MaxAnswered = 3
  MaxBuilds = 0
  MayCrash = FALSE
INVARIANTS
  MessagesAndIntentInSync
CHECK_DEADLOCK FALSE
