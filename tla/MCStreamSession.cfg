SPECIFICATION FairSpec
CONSTANT Room = 1
INVARIANTS WholeConversation FreedIdle
PROPERTY BothEnd
CHECK_DEADLOCK FALSE
