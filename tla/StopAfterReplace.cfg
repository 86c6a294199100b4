CONSTANTS
  Chats = {c1, c2}
  FirstChats = {c1}
  NoChat = NoChat
  Acts = 4
SPECIFICATION LifeSpec
CHECK_DEADLOCK FALSE
INVARIANTS StopAfterReplace
