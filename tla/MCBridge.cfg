CONSTANTS
  TelegramMax = 3
  MaxMsgs = 1
  Tools = {a}
  MaxUses = 1
  MaxFaults = 0
  HistCap = 2
  Replies <- MCReplies
  ErrorText <- MCErrorText
  Verbosity = "minimal"
  Pinned = TRUE
  BotIds = {"bot"}
  Tokens = {"t1", "t2"}
  Chats = {"chat"}
  Redacted = "***"
  ThisBot = "bot"
  ThisChat = "chat"
  FirstConfig <- MCFirstConfig
  Calls <- MCCalls
  MaxCalls = 2
  MaxCrashes = 1
SPECIFICATION Spec
INVARIANTS TypeOK
PROPERTIES RunningCatchesUp DeletedBotFallsSilent ServesConfig
CHECK_DEADLOCK FALSE
