CONSTANTS
  TelegramMax = 3
  MaxMsgs = 2
  Tools = {a}
  MaxUses = 1
  MaxFaults = 1
  HistCap = 2
  Replies <- MCReplies
  ErrorText <- MCErrorText
  Verbosity = "kind"
  Pinned = TRUE
SPECIFICATION ChatSpec
INVARIANTS SlotMeansBusy ReplyWhole
PROPERTIES KilledAskFreesChat StatusCatchesUp
CHECK_DEADLOCK FALSE
