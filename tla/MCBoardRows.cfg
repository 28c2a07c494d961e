SPECIFICATION RowsSpec
VIEW RowsView
CHECK_DEADLOCK FALSE
CONSTANTS
  POSITION_STEP = 2
  MIN_POSITION <- OneBelowZero
  MAX_POSITION = 10
  Member = {1, 2}
  Owner = 1
  Card = {1, 2, 3}
  Group = {11}
  Column = {21, 22}
  ActionItem = {31}
  DefaultColumn = {21}
  DEFAULT_VOTE_LIMIT = 1
  MAX_VOTE_LIMIT = 2
  MAX_BOARD_COLUMNS = 2
  BOARD_CARD_LIMIT = 3
  MAX_GROUP_CARDS = 3
  MAX_BOARD_ACTION_ITEMS = 1
  MAX_REVISION = 1000000
INVARIANTS QuotaRespected ReferencesResolve OffersHold
PROPERTY ChangesAllowed
