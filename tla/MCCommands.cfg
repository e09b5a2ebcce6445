SPECIFICATION CommandsSpec
CONSTANTS
  h1 = h1
  h2 = h2
  p1 = p1
  p2 = p2
  Placements <- MCPlacements
  Handlers = {h1, h2}
  Processes = {p1, p2}
  Eps = 2
  Amounts = {1, 2}
  MaxAttempts = 2
  MaxTrades = 3
  Catalog <- MCCatalog
  Deploys <- MCDeploys
  Updates <- MCUpdates
  Contents <- MCContents
  Owner = 3
  Admins = {2}
  NoId = 0
  MaxHooks = 1
  MaxResults = 5
  Places <- MCPlaces
  TypedRules <- MCTyped
  Checked <- MCChecked
  MaxEntry = 5
  MaxRules = 2
  MaxDoubts = 1
  MaxEmoji = 3
  MaxText = 4
  Owners = {o1, o2}
  NoOwner = NoOwner
  Still = 4
  Moving = 6
  Reserve = 2
  MaxPack = 2
  MaxSent = 1
INVARIANT BooksBalance
INVARIANT NoOverdraft
INVARIANT UpdatesHaveOneReceiver
INVARIANT AliasIsLastSaved
INVARIANT ThreadRulesAreKept
INVARIANT ThreadVerdictIsRight
INVARIANT StickerAnswerIsTrue
INVARIANT StickerEmojiAreValid
PROPERTY SilentDenial
PROPERTY TradesReturn
CHECK_DEADLOCK FALSE
