SPECIFICATION ServicesSpec

CONSTANTS
  s1 = s1
  s2 = s2
  MaxDiscovery = 3
  AddressLimit = 1
  GapLimit = 2
  CacheTtl = 1
  Timeout = 1
  Concurrency = 2
  Scans = {s1, s2}
  MaxReceived = 1
  MaxFaults = 1
  InitiallyUsed <- LongAgo
  Kinds <- ScansOf
  EndOfTime = 3
  Txs = {"t1", "t2", "t3"}
  Touches <- TouchedBy
  PageSize = 1
  MaxPages = 2
  TxLimit = 2
  Callers = {"c1", "c2"}
  PriceTtl = 3
  PriceTimeout = 2
  PriceEnd = 7
  Presets <- FeePresets
  BlockLists <- BlockSequences
  MinimumFees = {1, 1000}
  CoinValue <- CoinsHeld
  Payments <- PaymentsAsked
  OwnAddress = "own"
  Rates <- RatesAsked
  Scripts = {"native-segwit", "taproot", "nested-segwit", "legacy"}
  PanelCoins <- CoinsListedThere
  PanelScript = "native-segwit"
  RowValues <- RowsTyped
  TypedRates <- RatesTyped
  PresetRates <- RatesPreset
  MaxRows = 2
  MaxPanelEdits = 3
  MaxDrafts = 2
  Texts <- ImportTexts
  FrameSet <- Frames
  Decoded <- DecodedTexts
  OlderWallets <- OldVaults
  MaxEdits = 2
  AddressKeys <- AddressesLabelled
  Txids <- TxidsLabelled
  LabelTexts = {"", "rent", "long"}
  NoteTexts = {"none", "why", "secret"}

INVARIANTS
  ServicesTypeOK
  CacheIsRecent
  ScansAreSound
  HistoryHasNoGap
  PriceIsRecent
  FeesFall
  BuiltPsbtPays
  OwnPsbtVerifies
  DraftIsOfTheForm
  PreviewIsOfTheForm
  WalletIsAsPreviewed

PROPERTIES
  FramesStay
  LabelsAreABook

\* Scans end, time ends, and the changes of a form are bounded.
CHECK_DEADLOCK FALSE
