SPECIFICATION FairSpec
CONSTANTS
  ManualSpeeds <- mcManualSpeeds
  AiSpeeds <- mcAiSpeeds
  Readings <- mcReadings
  AiPeriod = 2
  AiReady = TRUE
  NoSuggestion = NoSuggestion
  MaxBacklog = 0
INVARIANTS TypeOK CommandInRange OfferIsWhatIsShown
PROPERTIES QuietAfterClose CloseCompletes SuggestionArrives
CHECK_DEADLOCK FALSE
