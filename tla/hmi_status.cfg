SPECIFICATION Spec
CONSTANTS
  ManualSpeeds <- mcManualSpeeds
  AiSpeeds <- mcAiSpeeds
  Readings <- mcReadings
  AiPeriod = 2
  AiReady = TRUE
  NoSuggestion = NoSuggestion
  MaxBacklog = 1
INVARIANT FailedWriteIsVisible
CHECK_DEADLOCK FALSE
