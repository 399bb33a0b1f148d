SPECIFICATION ServingSpec
CONSTANTS
  Lines <- AllLines
  MaxLines = 1
  ChannelCap = 1
  MaxEvents = 1
CHECK_DEADLOCK FALSE
PROPERTY ReturnsAfterInput
