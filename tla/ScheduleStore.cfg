SPECIFICATION Spec
CONSTANTS
  Feature <- MCFeature
  Story <- MCStory
  Value <- MCValue
  MaxRequest = 2
  None = None
INVARIANT CacheSound
PROPERTY PinsSurvive
CHECK_DEADLOCK FALSE
