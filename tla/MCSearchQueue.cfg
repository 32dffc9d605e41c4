CONSTANTS
  Docs = {d1, d2}
  Writers = {w1}
  Kinds = {"apply", "write"}
  HeavyPerTick = 1
  FastPerTick = 1
  MaxBody = 2
  None = None
SPECIFICATION FairSpec
INVARIANTS
  TypeOK
  QueuedStaysLoaded
  SuggestionsCurrent
  WatermarkIsTrue
  SearchCurrentUnlessOvertaken
  NobodyIsStarved
PROPERTIES
  SuggestionsNeverGoBack
  QueueDrains
CHECK_DEADLOCK FALSE
