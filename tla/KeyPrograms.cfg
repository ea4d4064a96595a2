CONSTANTS
  Programs = {"demo", "quickstart"}
  Headless = {0, 1, 2}
  Handlers = {"interrupt", "thread"}
  Users = {"any", "patient"}
  Spans = {7, 8}
  MaxRuns = 2
SPECIFICATION FairSpec
INVARIANT ColourShown
PROPERTY OnePressPerRound
PROPERTY ExitMeansLong
PROPERTY LongPressesEnd
