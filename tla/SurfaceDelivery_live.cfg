SPECIFICATION SurfLiveSpec
CONSTANTS
  Preferences = {"p"}
  MaxFrames = 2
  MaxMoves = 1
  MaxWishes = 3
  MaxFaults = 2
  NoneLimit = 2
PROPERTIES OldPreferencesAreNotServed StillSurfacesAreShown
CHECK_DEADLOCK FALSE
