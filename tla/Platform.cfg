SPECIFICATION Spec
CONSTANTS
  Platforms = {"linux", "macos", "windows"}
  Options <- MCOptions
  Lines <- MCLines
  Rates = {0, 4}
  MaxOps = 3
  None = None
  Systems <- MCSystems
  Classes <- MCClasses
  Values <- MCValues
  Order <- MCOrder
  Capital <- MCCapital
  MaxSize = 8
  MaxChanges = 2
INVARIANTS OpeningExact ListingExact
