SPECIFICATION FairSpec
CONSTANTS
  Window = 3
  Low = 1
  High = 3
  Readings <- MCReadings
PROPERTIES
  ImplementsSensor
  WarmsUp
