SPECIFICATION DeviceSpec
CONSTANTS
  Button = {cross}
  Time = {0, 1}
  Capacity = 2
  Attempts = 2
INVARIANTS
  ReportsLastNews
PROPERTIES
  ServiceIsReturned
