SPECIFICATION ServicesSpec
CONSTANTS
  Sends = {"s1", "s2"}
  Targets <- Urls
  Addresses = {"a1", "a2"}
  PublicAddresses = {"a1"}
  AllowHttp = TRUE
  MaxRedirects = 1
  MaxBytes = 1
  Volume = 2
  Calls = {"c1", "c2", "c3"}
  MaxQueues = 3
  r1 = r1
  r2 = r2
  Runners = {r1, r2}
  Repeatable <- ThreeFiles
  MaxVersion = 2
  MaxFaults = 1
INVARIANTS
  OutboundAccounted
  OrderlyProcess
  LedgerSound
PROPERTIES
  SendsAnswered
  
  StartsMigrated
CHECK_DEADLOCK FALSE
