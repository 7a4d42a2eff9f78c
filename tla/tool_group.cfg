\* Groups of up to four calls, under every kind of cap.
SPECIFICATION FairSpec
CONSTANTS
  MaxCalls = 4
  Limits <- MCLimits
INVARIANTS
  TypeOK
  ResultsMatchRequests
  NoLeakedWorker
PROPERTIES
  Implements
  Returns
