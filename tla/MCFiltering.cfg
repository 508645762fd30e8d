SPECIFICATION Spec
CONSTANTS
  Responses <- MCResponses
  ActionSets <- MCActions
  ClientFlags <- MCClientFlags
INVARIANTS HeadFitsBody KeptClientFindsEnd MemoryBalanced CookiesLimited
CHECK_DEADLOCK FALSE
