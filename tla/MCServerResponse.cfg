SPECIFICATION Spec
CONSTANTS
  Responses <- MCResponses
  Requests = {0, 2}
  ReadSize = 5
  HeadSize = 3
  Limit = 24
  SizeMax = 64
INVARIANTS ServerKeptWhenIdle ClientKeptWhenServed BodyIntact EndNoticed
