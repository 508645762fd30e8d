SPECIFICATION Spec
CONSTANTS
  Configurations <- MCConfigurations
  MaxRequests = 2
CHECK_DEADLOCK FALSE
INVARIANTS UpstreamInOrder StrayOnlyIfAbandoned NothingStuck
PROPERTY ConnectionEnds
