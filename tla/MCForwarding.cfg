CONSTANTS
  Addresses <- MCAddresses
  Directives <- MCDirectives
  Client = "lan"
  Retries = 2
  Tasks <- MCTasks
  DomainSizes <- MCDomainSizes
  Response = 3
SPECIFICATION Spec
CHECK_DEADLOCK FALSE
INVARIANTS
  ReplyConsumed
  RequestOnce
  OnlyPermitted
