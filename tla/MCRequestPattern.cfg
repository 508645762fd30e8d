CONSTANTS
  none = none
  NoValue = none
  Bools = {"https-inspection", "crunch-outgoing-cookies", "ignore-certificate-errors"}
  Strings = {"block", "hide-referrer", "limit-connect", "redirect", "change-x-forwarded-for"}
  Multis = {"add-header", "client-header-tagger", "client-body-tagger", "client-body-filter", "client-header-filter", "suppress-tag"}
  Braced = {}
  Taggers = {"method", "secrets"}
  Tag <- MCTag
  BodyTag <- MCBodyTag
  Client = "client"
  HeaderFilter <- MCHeaderFilter
  Rewritten <- MCRewritten
  Embedded <- MCEmbedded
  CgiHosts <- MCCgiHosts
  CgiPages <- MCCgiPages
  Disks <- FruitDisks
  Requests <- OneFruit
  InnerRequests <- MCInner
  ClientTagSets <- NoTags
  BodyFilter <- MCBodyFilter
  MaxFiles = 2
  MaxListening = 2
  MaxReferrers = 2
  ForcedPaths <- MCForcedPaths
SPECIFICATION Spec
CHECK_DEADLOCK FALSE
INVARIANTS
  PatternsMatchAsDescribed
