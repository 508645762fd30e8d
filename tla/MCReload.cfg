SPECIFICATION Spec
CONSTANTS
  c1 = c1
  c2 = c2
  pConf = pConf
  pA = pA
  pB = pB
  pTrust = pTrust
  Clients = {c1, c2}
  FileIds = {1, 2, 3, 4, 5, 6}
  Slots <- MCSlots
  LoaderOf <- MCLoaderOf
  TrustSlot = "trust"
  Paths = {pConf, pA, pB, pTrust}
  ConfigPath = pConf
  Configs <- MCConfigs
  NoFile = NoFile
  NoPath = NoPath
  NoClient = NoClient
  NoConfig = NoConfig
  MaxEdits = 3
  MaxDrains = 2
ACTION_CONSTRAINT AllocateFirst
INVARIANTS ReloadInv FilesInUseLoaded CurrentFilesLoaded LoadedIsCurrentOrObsolete
  SnapshotFollowsConfig BoundToConfig TlsReleasedWhenIdle
PROPERTY FreshWhenServed
