SPECIFICATION VolumeSpec
CONSTANTS
  Parts = {"binding"}
  c1 = c1
  c2 = c2
  c3 = c3
  Controllers = {c1, c2, c3}
  NameOf <- Distinct
  DevOptMax = 3
  MaxVolumes = 4
  Environments <- Restarting
  Usual <- UsualBoot
  Boots <- OtherBoots
  PageBlocks = 8
  Records = {3, 4}
  MaxLsn = 5
  MaxVersion = 2
  MountEnvironments <- WithWindows
INVARIANT InstalledIsMounted
CHECK_DEADLOCK FALSE
