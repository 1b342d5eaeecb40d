SPECIFICATION VolumeSpec
CONSTANTS
  Parts = {"mount"}
  c1 = c1
  c2 = c2
  c3 = c3
  Controllers = {c1, c2, c3}
  NameOf <- Distinct
  DevOptMax = 3
  MaxVolumes = 4
  Environments <- BindingEnvironments
  Usual <- UsualBoot
  Boots <- OtherBoots
  PageBlocks = 8
  Records = {3, 4}
  MaxLsn = 3
  MaxVersion = 2
  MountEnvironments <- Recovering
INVARIANT JournalIsReset
CHECK_DEADLOCK FALSE
