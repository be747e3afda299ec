CONSTANTS
  Kinds = {"SD1", "SD2", "SDHC", "MMC", "EMMC", "SDIO"}
  MAX_RETRY_COUNT = 2
  HasSetIos = TRUE
  Hosts <- HostSorts
SPECIFICATION IdentFairSpec
INVARIANTS SuccessIsTransfer GoodCardIdentified
PROPERTY IdentificationEnds
