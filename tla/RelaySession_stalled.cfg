SPECIFICATION FairSpec
CONSTANT Enabled = {"idle", "max", "slow"}
PROPERTY RelayBounded
CHECK_DEADLOCK FALSE
