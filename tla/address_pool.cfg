SPECIFICATION PopulateSpec
CONSTANT Max32 = 64
CONSTANT Sizes = {1, 2, 4, 8, 16, 32, 64}
INVARIANT PoolIsHosts
PROPERTY Populates
CHECK_DEADLOCK FALSE
