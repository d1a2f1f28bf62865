SPECIFICATION RedisSpec
CONSTANTS
    MaxAddr = 1
    Addr <- MCAddr
INVARIANTS
    PingClaimIsPings
