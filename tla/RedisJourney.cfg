SPECIFICATION RedisSpec
CONSTANTS
    MaxAddr = 2
    Addr <- MCAddr
INVARIANTS
    CredentialDiscipline
    NoSocketOutlivesRun
    RedisRunFaithful
