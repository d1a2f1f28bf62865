SPECIFICATION PostgresSpec
CONSTANTS
    MaxAddr = 2
    Addr <- MCAddr
INVARIANTS
    ProofDiscipline
    SessionIsMutual
    SocketsClosed
    PostgresRunFaithful
