SPECIFICATION KafkaSpec
CONSTANTS
    MaxAddr = 2
    Addr <- MCAddr
    Responses <- MCResponses
INVARIANTS
    SecretDiscipline
    AdvertisedSocketsClosed
    CompletenessIsExact
    KafkaRunFaithful
