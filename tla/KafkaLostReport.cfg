SPECIFICATION KafkaSpec
CONSTANTS
    MaxAddr = 2
    Addr <- MCAddr
    Responses <- MCResponses
INVARIANT
    TopologyIsReported
