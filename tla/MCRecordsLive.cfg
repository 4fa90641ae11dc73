\* rows leave the outbox though the service never answers and a crash
\* falls between any two calls
SPECIFICATION FairSpec

CONSTANTS
    h1 = h1
    w = w
    Humans = {h1}
    Worker = w
    MaxPackets = 1
    MaxCrashes = 1
    Forwarding = FALSE
    Building = FALSE

PROPERTIES
    OutboxDrains

\* with every packet minted and every claim decided the node may rest
CHECK_DEADLOCK FALSE
