\* the claim builder, forwarding and a crash against one packet
SPECIFICATION Spec

CONSTANTS
    h1 = h1
    w = w
    Humans = {h1}
    Worker = w
    MaxPackets = 1
    MaxCrashes = 1
    Forwarding = TRUE
    Building = TRUE

INVARIANTS
    TypeOK

PROPERTIES
    KeepsPromise

\* with every packet minted and every claim decided the node may rest
CHECK_DEADLOCK FALSE
