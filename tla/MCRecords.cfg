\* one session at a time, two packets, a crash between any two calls
SPECIFICATION Spec

CONSTANTS
    h1 = h1
    w = w
    Humans = {h1}
    Worker = w
    MaxPackets = 2
    MaxCrashes = 1
    Forwarding = FALSE
    Building = FALSE

INVARIANTS
    RejectedStaysOut
    RecordedIsWritten

\* with every packet minted and every claim decided the node may rest
CHECK_DEADLOCK FALSE
