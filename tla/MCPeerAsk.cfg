\* one ask, a queue of one, one caller that gives up or process that ends
SPECIFICATION FairSpec
CONSTANTS
    Asks = {a1}
    Senders = {t1, t2}
    Hands = {h1}
    Inline = {"answered"}
    MaxPending = 1
    MaxRows = 2
    MaxFaults = 1
    Idle = Idle
INVARIANTS
    TypeOK
    NoAskForgotten
PROPERTIES
    KeepsConsultation
    NothingWaitsForEver

\* with every ask settled nothing is left to do
CHECK_DEADLOCK FALSE
