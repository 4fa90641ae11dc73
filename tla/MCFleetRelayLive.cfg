\* two signals to one node over files of one row, no process ends
SPECIFICATION FairSpec

CONSTANTS
    Signals = {s1, s2}
    Recipients = {r1}
    MaxOutbox = 1
    MaxQueue = 1
    Policies = FALSE
    Requests = FALSE
    MaxNodeExits = 0
    MaxRelayExits = 0
    MaxRecipientExits = 0

PROPERTIES
    EverySendSettles
    EveryDeliverySettles

\* with every signal answered and expired nothing is left to do
CHECK_DEADLOCK FALSE
