\* one signal to two nodes, every process may end once
SPECIFICATION Spec

CONSTANTS
    Signals = {s1}
    Recipients = {r1, r2}
    MaxOutbox = 1
    MaxQueue = 1
    Policies = TRUE
    Requests = TRUE
    MaxNodeExits = 1
    MaxRelayExits = 1
    MaxRecipientExits = 1

SYMMETRY MCSymmetry

INVARIANTS
    TypeOK
    OneSend
    OneRow
    NoDeliveryForgotten
    DeliveredIsLogged
    AcceptedIsForwarded
    ConfirmedIsShown

PROPERTIES
    KeepsFeed

\* with every signal answered and expired nothing is left to do
CHECK_DEADLOCK FALSE
