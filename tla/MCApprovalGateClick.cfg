SPECIFICATION Spec
CONSTANTS
    Requests = {r1}
    MaxPackets = 2
    MaxResets = 0
    None = None
INVARIANTS
    ClickFollowsApproval
