SPECIFICATION Spec
CONSTANTS
    own = own
    other = other
    VapidKeys = {own, other}
    NoKey = NoKey
    InstanceKey = own
    Arriving <- MCArriving
    Ids = {i1, i2, i3}
    Devices = {d1}
    Requests = {r1, r2}
    None = None
    Platform <- MCPlatform
    ExpoTokens = {}
    Configured = {"fcm"}
    Padded = {}
    SecretSet = TRUE
    Faults = {"deleteFails", "restart"}
SYMMETRY MCSymmetry
INVARIANTS TypeOK OneEndpointPerDevice LiveSubscriptionKept OnlyPinnedSender LogoutSilences
PROPERTY KillJustified
