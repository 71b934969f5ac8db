SPECIFICATION Spec
CONSTANTS
    Handler = {h1, h2}
    Pings <- AllPings
    Weight <- Weights
    Threshold = 80
    HighBar = 60
    CapScore = 100
    Capped = 79
    Confirm = 3
    Policies = {"capture", "siren"}
    MaxCases = 2
    MaxSame = 2
SYMMETRY Handlers
PROPERTIES
    ExitSounds
CHECK_DEADLOCK FALSE
