SPECIFICATION PartSpec
CONSTANTS
    Handler = {h1, h2}
    Threshold = 80
    HighBar = 60
    CapScore = 100
    Capped = 79
    Confirm = 3
    Cmd = {c1}
    Cmds = {c2, c3}
    Lock = 1
    Long = 2
    SmsWindow = 3
    SmsBuild = {TRUE, FALSE}
    Phones = {"plus", "bare"}
    Item = {i1, i2}
    Deleter = {d1, d2}
    MaxLoad = 1
    MaxText = 3
    None = None
SYMMETRY Alike
INVARIANTS
    AllTypes
    CaseMatchesMode
    OnePerExit
    NotStranded
    OneChannel
    HonestAcross
    InCustody
    CountsRows
    OpenCaseKept
PROPERTIES
    Activation
    OnceInTime
CHECK_DEADLOCK FALSE
