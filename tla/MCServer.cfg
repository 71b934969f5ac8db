SPECIFICATION PartSpec
CONSTANTS
    Worker = {w1, w2}
    Ping = {p1, p2}
    Window = 1
    ArchiveAfter = 2
    MaxSends <- Sends
    MaxTime = 4
    User = {u1, u2}
    Solo = {s1}
    Lone = {e1}
    Device = {d1, d2}
    Box = {b1, b2}
    Linked = {b1}
    Dash = {c1, c2}
    Tab = {k1}
    ResetLink = {l1}
    VerifyLink = {v1, v2}
    Token = {t1, t2}
    Query = {q1, q2}
    Thread = {h1, h2, h3}
    Nobody = Nobody
SYMMETRY Exchangeable
INVARIANTS
    AllTypes
    OneRow
    Accounted
    HiddenIsSilent
    NoForeignFeed
    ToldOnce
    SignInGuarded
    StoreServes
    OneVersion
PROPERTIES
    SeenHoldsOn
    OwnerKept
CHECK_DEADLOCK FALSE
