SPECIFICATION Spec
CONSTANTS
    Request = {r1, r2, r3}
    Sid = {s1, s2}
    NoSid = NoSid
    None = None
    Foreign = Foreign
    Lifetime = 2
    TtlSize = 8
    DefaultTtl = 1
    MaxDestroys = 2
SYMMETRY Symmetry
INVARIANTS
    AcknowledgedIsKept
    OnlyIssuedIds
    DestroyIsFinal
    NewSessionIsEmpty
    RenewedOnClose
