SPECIFICATION SpaceSpec
CONSTANTS
    Titles = {t1, t2}
    Limits <- MCLimits
    Connections = {c1, c2}
    Presets = {p1, p2}
    Keys = {k1}
    MasterKeys = {m1, m2}
INVARIANTS
    VersionsApart
    ReviewedTextKept
PROPERTY
    SecretsAsGiven
SYMMETRY Symmetry
CHECK_DEADLOCK FALSE
