SPECIFICATION Spec
CONSTANTS
    i1 = i1
    i2 = i2
    Invite = {i1, i2}
    Person = {a, b, d}
    Caller = {c1, c2, c3}
    Admin = {h1}
    MaxUses <- MCMaxUses
    Direct = Direct
    Expiring = {}
    Watched = {}
INVARIANT
    NoOverConsumption
PROPERTY
    DeletesOnlyUnused
CHECK_DEADLOCK FALSE
